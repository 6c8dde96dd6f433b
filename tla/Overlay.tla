------------------------------- MODULE Overlay -------------------------------
(***************************************************************************)
(* Applying an overlay to a document: Applier.ApplyParsed (overlay/apply.go)*)
(* and the evaluation of JSONPath targets it rests on (internal/jsonpath). *)
(*                                                                         *)
(* A document is made of Go maps and slices.  A map is a reference, and a  *)
(* slice is a reference to a backing array with a length, so one of them   *)
(* may be reached from several places; the update of an action is made of  *)
(* the same.  The steps are the calls of the traversals: which key of a    *)
(* map comes next is Go's choice, and what a step changes is what later    *)
(* ones see.                                                               *)
(***************************************************************************)
EXTENDS Integers, Sequences, FiniteSets, SequencesExt

-----------------------------------------------------------------------------
\* What an overlay action promises (the Action Types section of overlay/doc.go),
\* over documents that are plain values: updating one place of a tree changes
\* no other place.

Leaf(n)     == [kind |-> "scalar", leaf |-> n, kids |-> <<>>, items |-> <<>>]
Object(f)   == [kind |-> "map", leaf |-> 0, kids |-> f, items |-> <<>>]
Array(s)    == [kind |-> "list", leaf |-> 0, kids |-> <<>>, items |-> s]
TooDeep     == [kind |-> "deep", leaf |-> 0, kids |-> <<>>, items |-> <<>>]

\* The value a filter compares, or none: only objects have fields.
Satisfied(t, seg) == t.kind = "map" /\ seg.key \in DOMAIN t.kids /\ t.kids[seg.key] = Leaf(seg.at)

Place(at, len) == IF at < 0 THEN len + at + 1 ELSE at + 1

\* The keys of an object and the positions of an array a segment selects.
PickedKeys(t, seg) ==
    {k \in DOMAIN t.kids :
        CASE seg.kind = "child"  -> k = seg.key
          [] seg.kind = "wild"   -> TRUE
          [] seg.kind = "filter" -> Satisfied(t.kids[k], seg)
          [] OTHER               -> FALSE}

PickedItems(t, seg) ==
    {i \in DOMAIN t.items :
        CASE seg.kind = "index"  -> i = Place(seg.at, Len(t.items))
          [] seg.kind = "wild"   -> TRUE
          [] seg.kind = "filter" -> Satisfied(t.items[i], seg)
          [] OTHER               -> FALSE}

RECURSIVE Merge(_, _)
Merge(t, u) ==
    Object([k \in DOMAIN t.kids \cup DOMAIN u.kids |->
        IF k \notin DOMAIN u.kids THEN t.kids[k]
        ELSE IF k \in DOMAIN t.kids /\ t.kids[k].kind = "map" /\ u.kids[k].kind = "map"
        THEN Merge(t.kids[k], u.kids[k])
        ELSE u.kids[k]])

\* Objects are merged, arrays get the update appended, anything else is replaced.
Updated(t, u) ==
    IF t.kind = "map" /\ u.kind = "map" THEN Merge(t, u)
    ELSE IF t.kind = "list" THEN Array(Append(t.items, u))
    ELSE u

\* t with Op applied to what a segment picks in it, and with Below applied to
\* every child before that.
Changed(t, seg, Op(_), Below(_)) ==
    [t EXCEPT
        !.kids  = [k \in DOMAIN @ |->
                     IF k \in PickedKeys(t, seg) THEN Op(Below(@[k])) ELSE Below(@[k])],
        !.items = [i \in DOMAIN @ |->
                     IF i \in PickedItems(t, seg) THEN Op(Below(@[i])) ELSE Below(@[i])]]

\* Update all matches of a path, the inner ones of two nested matches first.
RECURSIVE UpdateAll(_, _, _)
UpdateAll(t, path, u) ==
    IF path = <<>> THEN Updated(t, u)
    ELSE LET rest(v)  == UpdateAll(v, Tail(path), u)
             below(v) == IF Head(path).rec THEN UpdateAll(v, path, u) ELSE v
         IN  Changed(t, Head(path), rest, below)

Dropped(t, seg) ==
    [t EXCEPT
        !.kids  = [k \in DOMAIN @ \ PickedKeys(t, seg) |-> @[k]],
        !.items = LET keep == {i \in DOMAIN @ : i \notin PickedItems(t, seg)}
                      kept == SetToSortSeq(keep, <)
                  IN [n \in DOMAIN kept |-> @[kept[n]]]]

RECURSIVE RemoveAll(_, _)
RemoveAll(t, path) ==
    LET seg      == Head(path)
        same(v)  == v
        below(v) == IF seg.rec THEN RemoveAll(v, path) ELSE v
        rest(v)  == RemoveAll(v, Tail(path))
        none     == [seg EXCEPT !.kind = "none"]
    IN  IF Len(path) = 1
        THEN Changed(Dropped(t, seg), none, same, below)
        ELSE Changed(t, seg, rest, below)

\* One action on a document.  The root cannot be removed, nor replaced by
\* something that is not an object.
Result(document, action) ==
    IF action.remove
    THEN IF action.target = <<>> THEN document ELSE RemoveAll(document, action.target)
    ELSE IF action.target = <<>> /\ action.update.kind # "map" THEN document
    ELSE UpdateAll(document, action.target, action.update)

-----------------------------------------------------------------------------

CONSTANTS
    Inputs,             \* [maps, arrays, actions]: a document and an overlay
    MaxRecursionDepth,  \* the depth recursive descent gives up at
    MaxTree             \* the depth to which documents are compared

VARIABLES
    maps,       \* maps[id]: the map with that identity; the document is map 1
    arrays,     \* arrays[id]: a backing array, as long as its capacity
    actions,    \* o.Actions: [target, remove, update]
    strict,     \* Applier.StrictTargets
    index,      \* the action that is next or being applied
    pc,         \* "next", "visit", "done", "failed"
    pending,    \* the parents whose visit has not begun: <<number, value>>
    stack,      \* the calls that have not returned
    record,     \* the ChangeRecord being filled: [count, operation]
    changes,    \* ApplyResult.Changes
    skipped,    \* ApplyResult.ActionsSkipped
    expected    \* history: the tree the actions applied so far promise

heap    == <<maps, arrays>>
overlay == <<actions, strict>>
results == <<changes, skipped>>
vars    == <<heap, overlay, index, pc, pending, stack, record, results, expected>>

\* it is a scalar or the identity of a map or backing array.
Scalar(n)   == [kind |-> "scalar", it |-> n, len |-> 0]
Map(id)     == [kind |-> "map", it |-> id, len |-> 0]
List(id, n) == [kind |-> "list", it |-> id, len |-> n]
Root        == Map(1)

Acting == actions[index]

\* The tree a value is, read from the heap m, a.
RECURSIVE TreeOf(_, _, _, _)
TreeOf(m, a, v, depth) ==
    IF depth = 0 THEN TooDeep
    ELSE IF v.kind = "map"
    THEN Object([k \in DOMAIN m[v.it] |-> TreeOf(m, a, m[v.it][k], depth - 1)])
    ELSE IF v.kind = "list"
    THEN Array([i \in 1..v.len |-> TreeOf(m, a, a[v.it][i], depth - 1)])
    ELSE Leaf(v.it)

-----------------------------------------------------------------------------
\* Path.Get.

Slots(v) == IF v.kind = "map" THEN DOMAIN maps[v.it]
            ELSE IF v.kind = "list" THEN 1..v.len
            ELSE {}
At(v, k) == IF v.kind = "map" THEN maps[v.it][k] ELSE arrays[v.it][k]

\* evalFilter, for an equality with a scalar.
Satisfies(v, seg) ==
    v.kind = "map" /\ seg.key \in DOMAIN maps[v.it] /\ maps[v.it][seg.key] = Scalar(seg.at)

\* The slots of v a segment selects (the recursion apart).
Selected(v, seg) ==
    {k \in Slots(v) :
        CASE seg.kind = "child"  -> v.kind = "map" /\ k = seg.key
          [] seg.kind = "index"  -> v.kind = "list" /\ k = Place(seg.at, v.len)
          [] seg.kind = "wild"   -> TRUE
          [] seg.kind = "filter" -> Satisfies(At(v, k), seg)
          [] OTHER               -> FALSE}

ValuesAt(v, slots) == LET s == SetToSeq(slots) IN [i \in DOMAIN s |-> At(v, s[i])]

Concat(seqs) == FlattenSeq(seqs)

\* recursiveDescend: v, its children, theirs, ... each with the child selector
\* applied; a bare ".." collects every one of them but v.
Descend(v, seg) ==
    LET level[d \in 0..MaxRecursionDepth] ==
            IF d = 0 THEN <<v>>
            ELSE LET up == level[d - 1] IN
                 Concat([i \in DOMAIN up |-> ValuesAt(up[i], Slots(up[i]))])
        visited == Concat([d \in 1..MaxRecursionDepth + 1 |-> level[d - 1]])
    IN  Concat([i \in DOMAIN visited |->
            ValuesAt(visited[i], IF seg.kind = "none" THEN Slots(visited[i])
                                 ELSE Selected(visited[i], seg))])

\* applySegment on one node.
Follow(v, seg) == IF seg.rec THEN Descend(v, seg) ELSE ValuesAt(v, Selected(v, seg))

\* Every match, as often as it is met, in some order.
Get(path) ==
    LET got[i \in 0..Len(path)] ==
            IF i = 0 THEN <<Root>>
            ELSE Concat([n \in DOMAIN got[i - 1] |-> Follow(got[i - 1][n], path[i])])
    IN  got[Len(path)]

-----------------------------------------------------------------------------
\* ApplyParsed, around the traversals.

Advance(nextPc) ==
    /\ pc' = nextPc
    /\ index' = index + 1
    /\ expected' = IF nextPc = "failed" THEN expected
                   ELSE Result(expected, [Acting EXCEPT !.update = Acting.written])

Report(count, operation) ==
    changes' = Append(changes, [action |-> index, count |-> count, operation |-> operation])

\* No match, or a removal of the root.
Skip ==
    /\ pc = "next" /\ index =< Len(actions)
    /\ Get(Acting.target) = <<>> \/ (Acting.remove /\ Acting.target = <<>>)
    /\ IF strict THEN Advance("failed") /\ UNCHANGED skipped
                 ELSE Advance("next") /\ skipped' = skipped + 1
    /\ UNCHANGED <<heap, overlay, pending, stack, record, changes>>

\* A call of modifyInParentAt, of removeFromParentAt after its own removals,
\* and of mergeDeep.
Modify(v, depth) ==
    [call |-> "modify", node |-> v, from |-> v, todo |-> Slots(v), depth |-> depth]
Descending(v, depth) ==
    [call |-> "descend", node |-> v, from |-> v, todo |-> Slots(v), depth |-> depth]
Removing(v, slots, depth) ==
    [call |-> "remove", node |-> v, from |-> v, todo |-> slots, depth |-> depth]
Merging(v, u) ==
    [call |-> "merge", node |-> v, from |-> u, todo |-> DOMAIN maps[u.it], depth |-> 0]

Bag(seq) == {<<i, seq[i]>> : i \in DOMAIN seq}
Butlast(path, n) == SubSeq(path, 1, Len(path) - n)

\* The segment modifyInParent is called with: the target's last, or for a
\* removal the one before it.
Segment == Acting.target[Len(Acting.target) - (IF Acting.remove THEN 1 ELSE 0)]
Removal == Last(Acting.target)

\* Modify merges into the root in place, and drops any other result.
StartAtRoot ==
    /\ pc = "next" /\ index =< Len(actions)
    /\ Acting.target = <<>> /\ ~Acting.remove
    /\ record' = [count |-> 1, operation |->
                    IF Acting.update.kind = "map" THEN "update" ELSE "replace"]
    /\ stack' = IF Acting.update.kind = "map" THEN <<Merging(Root, Acting.update)>> ELSE <<>>
    /\ pending' = {}
    /\ pc' = "visit"
    /\ UNCHANGED <<heap, overlay, index, results, expected>>

\* The parents, and for a removal the grandparents, are found before anything
\* is changed.
Start ==
    /\ pc = "next" /\ index =< Len(actions)
    /\ Acting.target # <<>>
    /\ Acting.remove => Len(Acting.target) > 1
    /\ LET matches == Get(Acting.target) IN
         /\ matches # <<>>
         /\ record' = [count |-> Len(matches), operation |-> "remove"]
    /\ pending' = Bag(Get(Butlast(Acting.target, IF Acting.remove THEN 2 ELSE 1)))
    /\ stack' = <<>>
    /\ pc' = "visit"
    /\ UNCHANGED <<heap, overlay, index, results, expected>>

Enter ==
    /\ pc = "visit" /\ stack = <<>>
    /\ \E parent \in pending :
         /\ pending' = pending \ {parent}
         /\ stack' = <<Modify(parent[2], 0)>>
    /\ UNCHANGED <<heap, overlay, index, pc, record, results, expected>>

EndAction ==
    /\ pc = "visit" /\ stack = <<>> /\ pending = {}
    /\ Report(record.count, record.operation)
    /\ Advance("next")
    /\ UNCHANGED <<heap, overlay, pending, stack, record, skipped>>

Finish ==
    /\ pc = "next" /\ index > Len(actions)
    /\ pc' = "done"
    /\ UNCHANGED <<heap, overlay, index, pending, stack, record, results, expected>>

-----------------------------------------------------------------------------
\* The traversals.

Top     == stack[Len(stack)]
Calling(call) == pc = "visit" /\ stack # <<>> /\ Top.call = call

\* A range over a map takes any key, over a slice the first.
Next1(k) == k \in Top.todo /\ (Top.node.kind = "list" => \A i \in Top.todo : k =< i)
Returned(k) == [stack EXCEPT ![Len(stack)].todo = @ \ {k}]

\* v becomes the value of slot k of node, in heap m, a.
Assign(m, a, node, k, v) ==
    IF node.kind = "map"
    THEN maps' = [m EXCEPT ![node.it] = [x \in DOMAIN @ \cup {k} |-> IF x = k THEN v ELSE @[x]]]
         /\ arrays' = a
    ELSE maps' = m /\ arrays' = [a EXCEPT ![node.it][k] = v]

\* append(list, u) writes behind the list if its array has room there, and
\* otherwise into an array of twice the capacity.
Appended(list, u) ==
    LET old == arrays[list.it]
        new == SubSeq(old, 1, list.len) \o [i \in 1..(IF list.len = 0 THEN 1 ELSE list.len) |->
                                              IF i = 1 THEN u ELSE Scalar(0)]
    IN  IF list.len < Len(old)
        THEN [arrays |-> [arrays EXCEPT ![list.it][list.len + 1] = u], it |-> list.it]
        ELSE [arrays |-> Append(arrays, new), it |-> Len(arrays) + 1]

\* The function applyAction passes to Modify, on the value e of slot k.
Merge1(e, k) ==
    /\ e.kind = "map" /\ Acting.update.kind = "map"
    /\ record' = [record EXCEPT !.operation = "update"]
    /\ stack' = Append(Returned(k), Merging(e, Acting.update))
    /\ UNCHANGED heap

AppendTo(e, k) ==
    /\ e.kind = "list"
    /\ record' = [record EXCEPT !.operation = "append"]
    /\ LET r == Appended(e, Acting.update) IN
         Assign(maps, r.arrays, Top.node, k, List(r.it, e.len + 1))
    /\ stack' = Returned(k)

Overwrite(e, k) ==
    /\ e.kind = "scalar" \/ (e.kind = "map" /\ Acting.update.kind # "map")
    /\ record' = [record EXCEPT !.operation = "replace"]
    /\ Assign(maps, arrays, Top.node, k, Acting.update)
    /\ stack' = Returned(k)

\* modifyInParentAt: the slot is still selected when its turn comes.
UpdateSlot(k) ==
    /\ Calling("modify") /\ ~Acting.remove /\ Next1(k)
    /\ k \in Selected(Top.node, Segment)
    /\ LET e == At(Top.node, k) IN Merge1(e, k) \/ AppendTo(e, k) \/ Overwrite(e, k)
    /\ UNCHANGED <<overlay, index, pc, pending, results, expected>>

\* mergeDeep, one key of the update.
MergeKey(k) ==
    /\ Calling("merge") /\ k \in Top.todo
    /\ LET t == Top.node
           u == maps[Top.from.it][k]
       IN
       IF k \in DOMAIN maps[t.it] /\ maps[t.it][k].kind = "map" /\ u.kind = "map"
       THEN stack' = Append(Returned(k), Merging(maps[t.it][k], u)) /\ UNCHANGED heap
       ELSE stack' = Returned(k) /\ Assign(maps, arrays, t, k, u)
    /\ UNCHANGED <<overlay, index, pc, pending, record, results, expected>>

\* Mutant: a filter shifts the elements it keeps, and the slice keeps its length.
RemovedInPlace(v, seg) ==
    LET gone  == Selected(v, seg)
        keep  == SetToSortSeq({i \in 1..v.len : i \notin gone}, <)
        kept  == [n \in DOMAIN keep |-> arrays[v.it][keep[n]]]
    IN  IF v.kind = "map"
        THEN [maps   |-> [maps EXCEPT ![v.it] = [k \in DOMAIN @ \ gone |-> @[k]]],
              arrays |-> arrays, value |-> v]
        ELSE IF gone = {} THEN [maps |-> maps, arrays |-> arrays, value |-> v]
        ELSE [maps   |-> maps, value |-> v,
              arrays |-> [arrays EXCEPT ![v.it] = kept \o SubSeq(@, Len(kept) + 1, Len(@))]]

\* What removeFromParentAt makes of v itself: keys are deleted from a map,
\* an index is spliced out into a new array, and a filter shifts the elements
\* it keeps to the front of the same array.
Removed(v, seg) ==
    LET gone  == Selected(v, seg)
        keep  == SetToSortSeq({i \in 1..v.len : i \notin gone}, <)
        kept  == [n \in DOMAIN keep |-> arrays[v.it][keep[n]]]
        short == List(v.it, Len(keep))
    IN  IF gone = {} THEN [maps |-> maps, arrays |-> arrays, value |-> v]
        ELSE IF v.kind = "map"
        THEN [maps   |-> [maps EXCEPT ![v.it] = [k \in DOMAIN @ \ gone |-> @[k]]],
              arrays |-> arrays, value |-> v]
        ELSE IF seg.kind = "index"
        THEN [maps   |-> maps, arrays |-> Append(arrays, kept),
              value  |-> List(Len(arrays) + 1, Len(kept))]
        ELSE [maps   |-> maps, value |-> short,
              arrays |-> IF seg.kind = "wild" THEN arrays
                         ELSE [arrays EXCEPT ![v.it] = kept \o SubSeq(@, Len(kept) + 1, Len(@))]]

\* Where the removal goes on after it has changed v: a recursive segment with
\* a child selector descends into what is left.
Below(m, r, depth) ==
    IF Removal.rec /\ Removal.kind # "none" /\ depth < MaxRecursionDepth
    THEN Removing(r, IF r.kind = "map" THEN DOMAIN m[r.it] ELSE IF r.kind = "list" THEN 1..r.len ELSE {}, depth)
    ELSE Removing(r, {}, depth)

RemoveIn(v, k, depth) ==
    LET r == Removed(v, Removal) IN
    /\ Assign(r.maps, r.arrays, Top.node, k, r.value)
    /\ stack' = Append(Returned(k), Below(r.maps, r.value, depth))

\* The parents a removal changes are slots of the grandparents.
RemoveFromSlot(k) ==
    /\ Calling("modify") /\ Acting.remove /\ Next1(k)
    /\ k \in Selected(Top.node, Segment)
    /\ RemoveIn(At(Top.node, k), k, 0)
    /\ UNCHANGED <<overlay, index, pc, pending, record, results, expected>>

RemoveDeeper(k) ==
    /\ Calling("remove") /\ Next1(k)
    /\ RemoveIn(At(Top.node, k), k, Top.depth + 1)
    /\ UNCHANGED <<overlay, index, pc, pending, record, results, expected>>

\* The root's own children are removed directly.
StartRemoveFromRoot ==
    /\ pc = "next" /\ index =< Len(actions)
    /\ Acting.remove /\ Len(Acting.target) = 1
    /\ LET matches == Get(Acting.target) IN
         /\ matches # <<>>
         /\ record' = [count |-> Len(matches), operation |-> "remove"]
    /\ LET r == Removed(Root, Removal) IN
         /\ maps' = r.maps /\ arrays' = r.arrays
         /\ stack' = <<Below(r.maps, r.value, 0)>>
    /\ pending' = {}
    /\ pc' = "visit"
    /\ UNCHANGED <<overlay, index, results, expected>>

\* A slot that is not selected, or no longer.
PassOver(k) ==
    /\ Calling("modify") /\ Next1(k)
    /\ k \notin Selected(Top.node, Segment)
    /\ stack' = Returned(k)
    /\ UNCHANGED <<heap, overlay, index, pc, pending, record, results, expected>>

\* A recursive segment goes on into the values as they are by now.
GoDeeper ==
    /\ Calling("modify") /\ Top.todo = {}
    /\ Segment.rec /\ Segment.kind # "none"
    /\ stack' = [stack EXCEPT ![Len(stack)] = Descending(Top.node, Top.depth)]
    /\ UNCHANGED <<heap, overlay, index, pc, pending, record, results, expected>>

Deeper(k) ==
    /\ Calling("descend") /\ Next1(k)
    /\ stack' = IF Top.depth = MaxRecursionDepth \/ k \notin Slots(Top.node)
                THEN Returned(k)
                ELSE Append(Returned(k), Modify(At(Top.node, k), Top.depth + 1))
    /\ UNCHANGED <<heap, overlay, index, pc, pending, record, results, expected>>

Return ==
    /\ pc = "visit" /\ stack # <<>> /\ Top.todo = {}
    /\ Top.call = "modify" => ~Segment.rec \/ Segment.kind = "none"
    /\ stack' = Front(stack)
    /\ UNCHANGED <<heap, overlay, index, pc, pending, record, results, expected>>

Finished == pc \in {"done", "failed"} /\ UNCHANGED vars

-----------------------------------------------------------------------------

Init ==
    /\ \E input \in Inputs :
         /\ maps = input.maps /\ arrays = input.arrays
         /\ actions = [i \in DOMAIN input.actions |->
              LET a == input.actions[i] IN
              [target |-> a.target, remove |-> a.remove, update |-> a.update,
               written |-> TreeOf(maps, arrays, a.update, MaxTree)]]
    /\ strict \in BOOLEAN
    /\ index = 1 /\ pc = "next" /\ pending = {} /\ stack = <<>>
    /\ record = [count |-> 0, operation |-> "none"]
    /\ changes = <<>> /\ skipped = 0
    /\ expected = TreeOf(maps, arrays, Root, MaxTree)

Slot(k) ==
    \/ UpdateSlot(k) \/ MergeKey(k) \/ RemoveFromSlot(k) \/ RemoveDeeper(k)
    \/ PassOver(k) \/ Deeper(k)

Next ==
    \/ Skip \/ StartAtRoot \/ Start \/ StartRemoveFromRoot \/ Enter
    \/ \E k \in IF stack = <<>> THEN {} ELSE Top.todo : Slot(k)
    \/ GoDeeper \/ Return
    \/ EndAction \/ Finish
    \/ Finished

Spec == Init /\ [][Next]_vars

-----------------------------------------------------------------------------
\* Properties.

TypeOK ==
    /\ index \in 1..Len(actions) + 1
    /\ pc \in {"next", "visit", "done", "failed"}
    /\ \A i \in DOMAIN stack :
         /\ stack[i].call \in {"modify", "descend", "remove", "merge"}
         /\ stack[i].depth \in 0..MaxRecursionDepth
    /\ Len(changes) + skipped =< Len(actions)

\* After every action the document is the one the actions promise, applied to
\* the document and to the overlay as they were written: no action reaches a
\* place its target does not match, whichever order maps are iterated in and
\* whatever earlier actions stored.
AppliedAsWritten ==
    pc # "visit" => TreeOf(maps, arrays, Root, MaxTree) = expected

=============================================================================
