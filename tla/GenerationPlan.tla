--------------------------- MODULE GenerationPlan ---------------------------
(***************************************************************************)
(* What the code generator decides before it writes a line: the settings   *)
(* it runs with (the option functions of the library and the flags of the  *)
(* command), the Go names of operations and schemas, and the split plan    *)
(* that spreads operations and types over groups of files.                 *)
(*                                                                         *)
(* A document is a record [version, errors, ops, schemas, security,        *)
(* schemes]; an operation is a record [path, method, id, tag, uses, body,  *)
(* reply, query, security], where id and tag are "" when absent, uses is   *)
(* the set of schemas its parameters, body and responses refer to, and     *)
(* body and reply, the content of its body and of its success response,    *)
(* take media types to schemas. A scheme is a record [name, kind,          *)
(* insecure]: whether its address is neither HTTPS nor local.              *)
(***************************************************************************)
EXTENDS Integers, SequencesExt, FiniteSetsExt

CONSTANTS
    GoName,      \* raw name -> exported Go identifier (toTypeName)
    PathName,    \* path -> method -> identifier made of both
    PathPrefix,  \* path -> its first segment, "default" for a parameter
    Rank,        \* string -> its place in the byte order
    Letter,      \* string -> its first letter in lower case
    Clean        \* group name -> file name suffix (sanitizeGroupName)

None == ""

\* The settings of generator.New, and of applyOptions before any option.
Defaults ==
    [client |-> FALSE, server |-> FALSE, types |-> TRUE, strict |-> FALSE,
     maxLines |-> 2000, maxTypes |-> 200, maxOperations |-> 100,
     byTag |-> TRUE, byPrefix |-> TRUE, helpers |-> TRUE, oauth2 |-> FALSE,
     credentials |-> FALSE, discovery |-> FALSE,
     enforce |-> FALSE, readme |-> TRUE, router |-> None, middleware |-> FALSE,
     binder |-> FALSE, responses |-> FALSE, stubs |-> FALSE]

Extensions == {"router", "middleware", "binder", "responses", "stubs"}
Limits == {"maxLines", "maxTypes", "maxOperations"}

\* WithServerAll.
EverythingOn(settings) ==
    [settings EXCEPT !.router = "stdlib", !.middleware = TRUE,
                     !.binder = TRUE, !.responses = TRUE, !.stubs = TRUE]

HasExtension(settings) ==
    settings.router # None \/ \E x \in Extensions \ {"router"} : settings[x]

\* What applyOptions adds once every option is applied.
Completed(settings) ==
    LET server == settings.server \/ HasExtension(settings)
    IN [settings EXCEPT !.server = server,
                        !.types = @ \/ server \/ settings.client]

\* An option function that fails, or a router applyOptions does not know.
OptionsRefused(settings) ==
    \/ \E l \in Limits : settings[l] < 0
    \/ settings.router \notin {None, "stdlib", "chi"}

\* The server options the command derives from its flags.
ServerFlags(flags, settings) ==
    IF flags.all THEN EverythingOn(settings)
    ELSE [x \in DOMAIN settings |->
            IF x \in Extensions THEN flags[x] ELSE settings[x]]

\* The other flags, the same for a file and for standard input.
CommonFlags(flags) ==
    [x \in DOMAIN Defaults |->
        IF x = "types" THEN flags.types \/ flags.client \/ flags.server
        ELSE IF x \in Extensions THEN Defaults[x] ELSE flags[x]]

\* Standard input sets the fields of a Generator directly.
SettingsFromInput(flags) == ServerFlags(flags, CommonFlags(flags))

\* A file goes through the option functions.
SettingsFromFile(flags) == Completed(ServerFlags(flags, CommonFlags(flags)))

-----------------------------------------------------------------------------
\* Operations and their names.

MethodsOf2 == <<"get", "put", "post", "delete", "options", "head", "patch">>
MethodsOf3 == MethodsOf2 \o <<"trace", "query">>

MethodsOf(doc) == IF doc.version = "2.0" THEN MethodsOf2 ELSE MethodsOf3

\* The operations of a path item a version knows; 3.2 adds QUERY and the
\* custom methods of additionalOperations.
GetOperations(doc) ==
    {op \in doc.ops :
        \/ op.method \in ToSet(MethodsOf2)
        \/ op.method = "trace" /\ doc.version # "2.0"
        \/ doc.version = "3.2"}

MethodName(op) ==
    IF op.id # None THEN GoName[op.id] ELSE PathName[op.path][op.method]

\* The operations the generators walk: by path, then by method.
Walked(doc) ==
    LET methods == MethodsOf(doc)
        place(op) == CHOOSE i \in DOMAIN methods : methods[i] = op.method
        before(a, b) == \/ Rank[a.path] < Rank[b.path]
                        \/ a.path = b.path /\ place(a) < place(b)
    IN SetToSortSeq({op \in GetOperations(doc) : op.method \in ToSet(methods)},
                    before)

\* One operation for each method name: the first that is walked.
FirstOfEach(ops) ==
    LET keep(kept, op) ==
            IF \E i \in DOMAIN kept : MethodName(kept[i]) = MethodName(op)
            THEN kept ELSE Append(kept, op)
    IN FoldLeft(keep, <<>>, ops)

\* buildOperationMap: for each method name any of its operations, the map
\* being filled in the order of another map.
OperationMaps(doc) ==
    LET ops == GetOperations(doc)
    IN {m \in [{MethodName(op) : op \in ops} -> ops] :
            \A name \in DOMAIN m : MethodName(m[name]) = name}

-----------------------------------------------------------------------------
\* The split plan.

\* extractOAS3Operations and extractOAS2Operations name the methods one by
\* one and know neither QUERY nor custom methods.
Planned3(doc) == {op \in doc.ops : op.method \in ToSet(MethodsOf2) \union {"trace"}}
Planned2(doc) == {op \in doc.ops : op.method \in ToSet(MethodsOf2)}
Planned(doc) == IF doc.version = "2.0" THEN Planned2(doc) ELSE Planned3(doc)

OperationId(op) == IF op.id # None THEN op.id ELSE MethodName(op)

\* Mutant: in the order of the map of paths.
AnyOrders(doc) == SetToSeqs(Planned(doc))

\* Sorted by operation id; operations of one id stand in any order.
PlanOrders(doc) ==
    {s \in SetToSeqs(Planned(doc)) :
        \A i, j \in DOMAIN s :
            i < j => Rank[OperationId(s[i])] <= Rank[OperationId(s[j])]}

NeedsSplit(settings, doc) ==
    LET operations == Cardinality(Planned(doc))
        types == Cardinality(doc.schemas)
        exceeds(n, limit) == limit > 0 /\ n > limit
    IN \/ exceeds(operations, settings.maxOperations)
       \/ exceeds(types, settings.maxTypes)
       \/ exceeds(30 * operations + 15 * types, settings.maxLines)

GroupBy(Key(_), ops) ==
    [g \in {Key(ops[i]) : i \in DOMAIN ops} |->
        SelectSeq(ops, LAMBDA op : Key(op) = g)]

GroupByTag(ops) ==
    GroupBy(LAMBDA op : IF op.tag = None THEN "default" ELSE op.tag, ops)

GroupByPathPrefix(ops) == GroupBy(LAMBDA op : PathPrefix[op.path], ops)

\* A chunk is named after its only operation, or after the first letters of
\* its first and its last.
ChunkName(ops) ==
    LET first == Letter[OperationId(ops[1])]
        last == Letter[OperationId(Last(ops))]
    IN IF Len(ops) = 1 THEN OperationId(ops[1])
       ELSE IF first = last THEN first ELSE first \o "_" \o last

\* Chunks of at most max operations; a chunk stored under the name of an
\* earlier one replaces it.
GroupAlphabetically(ops, max) ==
    LET size == IF max <= 0 THEN 100 ELSE max
        chunks == (Len(ops) + size - 1) \div size
        chunk(i) == SubSeq(ops, (i - 1) * size + 1, Min({i * size, Len(ops)}))
    IN [g \in {ChunkName(chunk(i)) : i \in 1..chunks} |->
            chunk(Max({i \in 1..chunks : ChunkName(chunk(i)) = g}))]

GroupOperations(settings, ops) ==
    LET single(groups) == Cardinality(DOMAIN groups) <= 1
        byTag == IF settings.byTag THEN GroupByTag(ops) ELSE <<>>
        byPrefix == IF single(byTag) /\ settings.byPrefix
                    THEN GroupByPathPrefix(ops) ELSE byTag
    IN IF single(byPrefix) THEN GroupAlphabetically(ops, settings.maxOperations)
       ELSE byPrefix

\* For each schema the groups whose operations refer to it.
TypeUsage(doc, groups) ==
    [t \in doc.schemas |->
        {g \in DOMAIN groups : \E i \in DOMAIN groups[g] : t \in groups[g][i].uses}]

\* The method names of the groups in the order of their names: a name goes
\* to the first group that has it.
AssignMethods(names, groups) ==
    LET names1(ops) == FoldLeft(LAMBDA acc, op :
                          IF MethodName(op) \in ToSet(acc) THEN acc
                          ELSE Append(acc, MethodName(op)), <<>>, ops)
        taken(i) == UNION {ToSet(names1(groups[names[j]])) : j \in 1..(i - 1)}
    IN [i \in DOMAIN names |->
          SelectSeq(names1(groups[names[i]]), LAMBDA n : n \notin taken(i))]

\* Mutant: the shared types are those several groups use.
BuildWithoutUnused(doc, groups) ==
    LET names == SetToSortSeq(DOMAIN groups, LAMBDA a, b : Rank[a] < Rank[b])
        usage == TypeUsage(doc, groups)
        methods == AssignMethods(names, groups)
    IN [groups |-> [i \in DOMAIN names |->
                      [name |-> Clean[names[i]], operations |-> methods[i],
                       types |-> {t \in doc.schemas : usage[t] = {names[i]}}]],
        shared |-> {t \in doc.schemas : Cardinality(usage[t]) > 1}]

BuildFileGroups(doc, groups) ==
    LET names == SetToSortSeq(DOMAIN groups, LAMBDA a, b : Rank[a] < Rank[b])
        usage == TypeUsage(doc, groups)
        methods == AssignMethods(names, groups)
    IN [groups |-> [i \in DOMAIN names |->
                      [name |-> Clean[names[i]], operations |-> methods[i],
                       types |-> {t \in doc.schemas : usage[t] = {names[i]}}]],
        shared |-> {t \in doc.schemas : Cardinality(usage[t]) # 1}]

\* AnalyzeOAS3 and AnalyzeOAS2: the plans a document may get.
Plans(settings, doc) ==
    IF NeedsSplit(settings, doc)
    THEN {[split |-> TRUE] @@ BuildFileGroups(doc, GroupOperations(settings, s)) :
             s \in PlanOrders(doc)}
    ELSE {[split |-> FALSE, groups |-> <<>>, shared |-> {}]}
=============================================================================
