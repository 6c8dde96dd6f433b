----------------------------- MODULE WalkQueries -----------------------------
(***************************************************************************)
(* The walk commands of the CLI and the walk tools of the MCP server: a    *)
(* query is answered by one walk whose only handler collects what it is    *)
(* told, filters, and then all the rows (a command) or one page of them or *)
(* of their groups (a tool).  A client of a tool asks for page after page  *)
(* until one is empty; each call walks the document again.                 *)
(*                                                                         *)
(* A text is a sequence of parts: the segments of a path, the characters   *)
(* of a status code, the one word of a name or a method; <<>> is none.     *)
(* Rendering, and resolving and parsing the document, are left out.        *)
(***************************************************************************)
EXTENDS Walker

CONSTANTS
    Questions,       \* queries [front, what, asks, groupBy, detail, resolve, limit]
    LowerCase,       \* of the words that are not in lower case
    Globs,           \* the texts each glob pattern stands for (filepath.Match)
    BrokenGlobs,     \* patterns it rejects
    Alphabet,        \* the texts groups are named by, in order
    WalkLimit, WalkDetailLimit, MaxLimit,
    Misread          \* traits of the queries and nodes known to be read otherwise

ASSUME LimitAssumption == {WalkLimit, WalkDetailLimit, MaxLimit} \subseteq Nat \ {0}

VARIABLES
    query,           \* one of Questions, or Nothing when someone else walks
    told,            \* the rows or groups the client has been given
    answer           \* "pending", "refused" or "complete"

queryVars == <<query, told, answer>>
Nothing   == [front |-> "none"]

-------------------------------------------------------------------------------
(* What can be asked.                                                        *)

walkOperationsInput == {"method", "path", "tag", "deprecated", "operationId", "extension"}
walkSchemasInput    == {"name", "type", "component", "inline", "extension"}
walkParametersInput == {"in", "name", "path", "method", "extension"}
walkResponsesInput  == {"status", "path", "method", "extension"}
walkHeadersInput    == {"name", "path", "method", "status", "extension", "component"}
walkPathsInput      == {"path", "extension"}
walkRefsInput       == {"target", "nodeType"}
walkSecurityInput   == {"name", "type", "extension"}

WalkTools == {"operations", "schemas", "parameters", "responses", "headers", "paths", "refs",
              "security"}
Input(what) ==
    CASE what = "operations" -> walkOperationsInput
      [] what = "schemas"    -> walkSchemasInput
      [] what = "parameters" -> walkParametersInput
      [] what = "responses"  -> walkResponsesInput
      [] what = "headers"    -> walkHeadersInput
      [] what = "paths"      -> walkPathsInput
      [] what = "refs"       -> walkRefsInput
      [] what = "security"   -> walkSecurityInput

WalkOperationsFlags == {"method", "path", "tag", "deprecated", "operationId", "extension"}
WalkSchemasFlags    == {"name", "component", "inline", "type", "extension"}
WalkParametersFlags == {"in", "name", "path", "method", "extension"}
WalkResponsesFlags  == {"status", "path", "method", "extension"}
WalkPathsFlags      == {"path", "extension"}
WalkSecurityFlags   == {"name", "type", "extension"}

\* The subcommands of walk, with their flags.
Flags(what) ==
    CASE what = "operations" -> WalkOperationsFlags
      [] what = "schemas"    -> WalkSchemasFlags
      [] what = "parameters" -> WalkParametersFlags
      [] what = "responses"  -> WalkResponsesFlags
      [] what = "paths"      -> WalkPathsFlags
      [] what = "security"   -> WalkSecurityFlags
      [] OTHER               -> {}
Subcommands == {what \in WalkTools : Flags(what) # {}}

\* The allowed values of group_by.
Groupings(what) ==
    CASE what = "operations" -> {<<"tag">>, <<"method">>}
      [] what = "schemas"    -> {<<"type">>, <<"location">>}
      [] what = "parameters" -> {<<"location">>, <<"name">>}
      [] what = "responses"  -> {<<"status_code">>, <<"method">>}
      [] what = "headers"    -> {<<"name">>, <<"status_code">>}
      [] what = "paths"      -> {<<"segment">>}
      [] what = "refs"       -> {<<"node_type">>}
      [] OTHER               -> {}

\* The handlers a query registers.  The tool listens to path items, the command to
\* the entries of paths.
Listens(q) ==
    CASE q.what = "operations" -> {"operation"}
      [] q.what = "schemas"    -> {"schema"}
      [] q.what = "parameters" -> {"parameter"}
      [] q.what = "responses"  -> {"response"}
      [] q.what = "headers"    -> {"header"}
      [] q.what = "paths"      -> IF q.front = "tool" THEN {"pathItem"} ELSE {"path"}
      [] q.what = "refs"       -> {"ref", "mapRefs"}
      [] q.what = "security"   -> {"securityScheme"}

-------------------------------------------------------------------------------
(* Texts.                                                                    *)

Lower(word)     == IF word \in DOMAIN LowerCase THEN LowerCase[word] ELSE word
Folded(text)    == [i \in DOMAIN text |-> Lower(text[i])]
EqualFold(a, b) == Folded(a) = Folded(b)

\* A path that is not there is split like the empty string.
Segments(path) == IF path = <<>> THEN <<"">> ELSE path

\* The command: * stands for one segment, and ** for itself.
matchPath(path, pattern) ==
    LET segments == Segments(path)
    IN  /\ Len(pattern) = Len(segments)
        /\ \A i \in DOMAIN pattern : pattern[i] \in {"*", segments[i]}

\* The tool: ** stands for any number of segments.
RECURSIVE matchPathParts(_, _)
matchPathParts(path, pattern) ==
    IF pattern = <<>> THEN path = <<>>
    ELSE IF Head(pattern) = "**"
    THEN \E i \in 0..Len(path) : matchPathParts(SubSeq(path, i + 1, Len(path)), Tail(pattern))
    ELSE /\ path # <<>>
         /\ Head(pattern) \in {"*", Head(path)}
         /\ matchPathParts(Tail(path), Tail(pattern))
matchWalkPath(path, pattern) == matchPathParts(Segments(path), pattern)

\* 4xx stands for the codes that begin with a 4.
IsWildcard(pattern) == Len(pattern) = 3 /\ Folded(Tail(pattern)) = <<"x", "x">>
matchStatusCode(code, pattern) ==
    IF IsWildcard(pattern) THEN Len(code) = 3 /\ Lower(code[1]) = Lower(pattern[1])
    ELSE EqualFold(code, pattern)
statusCodeMatches(code, pattern) ==
    \/ EqualFold(code, pattern)
    \/ IsWildcard(pattern) /\ Len(code) = 3 /\ code[1] = pattern[1]

Matches(text, pattern) ==
    IF pattern \in DOMAIN Globs THEN \E each \in Globs[pattern] : EqualFold(text, each)
    ELSE EqualFold(text, pattern)
matchGlobName(name, pattern)  == Matches(name, pattern)
matchRefGlob(ref, pattern)    == Matches(ref, pattern)
validateGlobPattern(pattern)  == pattern \notin BrokenGlobs

\* A schema has a list of types, a single one being a list of one.
schemaTypeMatches(types, type) == \E i \in DOMAIN types : EqualFold(<<types[i]>>, type)

-------------------------------------------------------------------------------
(* Extensions.  A filter is written as alternatives of conjoined expressions *)
(* [bang, key, op, value], op being "", "=" or "!=".                         *)

ValidKey(key) == key # <<>> /\ Head(key) = "x-"
parseExtensionExpr(e) == ValidKey(e.key) /\ ~(e.bang /\ e.op = "!=")
ParseExtensionFilter(filter) ==
    \A i \in DOMAIN filter : \A j \in DOMAIN filter[i] : parseExtensionExpr(filter[i][j])

matchExpr(e, extra) ==
    LET found   == {x \in extra : x.key = e.key}
        negated == e.bang \/ e.op = "!="
    IN  negated # IF e.op = "" THEN found # {} ELSE \E x \in found : x.value = e.value
matchGroup(group, extra) == \A i \in DOMAIN group : matchExpr(group[i], extra)
MatchFilter(filter, extra) == \E i \in DOMAIN filter : matchGroup(filter[i], extra)

\* The tools know key and key=value.  Whatever else follows is taken for a part of
\* the key or of the value, which no document has.
IsSimple(filter) == Len(filter) = 1 /\ Len(filter[1]) = 1 /\ filter[1][1].op # "!="
parseExtensionKeyValue(filter) == ~filter[1][1].bang /\ ValidKey(filter[1][1].key)
matchExtension(extra, filter) ==
    LET e == filter[1][1]
    IN  IsSimple(filter)
        /\ \E x \in extra : x.key = e.key /\ (e.op = "" \/ e.value = "" \/ x.value = e.value)

-------------------------------------------------------------------------------
(* Which queries are refused.                                                *)

Asks(q, field) == field \in DOMAIN q.asks

validateGroupBy(q) ==
    q.groupBy # <<>> => ~q.detail /\ \E by \in Groupings(q.what) : EqualFold(q.groupBy, by)

\* Before the document is walked.
Accepted(q) ==
    /\ ~(Asks(q, "component") /\ Asks(q, "inline"))
    /\ IF q.front = "tool"
       THEN /\ DOMAIN q.asks \subseteq Input(q.what)
            /\ q.what = "refs" => ~q.resolve
            /\ validateGroupBy(q)
            /\ Asks(q, "target") => validateGlobPattern(q.asks.target)
       ELSE /\ q.what \in Subcommands
            /\ DOMAIN q.asks \subseteq Flags(q.what)
            /\ q.groupBy = <<>> /\ q.limit = 0

\* And when what was collected is to be filtered.
Parsed(q) ==
    IF q.front = "tool"
    THEN /\ q.what \in {"schemas", "headers"} /\ Asks(q, "name") => validateGlobPattern(q.asks.name)
         /\ Asks(q, "extension") => parseExtensionKeyValue(q.asks.extension)
    ELSE Asks(q, "extension") => ParseExtensionFilter(q.asks.extension)

-------------------------------------------------------------------------------
(* What is collected, and the filters.  An info is [node, wc, has], has what *)
(* is written in the node.                                                   *)

\* The parameter tool resolves references when it has to look into them.
Resolves(q) ==
    q.resolve \/ (q.front = "tool" /\ q.what = "parameters" /\ (Asks(q, "in") \/ Asks(q, "name")))

Written(n) == doc.about[n]
Blank      == [tags |-> <<>>, deprecated |-> FALSE, id |-> <<>>, type |-> <<>>, in |-> <<>>,
               name |-> <<>>, extra |-> {}, target |-> <<>>]
Has(q, n)  == IF n \notin doc.refs \/ Resolves(q) THEN Written(n)
              ELSE [Blank EXCEPT !.target = Written(n).target]

Info(q, n, wc)       == [node |-> n, wc |-> wc, has |-> Has(q, n)]
Infos(q)             == [i \in DOMAIN log |-> Info(q, log[i].node, log[i].wc)]

CollectOperations(q)      == Infos(q)
CollectParameters(q)      == Infos(q)
CollectResponses(q)       == Infos(q)
CollectSecuritySchemes(q) == Infos(q)
CollectHeaders(q)         == Infos(q)
CollectRefs(q)            == Infos(q)
CollectSchemas(q) ==
    SelectSeq(Infos(q), LAMBDA i : /\ Asks(q, "component") => i.wc.component
                                   /\ Asks(q, "inline")    => ~i.wc.component)
\* The command hears of the entries of paths, which hold the path items; the tool
\* of the path items, and it leaves out those that have no path.
PathItem(n) == IF Kind(n) = "path" THEN doc.kids[n][1].node ELSE n
CollectPaths(q) ==
    LET all == [i \in DOMAIN log |-> Info(q, PathItem(log[i].node), log[i].wc)]
    IN  SelectSeq(all, LAMBDA i : q.front = "tool" => i.wc.path # <<>>)

SameMethod(q, i)  == Asks(q, "method") => EqualFold(i.wc.method, q.asks.method)
WalkPath(q, i)    == Asks(q, "path") => matchWalkPath(i.wc.path, q.asks.path)
FlagPath(q, i)    == Asks(q, "path") => matchPath(i.wc.path, q.asks.path)
matchOperationTag(q, i) == Asks(q, "tag") => q.asks.tag \in ToSet(i.has.tags)
WalkExtension(q, i) == Asks(q, "extension") => matchExtension(i.has.extra, q.asks.extension)
FlagExtension(q, i) == Asks(q, "extension") => MatchFilter(q.asks.extension, i.has.extra)
SchemaType(q, i)  == Asks(q, "type") => schemaTypeMatches(i.has.type, q.asks.type)

filterWalkOperations(q, i) ==
    /\ SameMethod(q, i) /\ WalkPath(q, i) /\ matchOperationTag(q, i) /\ WalkExtension(q, i)
    /\ Asks(q, "deprecated")  => i.has.deprecated
    /\ Asks(q, "operationId") => i.has.id = q.asks.operationId
filterOperations(q, i) ==
    /\ SameMethod(q, i) /\ FlagPath(q, i) /\ matchOperationTag(q, i) /\ FlagExtension(q, i)
    /\ Asks(q, "deprecated")  => i.has.deprecated
    /\ Asks(q, "operationId") => i.has.id = q.asks.operationId

filterWalkSchemas(q, i) ==
    /\ SchemaType(q, i) /\ WalkExtension(q, i)
    /\ Asks(q, "name") => matchGlobName(i.wc.name, q.asks.name)
filterSchemas(q, i) ==
    /\ SchemaType(q, i) /\ FlagExtension(q, i)
    /\ Asks(q, "name") => EqualFold(i.wc.name, q.asks.name)

SameParameter(q, i) ==
    /\ Asks(q, "in")   => EqualFold(i.has.in, q.asks.in)
    /\ Asks(q, "name") => EqualFold(i.has.name, q.asks.name)
filterWalkParameters(q, i) ==
    SameParameter(q, i) /\ WalkPath(q, i) /\ SameMethod(q, i) /\ WalkExtension(q, i)
filterParameters(q, i) ==
    SameParameter(q, i) /\ FlagPath(q, i) /\ SameMethod(q, i) /\ FlagExtension(q, i)

filterWalkResponses(q, i) ==
    /\ WalkPath(q, i) /\ SameMethod(q, i) /\ WalkExtension(q, i)
    /\ Asks(q, "status") => statusCodeMatches(i.wc.status, q.asks.status)
filterResponses(q, i) ==
    /\ FlagPath(q, i) /\ SameMethod(q, i) /\ FlagExtension(q, i)
    /\ Asks(q, "status") => matchStatusCode(i.wc.status, q.asks.status)

filterWalkHeaders(q, i) ==
    /\ WalkPath(q, i) /\ SameMethod(q, i) /\ WalkExtension(q, i)
    /\ Asks(q, "name")      => matchGlobName(i.wc.name, q.asks.name)
    /\ Asks(q, "status")    => statusCodeMatches(i.wc.status, q.asks.status)
    /\ Asks(q, "component") => i.wc.component

filterWalkPaths(q, i) == WalkPath(q, i) /\ WalkExtension(q, i)
filterPaths(q, i)     == FlagPath(q, i) /\ FlagExtension(q, i)

\* A reference in a schema written as a map counts as a schema's.
NodeType(n) ==
    CASE Kind(n) = "mapRef" -> <<"schema">> [] Kind(n) = "callbackRef" -> <<"callback">>
      [] OTHER -> <<Kind(n)>>
filterRefs(q, i) ==
    /\ Asks(q, "target")   => matchRefGlob(i.has.target, q.asks.target)
    /\ Asks(q, "nodeType") => EqualFold(NodeType(i.node), q.asks.nodeType)

filterWalkSecurity(q, i) ==
    /\ Asks(q, "name") => EqualFold(i.wc.name, q.asks.name)
    /\ Asks(q, "type") => EqualFold(i.has.type, q.asks.type)
    /\ WalkExtension(q, i)
filterSecuritySchemes(q, i) ==
    /\ Asks(q, "name") => i.wc.name = q.asks.name
    /\ Asks(q, "type") => EqualFold(i.has.type, q.asks.type)
    /\ FlagExtension(q, i)

-------------------------------------------------------------------------------
(* Rows and groups.  A row has the node it is of, which the client does not  *)
(* see; methods are shown in upper case.                                     *)

operationRow(q, i) == [node |-> i.node, path |-> i.wc.path, method |-> Folded(i.wc.method)]

schemaLocation(component) == IF component THEN <<"component">> ELSE <<"inline">>
\* A schema without a name is shown by its place, but for the command's details.
schemaDisplayName(i) == IF i.wc.name # <<>> THEN i.wc.name ELSE <<"$", i.node>>
schemaRow(q, i) ==
    [node |-> i.node, location |-> schemaLocation(i.wc.component),
     name |-> IF q.front = "command" /\ q.detail THEN i.wc.name ELSE schemaDisplayName(i)]

parameterRow(q, i) ==
    [node |-> i.node, path |-> i.wc.path, method |-> Folded(i.wc.method), name |-> i.has.name]
responseRow(q, i) ==
    [node |-> i.node, path |-> i.wc.path, method |-> Folded(i.wc.method), status |-> i.wc.status]
headerRow(q, i) ==
    [node |-> i.node, path |-> i.wc.path, method |-> Folded(i.wc.method),
     status |-> i.wc.status, name |-> i.wc.name]
countMethods(n) ==
    Cardinality({i \in DOMAIN doc.kids[n] : SetsMethod(doc.kids[n][i].at)})
pathRow(q, i) ==
    [node |-> i.node, path |-> i.wc.path, methods |-> countMethods(i.node)]
refDetail(q, i)   == [node |-> i.node, ref |-> i.has.target, type |-> NodeType(i.node)]
securityRow(q, i) == [node |-> i.node, name |-> i.wc.name, type |-> i.has.type]

OrElse(text, other) == IF text = <<>> THEN other ELSE text
By(q, grouping)     == EqualFold(q.groupBy, grouping)

operationKeys(q, i) ==
    IF By(q, <<"tag">>) THEN i.has.tags ELSE <<Folded(i.wc.method)>>
schemaKeys(q, i) ==
    <<IF By(q, <<"type">>) THEN OrElse(i.has.type, <<"(untyped)">>)
      ELSE schemaLocation(i.wc.component)>>
parameterKeys(q, i) ==
    <<IF By(q, <<"location">>) THEN OrElse(i.has.in, <<"(ref)">>) ELSE i.has.name>>
responseKeys(q, i) ==
    <<OrElse(IF By(q, <<"status_code">>) THEN i.wc.status ELSE Folded(i.wc.method),
             <<"(component)">>)>>
headerKeys(q, i) ==
    IF By(q, <<"name">>) THEN <<i.wc.name>>
    ELSE IF i.wc.status = <<>> THEN <<>> ELSE <<i.wc.status>>
firstPathSegment(path) ==
    LET rest == IF Len(path) > 1 /\ path[1] = "" THEN Tail(path) ELSE path
    IN  IF rest[1] = "" THEN <<"/">> ELSE <<rest[1]>>
pathKeys(q, i) == <<firstPathSegment(i.wc.path)>>
refKeys(q, i)  == <<IF q.groupBy # <<>> THEN NodeType(i.node) ELSE i.has.target>>

RowOf(q, i) ==
    CASE q.what = "operations" -> operationRow(q, i)
      [] q.what = "schemas"    -> schemaRow(q, i)
      [] q.what = "parameters" -> parameterRow(q, i)
      [] q.what = "responses"  -> responseRow(q, i)
      [] q.what = "headers"    -> headerRow(q, i)
      [] q.what = "paths"      -> pathRow(q, i)
      [] q.what = "refs"       -> refDetail(q, i)
      [] q.what = "security"   -> securityRow(q, i)
KeysOf(q, i) ==
    CASE q.what = "operations" -> operationKeys(q, i)
      [] q.what = "schemas"    -> schemaKeys(q, i)
      [] q.what = "parameters" -> parameterKeys(q, i)
      [] q.what = "responses"  -> responseKeys(q, i)
      [] q.what = "headers"    -> headerKeys(q, i)
      [] q.what = "paths"      -> pathKeys(q, i)
      [] q.what = "refs"       -> refKeys(q, i)

Rank(text) == CHOOSE i \in DOMAIN Alphabet : Alphabet[i] = text

\* Mutant: groups of the same size come in any order.
MoreOften(a, b) == a.count > b.count

\* The order of the groups.
Before(a, b) == a.count > b.count \/ (a.count = b.count /\ Rank(a.key) < Rank(b.key))

\* The groups come out of a map and are sorted: every order that Before allows.
groupAndSort(keyed) ==
    LET keys   == FlattenSeq(keyed)
        groups == {[key |-> key, count |-> Cardinality({i \in DOMAIN keys : keys[i] = key})]
                      : key \in ToSet(keys)}
    IN  {order \in SetToSeqs(groups) :
            \A i, j \in DOMAIN order : Before(order[i], order[j]) => i < j}

-------------------------------------------------------------------------------
(* The handlers: the lists a call may come to.                               *)

\* References are counted by target unless they are asked for one by one.
Grouped(q) == q.groupBy # <<>> \/ (q.what = "refs" /\ ~q.detail)

Matched(q, all, Filter(_, _)) == SelectSeq(all, LAMBDA i : Filter(q, i))
Rows(q, matched)  == [i \in DOMAIN matched |-> RowOf(q, matched[i])]
Lists(q, matched) ==
    IF Grouped(q) THEN groupAndSort([i \in DOMAIN matched |-> KeysOf(q, matched[i])])
    ELSE {Rows(q, matched)}

handleWalkOperations(q) == Lists(q, Matched(q, CollectOperations(q), filterWalkOperations))
handleWalkSchemas(q)    == Lists(q, Matched(q, CollectSchemas(q), filterWalkSchemas))
handleWalkParameters(q) == Lists(q, Matched(q, CollectParameters(q), filterWalkParameters))
handleWalkResponses(q)  == Lists(q, Matched(q, CollectResponses(q), filterWalkResponses))
handleWalkHeaders(q)    == Lists(q, Matched(q, CollectHeaders(q), filterWalkHeaders))
handleWalkPaths(q)      == Lists(q, Matched(q, CollectPaths(q), filterWalkPaths))
handleWalkRefs(q)       == Lists(q, Matched(q, CollectRefs(q), filterRefs))
handleWalkSecurity(q)   == Lists(q, Matched(q, CollectSecuritySchemes(q), filterWalkSecurity))

ToolLists(q) ==
    CASE q.what = "operations" -> handleWalkOperations(q)
      [] q.what = "schemas"    -> handleWalkSchemas(q)
      [] q.what = "parameters" -> handleWalkParameters(q)
      [] q.what = "responses"  -> handleWalkResponses(q)
      [] q.what = "headers"    -> handleWalkHeaders(q)
      [] q.what = "paths"      -> handleWalkPaths(q)
      [] q.what = "refs"       -> handleWalkRefs(q)
      [] q.what = "security"   -> handleWalkSecurity(q)

WalkOperations(q) == Rows(q, Matched(q, CollectOperations(q), filterOperations))
WalkSchemas(q)    == Rows(q, Matched(q, CollectSchemas(q), filterSchemas))
WalkParameters(q) == Rows(q, Matched(q, CollectParameters(q), filterParameters))
WalkResponses(q)  == Rows(q, Matched(q, CollectResponses(q), filterResponses))
WalkPaths(q)      == Rows(q, Matched(q, CollectPaths(q), filterPaths))
WalkSecurity(q)   == Rows(q, Matched(q, CollectSecuritySchemes(q), filterSecuritySchemes))

CommandList(q) ==
    CASE q.what = "operations" -> WalkOperations(q)
      [] q.what = "schemas"    -> WalkSchemas(q)
      [] q.what = "parameters" -> WalkParameters(q)
      [] q.what = "responses"  -> WalkResponses(q)
      [] q.what = "paths"      -> WalkPaths(q)
      [] q.what = "security"   -> WalkSecurity(q)

\* Security schemes have no limit of their own for details.
detailLimit(q) ==
    IF q.detail /\ q.what # "security" /\ q.limit = 0 THEN WalkDetailLimit ELSE q.limit
Least(a, b) == IF a < b THEN a ELSE b
paginate(items, offset, limit) ==
    LET most == Least(IF limit = 0 THEN WalkLimit ELSE limit, MaxLimit)
    IN  SubSeq(items, offset + 1, Least(offset + most, Len(items)))

-------------------------------------------------------------------------------
(* The calls.                                                                *)

QueryInit ==
    /\ Init
    /\ query \in Questions \cup {Nothing}
    /\ query # Nothing <=> "about" \in DOMAIN doc
    /\ query # Nothing => registered = Listens(query)
    /\ told = <<>>
    /\ answer = "pending"

Asking == query # Nothing /\ answer = "pending"

\* A step of a walk; the handlers of a query answer Continue.
Walking ==
    /\ Next
    /\ query # Nothing =>
          /\ answer = "pending" /\ Accepted(query)
          /\ \A i \in DOMAIN log' : log'[i].answer \in {"Continue", "cycle", "depth"}
    /\ UNCHANGED queryVars

Refuse ==
    /\ Asking
    /\ \/ phase = "start" /\ ~Accepted(query)
       \/ phase = "done" /\ ~Parsed(query)
    /\ answer' = "refused"
    /\ UNCHANGED <<vars, query, told>>

WalkCommand ==
    /\ Asking /\ query.front = "command"
    /\ phase = "done" /\ Parsed(query)
    /\ told' = CommandList(query)
    /\ answer' = "complete"
    /\ UNCHANGED <<vars, query>>

\* The next page; the client asks for another, from where this one ends, or is
\* done when there is nothing on it.
WalkTool ==
    /\ Asking /\ query.front = "tool"
    /\ phase = "done" /\ Parsed(query)
    /\ \E list \in ToolLists(query) :
          LET page == paginate(list, Len(told), detailLimit(query))
          IN  /\ told' = told \o page
              /\ answer' = IF page = <<>> THEN "complete" ELSE answer
              /\ IF page = <<>> THEN UNCHANGED <<phase, log>>
                 ELSE phase' = "start" /\ log' = <<>>
    /\ UNCHANGED <<doc, registered, stack, parents, visiting, stopped, query>>

Answered == Asking = FALSE /\ query # Nothing /\ UNCHANGED <<vars, queryVars>>

QueryNext == Walking \/ Refuse \/ WalkCommand \/ WalkTool \/ Answered

QuerySpec == QueryInit /\ [][QueryNext]_<<vars, queryVars>>

-------------------------------------------------------------------------------
(* What a document means, told from the way to a node, and what a query asks *)
(* for, whoever answers it.                                                  *)

Edges == UNION {{[from |-> n, at |-> doc.kids[n][i].at, key |-> doc.kids[n][i].key,
                  to |-> doc.kids[n][i].node] : i \in DOMAIN doc.kids[n]} : n \in Nodes}
RECURSIVE Way(_)
Way(n) == IF n = "doc" THEN <<>>
          ELSE LET edge == CHOOSE e \in Edges : e.to = n IN Append(Way(edge.from), edge)

LastWhere(seq, Is(_)) ==
    LET at == {i \in DOMAIN seq : Is(seq[i])}
    IN  IF at = {} THEN 0 ELSE CHOOSE i \in at : \A j \in at : j <= i
KeyWhere(seq, Is(_)) == LET i == LastWhere(seq, Is) IN IF i = 0 THEN <<>> ELSE seq[i].key

\* A node belongs to the nearest path item around it: an entry of paths, a webhook,
\* an expression of a callback, or a component, which has no path.  Its method and its
\* status are those between the path item and the node; a schema is named when it is
\* a component or a property, anything else by its own key.
HasPath(e)        == Kind(e.to) \in {"path", "webhook"} \/ Kind(e.from) = "callback"
EntersPathItem(e) == HasPath(e) \/ (e.from = "doc" /\ Kind(e.to) = "pathItem")
Meaning(n) ==
    LET way    == Way(n)
        entry  == LastWhere(way, EntersPathItem)
        within == IF entry = 0 THEN way ELSE SubSeq(way, entry, Len(way))
        own    == Last(way)
    IN  [path      |-> IF entry # 0 /\ HasPath(way[entry]) THEN way[entry].key ELSE <<>>,
         method    |-> KeyWhere(within, LAMBDA e : Kind(e.to) = "operation"),
         status    |-> KeyWhere(within, LAMBDA e : Kind(e.from) = "operation" /\ Kind(e.to) = "response"),
         name      |-> IF Kind(n) = "schema" /\ own.from # "doc" /\ own.at \notin {"properties", "$defs"}
                       THEN <<>> ELSE own.key,
         component |-> way[1].at \notin {"paths", "webhooks"}]

Meant(q) ==
    {n \in Nodes \ {"doc"} :
        CASE q.what = "refs"  -> n \in doc.refs
          [] q.what = "paths" -> Kind(n) \in {"pathItem", "webhook"}
          [] OTHER            -> Kind(n) \in Listens(q)}

\* A pattern covers a path when its segments are in their places, ** filling gaps.
Covers(pattern, path) ==
    \E upTo \in [0..Len(pattern) -> 0..Len(path)] :
        /\ upTo[0] = 0 /\ upTo[Len(pattern)] = Len(path)
        /\ \A i \in DOMAIN pattern :
              IF pattern[i] = "**" THEN upTo[i - 1] <= upTo[i]
              ELSE upTo[i] = upTo[i - 1] + 1 /\ pattern[i] \in {"*", path[upTo[i]]}

Means(q, field, i) ==
    LET v == q.asks[field]
    IN  CASE field = "method"      -> EqualFold(i.wc.method, v)
          [] field = "path"        -> i.wc.path # <<>> /\ Covers(v, i.wc.path)
          [] field = "status"      -> i.wc.status # <<>>
                                      /\ EqualFold(IF IsWildcard(v) THEN <<i.wc.status[1]>> ELSE i.wc.status,
                                                   IF IsWildcard(v) THEN <<v[1]>> ELSE v)
          [] field = "component"   -> i.wc.component
          [] field = "inline"      -> ~i.wc.component
          [] field = "name"        -> Matches(IF q.what = "parameters" THEN i.has.name ELSE i.wc.name, v)
          [] field = "extension"   -> MatchFilter(v, i.has.extra)
          [] field = "tag"         -> v \in ToSet(i.has.tags)
          [] field = "deprecated"  -> i.has.deprecated
          [] field = "operationId" -> i.has.id = v
          [] field = "type"        -> Lower(v[1]) \in ToSet(Folded(i.has.type))
          [] field = "in"          -> EqualFold(i.has.in, v)
          [] field = "target"      -> Matches(i.has.target, v)
          [] field = "nodeType"    -> EqualFold(NodeType(i.node), v)

\* Where the front ends read a query otherwise: a command takes ** for a segment, a
\* pattern for a name, and the case of a scheme's name as it is; a tool takes only
\* one simple extension, and no value for any.
QueryTraits(q) ==
    {trait \in {"**", "glob", "case", "extension"} :
        CASE trait = "**"        -> q.front = "command" /\ Asks(q, "path") /\ "**" \in ToSet(q.asks.path)
          [] trait = "glob"      -> /\ Asks(q, "name") /\ q.asks.name \in DOMAIN Globs
                                    /\ q.front = "command" \/ q.what \in {"parameters", "security"}
          [] trait = "case"      -> q.front = "command" /\ q.what = "security" /\ Asks(q, "name")
          [] trait = "extension" -> /\ q.front = "tool" /\ Asks(q, "extension")
                                    /\ \/ ~IsSimple(q.asks.extension)
                                       \/ q.asks.extension[1][1].op = "=" /\ q.asks.extension[1][1].value = ""}

\* And where they read a document otherwise: a pattern may cover the path that a
\* component does not have; a parameter of a callback's path item is told the method
\* of the operation around the callback; the tool for paths lists webhooks and
\* callbacks; and the walker does not get everywhere.
NodeTraits(q, n) ==
    LET way == Way(n)
    IN {trait \in {"no path", "outer method", "no entry", "unwalked"} :
        CASE trait = "no path"      -> Asks(q, "path") /\ Meaning(n).path = <<>>
          [] trait = "outer method" -> /\ q.what = "parameters" /\ Meaning(n).method = <<>>
                                       /\ \E i \in DOMAIN way : Kind(way[i].to) = "operation"
                                       /\ ~Grouped(q) \/ Asks(q, "method")
          [] trait = "no entry"     -> q.what = "paths" /\ Kind(Last(way).from) # "path"
          [] trait = "unwalked"     -> \E i \in DOMAIN way : <<Kind(way[i].from), way[i].at>> \in Unwalked}

\* Whoever asks, in one go or page by page, gets each node the query asks for
\* once, with the path, the method, the status and the name it has in the
\* document, or each group once with the number of its members: no row is
\* lost, repeated or put in another's place by the context a walk carries, by
\* the filters, or by the pages; but for what Misread names.
EveryRowOnce ==
    query # Nothing /\ answer = "complete" /\ QueryTraits(query) \cap Misread = {} =>
        LET Known(n) == NodeTraits(query, n) \cap Misread # {}
            wanted   == {i \in {Info(query, n, Meaning(n)) : n \in Meant(query)} :
                            ~Known(i.node) /\ \A field \in DOMAIN query.asks : Means(query, field, i)}
            Members(key) == UNION {{<<i.node, k>> : k \in {k \in DOMAIN KeysOf(query, i) :
                                                            KeysOf(query, i)[k] = key}} : i \in wanted}
            rows     == SelectSeq(told, LAMBDA row : ~Known(row.node))
        IN  IF ~Grouped(query)
            THEN IsInjective(rows) /\ ToSet(rows) = {RowOf(query, i) : i \in wanted}
            ELSE (\A n \in Meant(query) : ~Known(n)) =>
                    /\ IsInjective(told)
                    /\ ToSet(told) = {[key |-> key, count |-> Cardinality(Members(key))] :
                                         key \in UNION {ToSet(KeysOf(query, i)) : i \in wanted}}
===============================================================================
