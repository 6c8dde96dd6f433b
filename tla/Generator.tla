----------------------------- MODULE Generator -----------------------------
(***************************************************************************)
(* The code generator: one call turns a document into the files of a Go    *)
(* package, phase by phase, and the command writes them to a directory.    *)
(*                                                                         *)
(* A file is kept as the names it declares and those it may mention, the   *)
(* README also as the time it was written. A declaration is [id, of,       *)
(* type]: id is the Go name ("Owner.Member" for a method or field), of     *)
(* what it is written for (an operation, a schema or <<>>), type what else *)
(* of it a property compares: its wrapper and result, or whatever the code *)
(* came upon first in a map.                                               *)
(***************************************************************************)
EXTENDS GenerationPlan

CONSTANTS
    Documents,   \* the documents that may be given
    Flags,       \* the flags the command may be run with
    FuncName,    \* security scheme name -> sanitizeSecurityFunctionName
    FileName,    \* security scheme name -> toFileName
    TestFiles    \* file names the go tool keeps out of a package

VARIABLES
    doc,         \* the document
    door,        \* "file", "mapped" (with a source map) or "input"
    flags,       \* the flags of the command
    settings,    \* what the generator runs with
    phase,       \* what it does next
    plan,        \* the split plan
    generated,   \* Go type names of the schemas (generatedTypes)
    files,       \* the files of the result, in order
    issues,      \* what was skipped, with a warning
    table,       \* OperationSecurity of the generated package
    disk,        \* the output directory: file name -> file
    earlier      \* the files and issues of an earlier run of the same call

vars == <<doc, door, flags, settings, phase, plan, generated, files, issues,
          table, disk, earlier>>

Decl(id, of, type) == [id |-> id, of |-> of, type |-> type]
Fixed(ids) == [i \in DOMAIN ids |-> Decl(ids[i], <<>>, <<>>)]
File(name, declares, mentions) ==
    [name |-> name, declares |-> declares, mentions |-> mentions]

\* The declarations Of(x) of every element, one after the other.
ForEach(seq, Of(_)) == FlattenSeq([i \in DOMAIN seq |-> Of(seq[i])])

Place(op) == <<op.path, op.method>>
Schema(s) == <<"schemas", s>>
Scheme(s) == <<"schemes", s.name>>
TypesOf(op) == {GoName[s] : s \in op.uses}
TypesOfAll(ops) == UNION {TypesOf(ops[i]) : i \in DOMAIN ops}
Split == plan.split
Readme == "README.md"

-----------------------------------------------------------------------------
\* What is read off a content map, by media type. The code ranges over the
\* map each time anew, and takes what comes first.

Json == {"json", "hal"}

\* For each operation one of the things From(op) has to offer.
Picks(ops, From(_)) ==
    {f \in [ToSet(ops) -> UNION {From(op) : op \in ToSet(ops)}] :
        \A op \in ToSet(ops) : f[op] \in From(op)}

\* getRequestBodyType and getRequestBodyContentType: the schema of a JSON
\* media type, and the name of one, or of any where there is none.
BodyTypes(op) ==
    LET some == DOMAIN op.body \intersect Json
    IN IF some = {} THEN {"any"} ELSE {GoName[op.body[m]] : m \in some}
ContentTypes(op) ==
    LET some == DOMAIN op.body \intersect Json
    IN IF some # {} THEN some
       ELSE IF op.body # <<>> THEN DOMAIN op.body ELSE {"json"}

\* getResponseType.
Results(op) ==
    LET some == DOMAIN op.reply \intersect Json
    IN IF some = {} THEN {"*http.Response"}
       ELSE {"*" \o GoName[op.reply[m]] : m \in some}

\* buildStatusCodeData: any media type of the reply, with its schema.
Replies(op) ==
    IF op.reply = <<>> THEN {<<>>}
    ELSE {<<m, GoName[op.reply[m]]>> : m \in DOMAIN op.reply}

-----------------------------------------------------------------------------
\* Types.

\* collectSchemas ranges over a map: of the schemas of one Go name any may
\* come first, and the others are skipped.
Collections(d) ==
    {kept \in SUBSET d.schemas :
        /\ {GoName[s] : s \in kept} = {GoName[s] : s \in d.schemas}
        /\ \A s, t \in kept : GoName[s] = GoName[t] => s = t}

TypeDecls(schemas) ==
    LET sorted == SetToSortSeq(schemas, LAMBDA s, t : Rank[s] < Rank[t])
    IN [i \in DOMAIN sorted |-> Decl(GoName[sorted[i]], Schema(sorted[i]), <<>>)]

\* A file of the listed types, by Go name or by schema name; none when empty.
TypesFile(name, kept, listed) ==
    LET taken == {s \in kept : s \in listed \/ GoName[s] \in listed}
    IN IF taken = {} THEN <<>> ELSE <<File(name, TypeDecls(taken), {})>>

\* The types of the last group of a name (buildTypeGroupMaps).
GroupTypes(name) ==
    plan.groups[Max({i \in DOMAIN plan.groups : plan.groups[i].name = name})].types

SplitTypes(kept) ==
    TypesFile("types.go", kept, plan.shared)
        \o ForEach(plan.groups, LAMBDA g :
              TypesFile("types_" \o g.name \o ".go", kept, GroupTypes(g.name)))

GenerateTypes ==
    /\ phase = "types"
    /\ IF settings.types \/ settings.client \/ settings.server
       THEN \E kept \in Collections(doc) :
              /\ generated' = {GoName[s] : s \in kept}
              /\ issues' = issues \union {Schema(s) : s \in doc.schemas \ kept}
              /\ files' = IF Split THEN SplitTypes(kept)
                          ELSE <<File("types.go", TypeDecls(kept), {})>>
       ELSE UNCHANGED <<generated, issues, files>>
    /\ phase' = "client"
    /\ UNCHANGED <<doc, door, flags, settings, plan, table, disk, earlier>>

-----------------------------------------------------------------------------
\* Client.

ClientNames ==
    <<"Client", "Client.BaseURL", "Client.HTTPClient", "Client.UserAgent",
      "Client.RequestEditors", "RequestEditorFn", "ClientOption", "NewClient",
      "WithHTTPClient", "WithRequestEditor", "WithUserAgent", "APIError",
      "APIError.Error">>

\* What the method of an operation reads off its content maps: a body, its
\* content type and a result.
Signatures(op) == BodyTypes(op) \X ContentTypes(op) \X Results(op)

\* generateClientMethod: the method, and its parameters when it has a query.
ClientMethod(op, signature) ==
    <<Decl("Client." \o MethodName(op), Place(op), signature)>>
        \o IF op.query THEN <<Decl(MethodName(op) \o "Params", Place(op), <<>>)>>
           ELSE <<>>

ClientMethods(ops, read) == ForEach(ops, LAMBDA op : ClientMethod(op, read[op]))

SingleClient(ops, read) ==
    <<File("client.go", Fixed(ClientNames) \o ClientMethods(ops, read),
           TypesOfAll(ops))>>

\* The operations of a group that the operation map knows.
Known(group, map) ==
    LET names == SelectSeq(group.operations, LAMBDA n : n \in DOMAIN map)
    IN [i \in DOMAIN names |-> map[names[i]]]

ClientGroup(group, map, read) ==
    LET ops == Known(group, map)
    IN <<File("client_" \o group.name \o ".go", ClientMethods(ops, read),
              {"Client"} \union TypesOfAll(ops))>>

SplitClient(map, read) ==
    <<File("client.go", Fixed(ClientNames), {})>>
        \o ForEach(plan.groups, LAMBDA g : ClientGroup(g, map, read))

EveryOperation == SetToSeq(GetOperations(doc))

GenerateClient ==
    /\ phase = "client"
    /\ IF ~settings.client THEN UNCHANGED files
       ELSE \E read \in Picks(EveryOperation, Signatures) :
              IF Split
              THEN \E map \in OperationMaps(doc) :
                     files' = files \o SplitClient(map, read)
              ELSE files' = files \o SingleClient(Walked(doc), read)
    /\ phase' = "server"
    /\ UNCHANGED <<doc, door, flags, settings, plan, generated, issues, table,
                   disk, earlier>>

-----------------------------------------------------------------------------
\* Server.

\* resolveWrapperName: the first candidate that is no schema type.
WrapperSuffixes == <<"Request", "Input", "Req", "Request2", "Request3">>
Wrapper(name) ==
    name \o WrapperSuffixes[Min({i \in DOMAIN WrapperSuffixes :
                                   name \o WrapperSuffixes[i] \notin generated})]
WrapperOf(op) == Wrapper(MethodName(op))

ServerMethod(owner, op, result) ==
    Decl(owner \o "." \o MethodName(op), Place(op), <<WrapperOf(op), result>>)

\* The interface and its default implementation each ask for the results.
InterfaceOf(ops, result) ==
    Fixed(<<"ServerInterface">>)
        \o ForEach(ops, LAMBDA op :
                      <<ServerMethod("ServerInterface", op, result[op])>>)

UnimplementedOf(ops, result) ==
    Fixed(<<"UnimplementedServer">>)
        \o ForEach(ops, LAMBDA op :
                      <<ServerMethod("UnimplementedServer", op, result[op])>>)
        \o Fixed(<<"ErrNotImplemented", "NotImplementedError",
                   "NotImplementedError.Error">>)

RequestTypes(ops, body) ==
    ForEach(ops, LAMBDA op : <<Decl(WrapperOf(op), Place(op), <<body[op]>>)>>)

\* generateBaseServerShared; requests are those written into the same file.
ServerFile(ops, requests, read) ==
    LET once == FirstOfEach(ops)
    IN File("server.go",
            InterfaceOf(once, read.promised) \o RequestTypes(requests, read.body)
                \o UnimplementedOf(once, read.given),
            TypesOfAll(once) \union TypesOfAll(requests)
                \union {WrapperOf(once[i]) : i \in DOMAIN once})

\* writeRequestTypes: every operation whose name the interface has.
InterfaceRequests(ops) ==
    LET names == {MethodName(op) : op \in ToSet(FirstOfEach(ops))}
    IN SelectSeq(ops, LAMBDA op : MethodName(op) \in names)

\* The request types of a group's operations that the interface has.
ServerGroup(group, map, body) ==
    LET names == {MethodName(op) : op \in ToSet(Walked(doc))}
        ops == SelectSeq(Known(group, map), LAMBDA op : MethodName(op) \in names)
    IN <<File("server_" \o group.name \o ".go", RequestTypes(ops, body),
              TypesOfAll(ops))>>

SplitServer(ops, map, read) ==
    <<ServerFile(ops, <<>>, read)>>
        \o ForEach(plan.groups, LAMBDA g : ServerGroup(g, map, read.body))

\* What the server files read off content maps.
ServerReads ==
    LET ops == EveryOperation
    IN [promised : Picks(ops, Results), given : Picks(ops, Results),
        body : Picks(ops, BodyTypes)]

\* The operations the interface leaves out.
Repeated(ops) == ToSet(ops) \ ToSet(FirstOfEach(ops))

GenerateServer ==
    LET ops == Walked(doc)
    IN /\ phase = "server"
       /\ settings.server
       /\ \E read \in ServerReads :
            IF Split
            THEN \E map \in OperationMaps(doc) :
                   files' = files \o SplitServer(ops, map, read)
            ELSE files' = files \o <<ServerFile(ops, InterfaceRequests(ops), read)>>
       /\ issues' = issues \union {Place(op) : op \in Repeated(ops)}
       /\ phase' = "responses"
       /\ UNCHANGED <<doc, door, flags, settings, plan, generated, table, disk,
                      earlier>>

SkipServer ==
    /\ phase = "server"
    /\ ~settings.server
    /\ phase' = "security"
    /\ UNCHANGED <<doc, door, flags, settings, plan, generated, files, issues,
                   table, disk, earlier>>

-----------------------------------------------------------------------------
\* Server extensions: nothing but the middleware is written without paths.

ResponsesFile(ops, reply) ==
    File("server_responses.go",
         Fixed(<<"WriteJSON", "WriteError", "WriteNoContent">>)
            \o ForEach(ops, LAMBDA op :
                 <<Decl(MethodName(op) \o "Response", Place(op), <<>>),
                   Decl(MethodName(op) \o "Response.Success", Place(op), reply[op])>>),
         TypesOfAll(ops))

\* The template writes no body: what buildBinderOperationData finds in the
\* content map leaves no trace.
BinderFile(ops) ==
    File("server_binder.go",
         Fixed(<<"RequestBinder", "NewRequestBinder",
                 "NewRequestBinderFromValidator", "BindingError",
                 "BindingError.Error", "BindingError.ValidationErrors">>)
            \o ForEach(ops, LAMBDA op :
                 <<Decl("RequestBinder.Bind" \o MethodName(op) \o "Request",
                        Place(op), <<WrapperOf(op)>>)>>),
         TypesOfAll(ops) \union {WrapperOf(ops[i]) : i \in DOMAIN ops})

MiddlewareFile ==
    File("server_middleware.go",
         Fixed(<<"ValidationMiddleware", "ValidationMiddlewareWithConfig",
                 "ValidationConfig", "DefaultValidationConfig",
                 "validationMiddleware", "responseRecorder",
                 "discardResponseWriter", "ValidationErrorResponse",
                 "writeValidationResult", "writeValidationErrorResponse">>), {})

\* Each route, with the wrapper its handler fills and the method it calls.
Routes(ops, Handler(_)) ==
    ForEach(ops, LAMBDA op : <<Decl(Handler(MethodName(op)), Place(op), <<WrapperOf(op)>>)>>)

RouterMentions(ops) ==
    {"ServerInterface", "WriteError", "WriteJSON"}
        \union {WrapperOf(ops[i]) : i \in DOMAIN ops}
        \union {"ServerInterface." \o MethodName(ops[i]) : i \in DOMAIN ops}

StdlibRouter(ops) ==
    File("server_router.go",
         Fixed(<<"ServerRouter", "RouterOption", "NewServerRouter",
                 "WithMiddleware", "WithErrorHandler", "ServerRouter.Handler",
                 "ServerRouter.ServeHTTP", "ServerRouter.serveHTTP",
                 "pathParamKey", "PathParam", "ServerRouter.routeRequest">>)
            \o Routes(ops, LAMBDA n : "ServerRouter.handle" \o n),
         RouterMentions(ops))

ChiRouter(ops) ==
    File("server_router.go",
         Fixed(<<"RouterOption", "NewChiRouter", "WithMiddleware",
                 "ErrorHandler", "errorHandlerKey", "WithErrorHandler",
                 "getErrorHandler">>)
            \o Routes(ops, LAMBDA n : "handle" \o n \o "Chi"),
         RouterMentions(ops))

RouterFile(ops) ==
    IF settings.router = "chi" THEN ChiRouter(ops) ELSE StdlibRouter(ops)

\* The result a stub gives back, named after its method alone.
StubResult(op) ==
    IF settings.responses THEN "*" \o MethodName(op) \o "Response" ELSE "any"

StubsOf(op) ==
    <<Decl("StubServer." \o MethodName(op) \o "Func", Place(op), <<>>),
      ServerMethod("StubServer", op, StubResult(op)),
      Decl("With" \o MethodName(op), Place(op), <<>>)>>

StubsFile(ops) ==
    File("server_stubs.go",
         Fixed(<<"StubServer", "NewStubServer", "StubServer.Reset",
                 "StubServerOption", "NewStubServerWithOptions">>)
            \o ForEach(ops, StubsOf),
         UNION {{WrapperOf(op)} \union
                IF settings.responses THEN {MethodName(op) \o "Response"} ELSE {}
                : op \in ToSet(ops)})

Extend(from, wanted, file, to) ==
    /\ phase = from
    /\ files' = IF wanted THEN Append(files, file) ELSE files
    /\ phase' = to
    /\ UNCHANGED <<doc, door, flags, settings, plan, generated, issues, table,
                   disk, earlier>>

HasPaths == doc.ops # {}
\* Mutant: the last operation of a name stands for it.
LastOfEach == Reverse(FirstOfEach(Reverse(Walked(doc))))

Once == FirstOfEach(Walked(doc))

GenerateResponses ==
    \E reply \in Picks(Once, Replies) :
        Extend("responses", settings.responses /\ HasPaths,
               ResponsesFile(Once, reply), "binder")
GenerateBinder ==
    Extend("binder", settings.binder /\ HasPaths, BinderFile(Once), "middleware")
GenerateMiddleware ==
    Extend("middleware", settings.middleware, MiddlewareFile, "router")
GenerateRouter ==
    Extend("router", settings.router # None /\ HasPaths, RouterFile(Once), "stubs")
GenerateStubs ==
    Extend("stubs", settings.stubs /\ HasPaths, StubsFile(Once), "security")

-----------------------------------------------------------------------------
\* Security, and the README: only ever written beside a client.

\* The option function of a scheme (generateSchemeHelper).
HelperSuffix ==
    [header |-> "APIKey", query |-> "APIKeyQuery", cookie |-> "APIKeyCookie",
     basic |-> "BasicAuth", bearer |-> "BearerToken", http |-> "HTTPAuth",
     oauth2 |-> "OAuth2Token", openIdConnect |-> "Token"]

SchemesInOrder ==
    SetToSortSeq(doc.schemes, LAMBDA s, t : Rank[s.name] < Rank[t.name])

HelpersFile ==
    File("security_helpers.go",
         ForEach(SchemesInOrder, LAMBDA s :
            Fixed(<<"With" \o FuncName[s.name] \o HelperSuffix[s.kind]>>)),
         {"ClientOption"})

\* A file of its own for each OAuth2 scheme, token and challenge included.
OAuth2File(scheme) ==
    LET name == FuncName[scheme.name]
        client == name \o "OAuth2Client"
    IN File("oauth2_" \o FileName[scheme.name] \o ".go",
            Fixed(<<name \o "OAuth2Config", "OAuth2Token", "OAuth2Token.IsExpired",
                    client, "New" \o client, client \o ".GetAuthorizationURL",
                    client \o ".ExchangeCode", "PKCEChallenge",
                    "GeneratePKCEChallenge", client \o ".RefreshToken",
                    "With" \o name \o "OAuth2AutoRefresh",
                    client \o ".doTokenRequest">>),
            {"ClientOption", "Client"})

\* The schemes that have a flow, in the order of a map.
OAuth2Orders == SetToSeqs({s \in doc.schemes : s.kind = "oauth2"})

CredentialsFile ==
    File("credentials.go",
         Fixed(<<"CredentialProvider", "MemoryCredentialProvider",
                 "NewMemoryCredentialProvider", "EnvCredentialProvider",
                 "NewEnvCredentialProvider", "CredentialChain",
                 "NewCredentialChain", "WithCredentialProvider",
                 "WithCredentialProviderHeader">>),
         {"ClientOption", "Client"})

\* The OpenID Connect schemes of which generateOIDCDiscoveryFileShared takes
\* whichever comes first; the file names the address of that one.
Providers == {s \in doc.schemes : s.kind = "openIdConnect"}
DefaultURL(provider) == Decl("DefaultOIDCDiscoveryURL", <<>>, <<provider.name>>)

DiscoveryFile(defaults) ==
    File("oidc_discovery.go",
         defaults \o Fixed(<<"OIDCConfiguration", "OIDCDiscoveryClient",
                 "OIDCDiscoveryOption", "WithOIDCHTTPClient",
                 "WithOIDCCacheTTL", "NewOIDCDiscoveryClient",
                 "OAuth2ConfigFromOIDCOptions", "GetOAuth2ConfigFromOIDC",
                 "WithOIDCDiscovery">>),
         {"ClientOption", "Client"})

\* What an operation asks for: its own requirements, else the document's.
\* A list that is absent is <<>>, one that is present <<list>>.
Asked(d, op) == IF op.security # <<>> THEN op.security ELSE d.security

\* ExtractOperationSecurityOAS3 and ...OAS2: the requirements behind each
\* method name, of any operation of that name.
SecurityMaps(d, ops) ==
    LET asking == {op \in ops : Asked(d, op) # <<>>}
    IN {[n \in DOMAIN m |-> Asked(d, m[n])[1]] : m \in
          {f \in [{MethodName(op) : op \in asking} -> asking] :
              \A n \in DOMAIN f : MethodName(f[n]) = n}}

Requirements3 == SecurityMaps(doc, Planned3(doc))
Requirements2 == SecurityMaps(doc, Planned2(doc))
Requirements == IF doc.version = "2.0" THEN Requirements2 ELSE Requirements3

\* Mutant: the scopes are left out.
EntriesWithoutScopes(requirement) ==
    {[scheme |-> s, scopes |-> {}] : s \in DOMAIN requirement}

\* A requirement is a function from schemes to the scopes they need. Each of
\* its schemes becomes an entry of its own.
Entries(requirement) ==
    {[scheme |-> s, scopes |-> requirement[s]] : s \in DOMAIN requirement}

\* The entries of a list: one requirement after the other, those of one
\* requirement in the order of a map.
EntryOrders(requirements) ==
    LET some == UNION {SetToSeqs(Entries(r)) : r \in ToSet(requirements)}
    IN {FlattenSeq(o) : o \in {f \in [DOMAIN requirements -> some] :
            \A i \in DOMAIN f : ToSet(f[i]) = Entries(requirements[i])}}

\* An operation without requirements has no line.
Tables(requirements) ==
    LET names == {n \in DOMAIN requirements : requirements[n] # <<>>}
        some == UNION {EntryOrders(requirements[n]) : n \in names}
    IN {t \in [names -> some] : \A n \in names : t[n] \in EntryOrders(requirements[n])}

EnforceNames ==
    <<"SecurityRequirement", "OperationSecurity", "SecurityValidator",
      "NewSecurityValidator", "SecurityValidator.ConfigureScheme",
      "SecurityValidator.ValidateOperation", "formatRequirements">>

\* The document's own requirements stand in the base file.
Globals ==
    IF doc.security \in {<<>>, <<<<>>>>} THEN {<<>>}
    ELSE {<<Decl("GlobalSecurity", <<>>, o)>> : o \in EntryOrders(doc.security[1])}

EnforceFile(global) ==
    File("security_enforce.go", Fixed(EnforceNames) \o global, {})

\* Split, each group has a file that adds its operations at start-up.
GroupRequirements(group, requirements) ==
    Restrict(requirements, DOMAIN requirements \intersect ToSet(group.operations))

EnforceGroups(requirements) ==
    LET asking == SelectSeq(plan.groups, LAMBDA g :
                      DOMAIN GroupRequirements(g, requirements) # {})
    IN [i \in DOMAIN asking |->
          File("security_enforce_" \o asking[i].name \o ".go", <<>>,
               {"OperationSecurity", "SecurityRequirement"})]

\* The table the files of the groups build; a file replaced by another of
\* its name adds nothing.
SplitTables(requirements) ==
    LET groups == plan.groups
        asks(i) == DOMAIN GroupRequirements(groups[i], requirements) # {}
        kept == {i \in DOMAIN groups : ~ \E j \in DOMAIN groups :
                    j > i /\ groups[j].name = groups[i].name /\ asks(j)}
        names == UNION {ToSet(groups[i].operations) : i \in kept}
    IN Tables(Restrict(requirements, DOMAIN requirements \intersect names))

Enforcement(requirements) ==
    /\ \E global \in Globals :
         files' = files \o <<EnforceFile(global)>>
                    \o IF Split THEN EnforceGroups(requirements) ELSE <<>>
    /\ table' \in IF Split THEN SplitTables(requirements) ELSE Tables(requirements)

\* generateAllSecurityHelpers, in two phases: the files of the schemes, and
\* those of the operations.
SecurityStep(from, to) ==
    /\ phase = from
    /\ settings.client
    /\ phase' = to
    /\ UNCHANGED <<doc, door, flags, settings, plan, generated, disk, earlier>>

\* isSecureURL: an OAuth2 scheme with an address neither HTTPS nor local.
FlowIssues ==
    {Scheme(s) : s \in {t \in doc.schemes : t.kind = "oauth2" /\ t.insecure}}

GenerateHelpers ==
    /\ SecurityStep("security", "enforcement")
    /\ issues' = issues \union IF settings.oauth2 THEN FlowIssues ELSE {}
    /\ \E order \in OAuth2Orders :
         LET some == doc.schemes # {} IN
         files' = files
            \o (IF settings.helpers /\ some THEN <<HelpersFile>> ELSE <<>>)
            \o (IF settings.oauth2
                THEN [i \in DOMAIN order |-> OAuth2File(order[i])] ELSE <<>>)
            \o (IF settings.credentials THEN <<CredentialsFile>> ELSE <<>>)
    /\ UNCHANGED table

GenerateEnforcement ==
    /\ SecurityStep("enforcement", "discovery")
    /\ IF settings.enforce
       THEN \E requirements \in Requirements : Enforcement(requirements)
       ELSE UNCHANGED <<files, table>>
    /\ UNCHANGED issues

\* The issue of an insecure discovery address names no scheme.
Discovery == <<"schemes", "openIdConnect">>

GenerateDiscovery ==
    /\ SecurityStep("discovery", "readme")
    /\ IF ~settings.discovery \/ doc.schemes = {} THEN UNCHANGED <<files, issues>>
       ELSE IF Providers = {}
       THEN /\ files' = Append(files, DiscoveryFile(<<>>))
            /\ UNCHANGED issues
       ELSE \E p \in Providers :
              /\ files' = Append(files, DiscoveryFile(<<DefaultURL(p)>>))
              /\ issues' = issues \union IF p.insecure THEN {Discovery} ELSE {}
    /\ UNCHANGED table

\* What the examples of the README use, scheme by scheme.
ReadmeExamples ==
    LET shown == {s \in doc.schemes : s.kind # "http"}
        clients == {s \in doc.schemes : settings.oauth2 /\ s.kind = "oauth2"}
        discovered == settings.discovery
                         /\ \E s \in doc.schemes : s.kind = "openIdConnect"
    IN UNION {{"NewClient"},
              {"With" \o FuncName[s.name] \o HelperSuffix[s.kind] : s \in shown},
              {"New" \o FuncName[s.name] \o "OAuth2Client" : s \in clients},
              IF discovered THEN {"NewOIDCDiscoveryClient"} ELSE {},
              IF settings.credentials
              THEN {"NewEnvCredentialProvider", "NewMemoryCredentialProvider",
                    "NewCredentialChain", "WithCredentialProvider"} ELSE {},
              IF settings.enforce THEN {"NewSecurityValidator"} ELSE {}}

\* The README describes the files that are there when it is written, and
\* says when that was.
ReadmeFile(now) ==
    [generated |-> now]
        @@ File(Readme, Fixed([i \in DOMAIN files |-> files[i].name]), ReadmeExamples)

\* Seconds since the first run; another may still fall into the same one.
Clock == IF earlier = <<>> THEN {0} ELSE {0, 1}

GenerateReadme ==
    /\ SecurityStep("readme", "finish")
    /\ IF settings.readme
       THEN \E now \in Clock : files' = Append(files, ReadmeFile(now))
       ELSE UNCHANGED files
    /\ UNCHANGED <<issues, table>>

SkipSecurity ==
    /\ phase = "security"
    /\ ~settings.client
    /\ phase' = "finish"
    /\ UNCHANGED <<doc, door, flags, settings, plan, generated, files, issues,
                   table, disk, earlier>>

-----------------------------------------------------------------------------
\* The whole call.

NothingYet ==
    /\ generated = {} /\ files = <<>> /\ issues = {} /\ table = <<>>

Init ==
    /\ doc \in Documents
    /\ flags \in Flags
    /\ door \in {"file", "mapped", "input"}
    /\ settings = Defaults
    /\ phase = "start"
    /\ plan = [split |-> FALSE, groups |-> <<>>, shared |-> {}]
    /\ NothingYet
    /\ disk = <<>>
    /\ earlier = <<>>

Refuse ==
    /\ phase' = "refused"
    /\ UNCHANGED <<doc, door, flags, settings, plan, generated, files, issues,
                   table, disk, earlier>>

\* HandleGenerate up to the plan. Only a file that is not read with a source
\* map is refused for its parse errors.
Start ==
    LET chosen == IF door = "input" THEN SettingsFromInput(flags)
                  ELSE SettingsFromFile(flags)
    IN /\ phase = "start"
       /\ IF \/ ~(flags.client \/ flags.server \/ flags.types)
             \/ door # "input" /\ OptionsRefused(chosen)
             \/ door = "file" /\ doc.errors
          THEN Refuse
          ELSE \E p \in Plans(chosen, doc) :
                 /\ settings' = chosen
                 /\ plan' = p
                 /\ phase' = "types"
                 /\ UNCHANGED <<doc, door, flags, generated, files, issues,
                                table, disk, earlier>>

\* In strict mode any issue fails the call, and nothing is written.
Finish ==
    /\ phase = "finish"
    /\ IF settings.strict /\ issues # {} THEN Refuse
       ELSE /\ phase' = "write"
            /\ UNCHANGED <<doc, door, flags, settings, plan, generated, files,
                           issues, table, disk, earlier>>

\* WriteFiles: a file replaces an earlier one of its name.
Written(fs) ==
    [name \in {fs[i].name : i \in DOMAIN fs} |->
        fs[Max({i \in DOMAIN fs : fs[i].name = name})]]

Write ==
    /\ phase = "write"
    /\ disk' = Written(files)
    /\ phase' = "done"
    /\ UNCHANGED <<doc, door, flags, settings, plan, generated, files, issues,
                   table, earlier>>

\* The same command, run again.
Again ==
    /\ phase = "done"
    /\ earlier = <<>>
    /\ earlier' = <<[files |-> files, issues |-> issues, table |-> table]>>
    /\ phase' = "start"
    /\ settings' = Defaults
    /\ generated' = {} /\ files' = <<>> /\ issues' = {} /\ table' = <<>>
    /\ UNCHANGED <<doc, door, flags, plan, disk>>

Next ==
    \/ Start \/ GenerateTypes \/ GenerateClient \/ GenerateServer \/ SkipServer
    \/ GenerateResponses \/ GenerateBinder \/ GenerateMiddleware
    \/ GenerateRouter \/ GenerateStubs
    \/ GenerateHelpers \/ GenerateEnforcement \/ GenerateDiscovery
    \/ GenerateReadme \/ SkipSecurity \/ Finish \/ Write \/ Again

Spec == Init /\ [][Next]_vars

-----------------------------------------------------------------------------
\* What the package must be. Go builds the files of the directory that are
\* no test files.

Built == {disk[n] : n \in DOMAIN disk \ (TestFiles \union {Readme})}
BuiltDecls == UNION {ToSet(f.declares) : f \in Built}
DeclaredIds == {d.id : d \in BuiltDecls}
Mentioned == UNION {f.mentions : f \in Built}
Count == FoldSet(LAMBDA f, n : n + Len(f.declares), 0, Built)

TypeOK ==
    /\ doc \in Documents /\ flags \in Flags
    /\ door \in {"file", "mapped", "input"}
    /\ DOMAIN settings = DOMAIN Defaults
    /\ phase \in {"start", "types", "client", "server", "responses", "binder",
                  "middleware", "router", "stubs", "security", "enforcement",
                  "discovery", "readme", "finish", "write", "done", "refused"}
    /\ plan.split \in BOOLEAN
    /\ generated \subseteq {GoName[s] : s \in doc.schemas}
    /\ \A i \in DOMAIN files :
         DOMAIN files[i] \ {"generated"} = {"name", "declares", "mentions"}
    /\ DOMAIN table \subseteq {MethodName(op) : op \in doc.ops}
    /\ Len(earlier) <= 1

Done == phase = "done"

\* A claim is a name and what it is for: the package owes one declaration to
\* every schema, and several to every operation and scheme.
Claims(ids, for) == {<<id, for>> : id \in ids}

OwedToOperation(op) ==
    LET n == MethodName(op)
        client == {"Client." \o n}
                    \union IF op.query THEN {n \o "Params"} ELSE {}
        server == {"ServerInterface." \o n, "UnimplementedServer." \o n, WrapperOf(op)}
        stubs == {"StubServer." \o n, "StubServer." \o n \o "Func", "With" \o n}
        binder == {"RequestBinder.Bind" \o n \o "Request"}
        responses == {n \o "Response", n \o "Response.Success"}
        route == IF settings.router = "chi" THEN "handle" \o n \o "Chi"
                 ELSE "ServerRouter.handle" \o n
    IN UNION {IF settings.client THEN client ELSE {},
              IF settings.server THEN server ELSE {},
              IF settings.server /\ settings.responses THEN responses ELSE {},
              IF settings.server /\ settings.binder THEN binder ELSE {},
              IF settings.server /\ settings.router # None THEN {route} ELSE {},
              IF settings.server /\ settings.stubs THEN stubs ELSE {}}

Ids(file) == {file.declares[i].id : i \in DOMAIN file.declares}

ServerBase ==
    <<"ServerInterface", "UnimplementedServer", "ErrNotImplemented",
      "NotImplementedError", "NotImplementedError.Error">>

OwedAnyway ==
    LET server == settings.server /\ HasPaths
    IN UNION {IF settings.client THEN ToSet(ClientNames) ELSE {},
              IF settings.server THEN ToSet(ServerBase) ELSE {},
              IF server /\ settings.responses THEN Ids(ResponsesFile(<<>>, <<>>)) ELSE {},
              IF server /\ settings.binder THEN Ids(BinderFile(<<>>)) ELSE {},
              IF settings.server /\ settings.middleware THEN Ids(MiddlewareFile) ELSE {},
              IF server /\ settings.router # None THEN Ids(RouterFile(<<>>)) ELSE {},
              IF server /\ settings.stubs THEN Ids(StubsFile(<<>>)) ELSE {},
              IF settings.client /\ settings.credentials THEN Ids(CredentialsFile) ELSE {},
              IF settings.client /\ settings.enforce
              THEN UNION {Ids(EnforceFile(g)) : g \in Globals} ELSE {},
              IF settings.client /\ settings.discovery /\ doc.schemes # {}
              THEN Ids(DiscoveryFile(SetToSeq({DefaultURL(p) : p \in Providers})))
              ELSE {}}

OwedToScheme(s) ==
    IF ~settings.client THEN {}
    ELSE (IF settings.helpers THEN {"With" \o FuncName[s.name] \o HelperSuffix[s.kind]}
          ELSE {})
         \union (IF settings.oauth2 /\ s.kind = "oauth2" THEN Ids(OAuth2File(s)) ELSE {})

Owed ==
    UNION {Claims({GoName[s]}, Schema(s)) : s \in doc.schemas}
        \union UNION {Claims(OwedToOperation(op), Place(op)) : op \in GetOperations(doc)}
        \union UNION {Claims(OwedToScheme(s), Scheme(s)) : s \in doc.schemes}
        \union Claims(OwedAnyway, <<>>)

\* No name is claimed twice. The generator sees to it for two schemas, for a
\* wrapper and a schema, and on the server for two operations, by leaving one
\* out or renaming it; other clashes it does not look for.
NamesApart == \A c, d \in Owed : c[1] = d[1] => c = d

\* No group's file replaces another's, and none is one the build leaves out.
FilesApart ==
    /\ \A i, j \in DOMAIN plan.groups :
         plan.groups[i].name = plan.groups[j].name => i = j
    /\ DOMAIN disk \intersect TestFiles = {}

\* The walk and the plan have every operation, in files that keep apart.
PlanKeepsAll ==
    /\ FilesApart
    /\ GetOperations(doc) = ToSet(Walked(doc))
    /\ Split => \A op \in GetOperations(doc) :
           \E g \in ToSet(plan.groups) : MethodName(op) \in ToSet(g.operations)

\* Where names and groups keep apart the package declares each name it owes,
\* and nothing else, exactly once, however types and operations are spread
\* over files: no type in two groups' files or in none, no method of an
\* operation lost between the plan and the walk.
DeclaresAsOwed ==
    (Done /\ NamesApart /\ PlanKeepsAll) =>
        /\ DeclaredIds = {c[1] : c \in Owed}
        /\ Count = Cardinality(DeclaredIds)

\* Every name a file mentions (the wrapper of an interface method, the type
\* of a response, the helpers of the router) some built file declares, even
\* where names clash, unless the router is asked for without the responses.
NothingUndeclared ==
    (Done /\ PlanKeepsAll /\ (settings.router # None => settings.responses))
        => Mentioned \subseteq DeclaredIds

\* Where the server's part of an operation stands.
ServerFiles ==
    {"server.go", "server_responses.go", "server_binder.go",
     "server_router.go", "server_stubs.go"}

ServerNames(n) ==
    {"ServerInterface." \o n, "UnimplementedServer." \o n, "StubServer." \o n,
     "RequestBinder.Bind" \o n \o "Request", n \o "Response",
     "ServerRouter.handle" \o n, "handle" \o n \o "Chi"}

\* However many operations share a method name, the interface, the default
\* implementation, the responses, the binder, the router and the stubs all
\* stand for the same one of them and take the same wrapper.
ServerFilesAgree ==
    LET decls == UNION {ToSet(disk[f].declares) : f \in ServerFiles \intersect DOMAIN disk}
    IN (Done /\ settings.server) =>
         \A op \in ToSet(Walked(doc)) :
            LET named == {d \in decls : d.id \in ServerNames(MethodName(op))}
            IN /\ Cardinality({d.of : d \in named}) = 1
               /\ {d.type[1] : d \in {e \in named : e.type # <<>>}} = {WrapperOf(op)}

\* How often the package declares a name.
Times(id) ==
    FoldSet(LAMBDA f, n : n + Len(SelectSeq(f.declares, LAMBDA d : d.id = id)), 0, Built)

Alone(op) == \A o \in doc.ops : MethodName(o) = MethodName(op) => o = op

\* The exception: a package that is not split gets the client method and the
\* request type of every operation of a name, though the code means to leave
\* out what the interface leaves out (oas3_generator.go:682, 709), and the
\* package does not build.
WrittenForEach(op) == ~Split /\ ~Alone(op)

\* The client method and the request type of a method name are declared once,
\* in whatever file, but for that exception.
DeclaredOnce ==
    (Done /\ PlanKeepsAll) =>
        \A op \in ToSet(Walked(doc)) :
            \/ WrittenForEach(op)
            \/ /\ settings.client => Times("Client." \o MethodName(op)) = 1
               /\ settings.server => Times(WrapperOf(op)) = 1

\* The issues of endpoints without TLS: of every OAuth2 scheme that gets a
\* file, and of the one provider whose address the discovery file names.
InsecureEndpoints ==
    LET named(p) == \E d \in BuiltDecls : d = DefaultURL(p)
    IN IF ~settings.client THEN {}
       ELSE {Scheme(s) : s \in {t \in doc.schemes :
                 settings.oauth2 /\ t.kind = "oauth2" /\ t.insecure}}
            \union {Discovery : p \in {q \in Providers : named(q) /\ q.insecure}}

\* Where files keep apart, what the types and the interface leave out is
\* reported, and nothing else is but endpoints without TLS: of the schemas of
\* one Go name, and of the operations of one method name, one has its
\* declaration and the others an issue. A strict run leaves nothing out.
SkippedIsReported ==
    LET has(of) == \E d \in BuiltDecls : d.of = of
        method(op) == \E d \in BuiltDecls :
                        /\ d.of = Place(op)
                        /\ d.id = "ServerInterface." \o MethodName(op)
        types == {Schema(s) : s \in {t \in doc.schemas : ~has(Schema(t))}}
        methods == {Place(op) : op \in {o \in ToSet(Walked(doc)) : ~method(o)}}
    IN (Done /\ FilesApart) =>
         /\ issues = types \union InsecureEndpoints
                        \union IF settings.server THEN methods ELSE {}
         /\ settings.strict => issues = {}

\* The verdict of the generated validator's ValidateOperation.
Satisfied(name, configured) ==
    \/ name \notin DOMAIN table
    \/ table[name] = <<>>
    \/ \E i \in DOMAIN table[name] :
         LET e == table[name][i] IN
         e.scheme \in DOMAIN configured /\ e.scopes \subseteq configured[e.scheme]

\* What the document means: one of the requirements, with all its schemes.
MayBeCalled(op, configured) ==
    LET asked == Asked(doc, op) IN
    \/ asked \in {<<>>, <<<<>>>>}
    \/ \E i \in DOMAIN asked[1] : \A s \in DOMAIN asked[1][i] :
         s \in DOMAIN configured /\ asked[1][i][s] \subseteq configured[s]

Scopes == UNION {UNION {UNION {r[s] : s \in DOMAIN r} : r \in ToSet(asked[1])} :
                    asked \in {Asked(doc, op) : op \in doc.ops} \ {<<>>}}
Configurations ==
    UNION {[ss -> SUBSET Scopes] : ss \in SUBSET {s.name : s \in doc.schemes}}

\* The exceptions, where the validator asks for nothing: QUERY and custom
\* methods have no entry (security_enforce.go:325), and the entries stand
\* under Go method names, though the generated comments and README speak of
\* operation ids (security_enforce.go:177, readme_generator.go:413).
NoEntryFor(op, id) == op \notin Planned(doc) \/ id # MethodName(op)

\* An operation whose requirements name one scheme each, and whose name no
\* other has, is let through by the generated validator, asked by operation
\* id or by method name, for exactly the schemes and scopes its document asks
\* for: its own list, even an empty one, before the document's, in one file
\* or in many, but for those exceptions.
EnforcedAsAsked ==
    LET plain(op) == \A asked \in {Asked(doc, op)} \ {<<>>} :
                        \A r \in ToSet(asked[1]) : Cardinality(DOMAIN r) = 1
    IN (Done /\ settings.client /\ settings.enforce /\ PlanKeepsAll) =>
         \A op \in {o \in GetOperations(doc) : Alone(o) /\ plain(o)} :
            \A id \in {OperationId(op), MethodName(op)} : \A c \in Configurations :
                NoEntryFor(op, id) \/ (Satisfied(id, c) <=> MayBeCalled(op, c))

\* What a file says but for the time it was written.
Undated(fs) ==
    [i \in DOMAIN fs |-> [x \in DOMAIN fs[i] \ {"generated"} |-> fs[i][x]]]

\* The exceptions, where the code takes whatever comes first in a map: the
\* media types of a content, the schemes of a requirement, and the providers.
OneMediaType ==
    \A op \in doc.ops : Cardinality(DOMAIN op.body) <= 1 /\ Cardinality(DOMAIN op.reply) <= 1
OneSchemeEach ==
    \A list \in ({doc.security} \union {op.security : op \in doc.ops}) \ {<<>>} :
        \A r \in ToSet(list[1]) : Cardinality(DOMAIN r) <= 1
OneProvider == settings.discovery => Cardinality(Providers) <= 1

\* Run twice, the command writes the same files in the same order, but for
\* the date of the README, though it ranges over maps throughout, unless
\* names clash, those of OAuth2 schemes included, or one of those exceptions
\* is met.
Repeatable ==
    (Done /\ earlier # <<>> /\ NamesApart /\ OneMediaType /\ OneSchemeEach /\ OneProvider) =>
        /\ Undated(earlier[1].files) = Undated(files)
        /\ earlier[1].issues = issues
        /\ earlier[1].table = table

\* The README describes the files written with it, each once, and its
\* examples use what they declare, for schemes and operations spread over
\* whatever files, unless the helpers it shows were not wanted.
ReadmeIsTrue ==
    (Done /\ Readme \in DOMAIN disk /\ FilesApart /\ NamesApart) =>
        LET described == disk[Readme].declares
        IN /\ Ids(disk[Readme]) = DOMAIN disk \ {Readme}
           /\ Len(described) = Cardinality(Ids(disk[Readme]))
           /\ settings.helpers => disk[Readme].mentions \subseteq DeclaredIds

\* A document read from standard input is generated with the settings it
\* gets as a file, as long as extensions are asked for together with the
\* server.
DoorsAgree ==
    (phase \notin {"start", "refused"}
       /\ (HasExtension(settings) => flags.server)) =>
        settings = SettingsFromFile(flags)

\* The package is whole: it declares what it owes, mentions nothing else, and
\* its README speaks of the files there are.
PackageIsWhole == DeclaresAsOwed /\ NothingUndeclared /\ ReadmeIsTrue

\* Operations that share a method name are told apart alike in every file of
\* the server, and in a split package everywhere, and the user hears of those
\* that are left out.
ClashesAreSettledOnce == ServerFilesAgree /\ DeclaredOnce /\ SkippedIsReported

\* The same document and flags give the same package, through either door and
\* in every run, but for what a date or the order of a map decides.
SameCommandSamePackage == DoorsAgree /\ Repeatable
=============================================================================
