-------------------------- MODULE DocumentRepairs ---------------------------
(***************************************************************************)
(* What the fixer repairs in a document with one peculiarity (as in        *)
(* DocumentChecks), and what it claims to have repaired.                   *)
(*                                                                         *)
(* A repair is a stage of a pipeline. Repaired(stage, d) is the flaw that a*)
(* document has after the stage, or "none"; a stage that has nothing to do *)
(* leaves the flaw. The stages that follow references (stubs, renamed      *)
(* references, pruning) are those of DocumentTools.                        *)
(***************************************************************************)
EXTENDS DocumentChecks

MissingPathParameter  == "missing-path-parameter"
PathParameterRequired == "path-parameter-not-required"
DuplicateOperationId  == "duplicate-operation-id"
RenamedGenericSchema  == "renamed-generic-schema"
EnumCSVExpanded       == "enum-csv-expanded"

\* The order of the pipeline; DefaultEnabledFixes.
Pipeline ==
    <<MissingPathParameter, PathParameterRequired, DuplicateOperationId, RenamedGenericSchema,
      EnumCSVExpanded>>
FixTypes            == {Pipeline[i] : i \in DOMAIN Pipeline}
DefaultEnabledFixes == {MissingPathParameter, PathParameterRequired}

\* isFixEnabled: none named means all.
IsFixEnabled(stage, enabled) == enabled = {} \/ stage \in enabled

-----------------------------------------------------------------------------
\* fixMissingPathParameters: a parameter for every variable of the template that
\* no parameter declares, for the operations under paths.

FindMissingPathParams(d) == ReportUndeclaredPathParams(d)
FixMissingPathParameters(d) == IF FindMissingPathParams(d) THEN "none" ELSE d.flaw

\* fixPathParamsRequired: the document's own parameters, and those in use under
\* paths.
FixPathParamsRequiredInDefinitions(d) ==
    End(d) = 2 /\ d.site[1] = <<"Document", "parameters">> /\ NeedsRequiredTrue(d)

FixPathParamsRequiredInPaths(d) ==
    NeedsRequiredTrue(d) /\ (OfSharedParameter(d, {"paths"}) \/ OfOwnParameter(d, {"paths"}))
SetPathParamsRequired(d) ==
    IF FixPathParamsRequiredInDefinitions(d) \/ FixPathParamsRequiredInPaths(d) THEN "none" ELSE d.flaw

-----------------------------------------------------------------------------
\* fixDuplicateOperationIds: the first operation in the order of the sweep keeps
\* the identifier. A new one is none of those seen in the sections swept.

SweptSections(v) == IF v >= 31 THEN {"paths", "webhooks"} ELSE {"paths"}
InSweep(d) == OfOperation(d, SweptSections(d.version))
ResolveOperationIdCollision(d) == IF InSweep(d) THEN "none" ELSE "duplicate"
FixDuplicateOperationIds(d) ==
    IF d.flaw = "nextId" THEN ResolveOperationIdCollision(d)
    ELSE IF d.flaw = "duplicate" /\ InSweep(d) THEN "none" ELSE d.flaw

-----------------------------------------------------------------------------
\* renameInvalidSchemas: the charset of 3.x, or the fixer's own choice for 2.0.

HasInvalidSchemaNameChars(v) ==
    {"blankName", "genericName"} \cup (IF v = 20 THEN {} ELSE {"slashName"})
RenameInvalidSchemas(d) ==
    IF Field(d) = <<"Document", "schemas">> /\ d.flaw \in HasInvalidSchemaNameChars(d.version)
    THEN "none" ELSE d.flaw

-----------------------------------------------------------------------------
\* fixCSVEnums: the places it goes to by itself, and the keywords it follows.

FixSchemaCSVEnums ==
    In("Schema", {"properties", "items", "additionalProperties", "allOf", "anyOf", "oneOf", "not"})
FixCSVEnumsOAS2 ==
    {<<<<"Document", "schemas">>>>, <<<<"Document", "parameters">>, <<"Parameter", "schema">>>>}
FixPathItemCSVEnumsOAS2 ==
    {<<<<"Document", "paths">>, <<"PathItem", "get">>>> \o p :
        p \in {<<<<"Operation", f>>, <<"Parameter", "schema">>>> : f \in {"parameters", "body"}}
              \cup {<<<<"Operation", f>>, <<"Response", "schema">>>> : f \in {"responses", "default"}}}
FixCSVEnumsOAS3 ==
    {<<<<"Document", "schemas">>>>, <<<<"Document", "parameters">>, <<"Parameter", "schema">>>>,
     <<<<"Document", "requestBodies">>, <<"RequestBody", "content">>, <<"MediaType", "schema">>>>,
     <<<<"Document", "responses">>, <<"Response", "content">>, <<"MediaType", "schema">>>>}
FixPathItemCSVEnumsOAS3 ==
    {<<<<"Document", "paths">>, <<"PathItem", f>>>> \o p :
        f \in {"get", "trace"},
        p \in {<<<<"Operation", "parameters">>, <<"Parameter", "schema">>>>,
               <<<<"Operation", "requestBody">>, <<"RequestBody", "content">>, <<"MediaType", "schema">>>>}
              \cup {<<<<"Operation", f>>, <<"Response", "content">>, <<"MediaType", "schema">>>> :
                       f \in {"responses", "default"}}}

\* The path ends inside a schema that hangs at one of these places.
Below(d, places) ==
    \E i \in 1 .. End(d) - 1 :
        /\ SubSeq(d.site, 1, i) \in places
        /\ \A j \in i + 1 .. End(d) - 1 : d.site[j] \in FixSchemaCSVEnums
ReachesEnum(d) ==
    Below(d, IF d.version = 20 THEN FixCSVEnumsOAS2 \cup FixPathItemCSVEnumsOAS2
             ELSE FixCSVEnumsOAS3 \cup FixPathItemCSVEnumsOAS3)

\* expandCSVEnumValues: a text without a comma is kept as it is.
ExpandCSVEnumValues(d) ==
    CASE d.flaw = "csv" -> "none" [] d.flaw = "csvMixed" -> "mismatch" [] OTHER -> d.flaw
FixCSVEnums(d) == IF ReachesEnum(d) THEN ExpandCSVEnumValues(d) ELSE d.flaw

-----------------------------------------------------------------------------
\* applyFixPipeline.

Repaired(stage, d) ==
    CASE stage = MissingPathParameter  -> FixMissingPathParameters(d)
      [] stage = PathParameterRequired -> SetPathParamsRequired(d)
      [] stage = DuplicateOperationId  -> FixDuplicateOperationIds(d)
      [] stage = RenamedGenericSchema  -> RenameInvalidSchemas(d)
      [] stage = EnumCSVExpanded       -> FixCSVEnums(d)

\* The stages that a dry run does not keep from changing the document.
IgnoreDryRun == {MissingPathParameter, RenamedGenericSchema, EnumCSVExpanded}

\* What is left of a document whose flaw is repaired is that it uses the object.
Cured(d, flaw) ==
    IF flaw # "none" THEN [d EXCEPT !.flaw = flaw]
    ELSE [d EXCEPT !.flaw = "used", !.site = IF End(d) = 1 THEN @ ELSE Way(d)]

\* The document after the first n stages, and the fixes recorded so far.
ApplyFixPipeline(d, enabled, dry) ==
    LET After[n \in 0 .. Len(Pipeline)] ==
            IF n = 0 THEN [document |-> d, fixes |-> {}]
            ELSE LET before == After[n - 1]
                     flaw   == Repaired(Pipeline[n], before.document)
                 IN  IF ~IsFixEnabled(Pipeline[n], enabled) \/ flaw = before.document.flaw THEN before
                     ELSE [document |-> IF dry /\ Pipeline[n] \notin IgnoreDryRun THEN before.document
                                        ELSE Cured(before.document, flaw),
                           fixes    |-> before.fixes \cup {Pipeline[n]}]
    IN  After[Len(Pipeline)]
=============================================================================
