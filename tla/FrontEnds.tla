----------------------------- MODULE FrontEnds ------------------------------
(***************************************************************************)
(* The commands a user runs on a document, one after another: validate,    *)
(* fix, convert and parse, from the command line, from the MCP server or   *)
(* from a program. A command that writes writes over the document.         *)
(*                                                                         *)
(* The document has one peculiarity, as in DocumentChecks. What the commands*)
(* find, repair and carry over is in DocumentChecks, DocumentRepairs and   *)
(* DocumentConversions; here is when a command refuses, what it writes and *)
(* what it says, and whether the commands agree with the specification of  *)
(* the document's version and with one another.                            *)
(***************************************************************************)
EXTENDS DocumentRepairs, DocumentConversions, FiniteSets

CONSTANTS
    Inputs,         \* [document, commands]: how many commands are run on it
    Unchecked,      \* known mistakes no check finds, as sets of traits
    Unfounded,      \* and what is reported, and no mistake
    Unrepaired,     \* what a fix that is meant for it passes over
    Unspoken,       \* what a conversion says nothing of
    Invalid         \* and what is not valid in 2.0, and converted to it

VARIABLES
    document,       \* the user's file
    commands,       \* how many may still be run
    last            \* what the last command was given, did and said

vars == <<document, commands, last>>

Run(record) ==
    /\ commands > 0
    /\ commands' = commands - 1
    /\ last' = record

-----------------------------------------------------------------------------
\* The command line.

Parses(d) == ~Structure(d)

\* HandleParse prints nothing of a document that has errors, and looks for them
\* only with --validate-structure.
HandleParse(structure) ==
    /\ Run([command |-> "parse", of |-> document, structure |-> structure,
            ok |-> structure => Parses(document)])
    /\ UNCHANGED document

\* --validate-structure=false leaves the parser's check out.
HandleValidate(structure) ==
    /\ Run([command |-> "validate", of |-> document, structure |-> structure,
            ok |-> ~Reported(document, structure)])
    /\ UNCHANGED document

\* The optional flags only ever add to the defaults.
EnabledByFlags(names, ids) ==
    DefaultEnabledFixes \cup (IF names THEN {RenamedGenericSchema} ELSE {})
                        \cup (IF ids THEN {DuplicateOperationId} ELSE {})

FixRecord(command, enabled, dry, result, ok) ==
    [command |-> command, of |-> document, enabled |-> enabled, dry |-> dry,
     result |-> result.document, fixes |-> result.fixes, ok |-> ok]

\* The exit code is of the errors of the parse, before any fix; the document is
\* written whatever it is, unless nothing is to be.
HandleFix(names, ids, dry) ==
    LET enabled == EnabledByFlags(names, ids)
        result  == ApplyFixPipeline(document, enabled, dry)
    IN  /\ Run(FixRecord("fix", enabled, dry, result, Parses(document)))
        /\ document' = IF dry THEN document ELSE result.document

ConvertRecord(command, target, strict, outcome, written, ok) ==
    [command |-> command, of |-> document, target |-> target, strict |-> strict,
     result |-> outcome.document, lost |-> outcome.lost, issue |-> outcome.issue,
     written |-> written, ok |-> ok]

\* ConvertParsed refuses a document with errors, and with --strict one it has
\* something to say of, except when there is nothing to convert.
Refused(target, strict, outcome) ==
    \/ ~Parses(document)
    \/ strict /\ document.version # target /\ outcome.issue >= Warning

\* A conversion with critical issues is written, and the command fails.
HandleConvert(target, strict) ==
    LET outcome == Convert(document, target)
        written == ~Refused(target, strict, outcome)
    IN  /\ Run(ConvertRecord("convert", target, strict, outcome, written,
                             written /\ outcome.issue < Critical))
        /\ document' = IF written THEN outcome.document ELSE document

-----------------------------------------------------------------------------
\* The MCP server. handleValidate reads documents with the structure check on;
\* handleFix answers a document with errors too (ok: their count is zero);
\* handleConvert is never strict.

HandleValidateTool ==
    /\ Run([command |-> "validate", of |-> document, structure |-> TRUE, ok |-> ~Reported(document, TRUE)])
    /\ UNCHANGED document

HandleFixTool(names, ids, dry) ==
    LET enabled == EnabledByFlags(names, ids)
        result  == ApplyFixPipeline(document, enabled, dry)
    IN  /\ Run(FixRecord("fix tool", enabled, dry, result, Parses(document)))
        /\ document' = IF dry THEN document ELSE result.document

HandleConvertTool(target) ==
    LET outcome == Convert(document, target)
        written == ~Refused(target, FALSE, outcome)
    IN  /\ Run(ConvertRecord("convert tool", target, FALSE, outcome, written,
                             written /\ outcome.issue < Critical))
        /\ document' = IF written THEN outcome.document ELSE document

-----------------------------------------------------------------------------
\* A program, which names the fixes it wants, and naming none wants all; it
\* writes the document that it gets back.
FixWithOptions(enabled) ==
    LET result == ApplyFixPipeline(document, enabled, FALSE)
    IN  /\ Run(FixRecord("program", enabled, FALSE, result, Parses(document)))
        /\ document' = result.document

-----------------------------------------------------------------------------
Init ==
    /\ \E input \in Inputs : document = input.document /\ commands = input.commands
    /\ last = [command |-> "none"]

Next ==
    \/ \E structure \in BOOLEAN : HandleParse(structure) \/ HandleValidate(structure)
    \/ HandleValidateTool
    \/ \E names, ids, dry \in BOOLEAN : HandleFix(names, ids, dry) \/ HandleFixTool(names, ids, dry)
    \/ \E target \in Versions, strict \in BOOLEAN : HandleConvert(target, strict)
    \/ \E target \in Versions : HandleConvertTool(target)
    \/ \E enabled \in {{}, {EnumCSVExpanded}} : FixWithOptions(enabled)

Spec == Init /\ [][Next]_vars

-----------------------------------------------------------------------------
\* What the specifications of the versions say, which no function of the program
\* holds as a whole.

\* Keywords of a schema whose meaning is of some versions alone.
OfVersions ==
    (<<"Schema", "nullable">> :> {30}) @@ (<<"Schema", "exclusive">> :> {20, 30})
    @@ (<<"Schema", "tuple">> :> {20}) @@ (<<"Schema", "writeOnly">> :> {30, 31, 32})
    @@ (<<"Schema", "deprecated">> :> {30, 31, 32})
OfTwoOnly == In("Parameter", {"type"}) \cup In("Header", {"type"})
Fits(s, v) ==
    CASE s \in DOMAIN OfVersions -> v \in OfVersions[s]
      [] s \in OfTwoOnly         -> v = 20
      [] s[1] \in DOMAIN Leaves /\ s[2] \in DOMAIN Leaves[s[1]] -> v >= Leaves[s[1]][s[2]]
      [] s[2] \in DOMAIN FieldsOf(s[1]) -> Belongs(s, v)
      [] OTHER -> FALSE

\* What looks like a mistake and is none in these versions.
Permitted(v) ==
    (IF v = 20 THEN {<<"Document", "schemas">>} \X {"slashName", "genericName"}
                    \cup {<<<<"Schema", "discriminator">>, "string">>}
     ELSE {<<<<"Parameter", "in">>, "cookie">>, <<<<"Operation", "status">>, "wildcard">>,
           <<<<"Schema", "discriminator">>, "object">>})
    \cup (IF v >= 31 THEN {<<<<"Operation", "responses">>, "missing">>, <<<<"Document", "paths">>, "missing">>,
                           <<<<"Schema", "boolean">>, "written">>, <<<<"Schema", "type">>, "null">>}
          ELSE {<<<<"ServerVariable", "enum">>, "empty">>}
               \cup {<<"Parameter", "allowReserved">>, <<"Header", "allowReserved">>} \X {"misplaced"})
    \cup (IF v = 32 THEN {<<<<"Parameter", "in">>, "querystring">>, <<<<"Response", "description">>, "missing">>}
          ELSE {<<"Parameter", "name">>, <<"Header", "name">>} \X {"malformed"})

\* A template is that of a path only, and each flow has its own addresses.
Addresses ==
    [implicit |-> {"authorizationUrl"}, password |-> {"tokenUrl"}, clientCredentials |-> {"tokenUrl"},
     authorizationCode |-> {"authorizationUrl", "tokenUrl"}, deviceAuthorization |-> {"tokenUrl"}]
Applies(d) ==
    /\ Field(d) \in {<<"PathItem", "name">>, <<"Operation", "variable">>} =>
           d.site[1] = <<"Document", "paths">> /\ <<"Operation", "callbacks">> \notin Steps(d.site)
    /\ Field(d)[1] = "OAuthFlow" /\ d.flaw # "used" => Field(d)[2] \in Addresses[d.site[End(d) - 1][2]]

\* Every object on the way is one that the version has.
InItsVersion(d) == \A i \in 1 .. End(d) - 1 : Fits(d.site[i], d.version)

\* An alias has no fields, so none is missing.
Wrong(d) ==
    \/ ~InItsVersion(d)
    \/ /\ ~d.alias /\ Applies(d)
       /\ \/ ~Fits(Field(d), d.version)
          \/ d.flaw # "used" /\ Trouble(d) \notin Permitted(d.version)

\* What a document can be known for: the steps of the site, the kind of object and
\* what is wrong with it, and the version.
Since(s) == IF s[1] \in DOMAIN Leaves /\ s[2] \in DOMAIN Leaves[s[1]] THEN Leaves[s[1]][s[2]]
            ELSE IF s \in DOMAIN OfVersions THEN 20 ELSE FieldsOf(s[1])[s[2]]
Traits(d) ==
    {<<"since", Since(s)>> : s \in Steps(d.site)} \cup Steps(d.site) \cup {<<Field(d)[1], Field(d)[2], d.flaw>>, <<"kind", Field(d)[1]>>, <<"flaw", d.flaw>>,
                        <<"from", d.version>>, <<"alias", d.alias>>}
Known(gaps, traits) == \E gap \in gaps : gap \subseteq traits

Ran(command) == last.command \in command
Fixes        == {"fix", "fix tool", "program"}
Conversions  == {"convert", "convert tool"}

TypeOK ==
    /\ document.version \in Versions /\ document.flaw \in STRING /\ document.alias \in BOOLEAN
    /\ commands \in Nat
    /\ Ran({"convert", "convert tool"}) => last.issue \in Silent .. Critical

\* Every mistake is reported, wherever in the document it is, and nothing else is.
\* The passes of the validator each have traversals of their own; what none of them
\* visits is listed, as is what they take for a mistake.
ValidateIsRight ==
    Ran({"validate"}) =>
        /\ last.structure /\ last.ok /\ Wrong(document) => Known(Unchecked, Traits(document))
        /\ ~last.ok /\ ~Wrong(document) => Known(Unfounded, Traits(document))

\* A mistake that a fix is meant for.
MeantFor(d) ==
    {stage \in FixTypes :
        \/ stage = MissingPathParameter  /\ Trouble(d) = <<<<"Operation", "variable">>, "undeclared">>
        \/ stage = PathParameterRequired /\ Trouble(d) = <<<<"Parameter", "required">>, "missing">>
        \/ stage = DuplicateOperationId  /\ d.flaw \in {"duplicate", "nextId"}
        \/ stage = RenamedGenericSchema  /\ Field(d) = <<"Document", "schemas">>
        \/ stage = EnumCSVExpanded       /\ d.flaw \in {"csv", "csvMixed"}}

\* After a fix, what the validator reported before and the fix was enabled for is
\* reported no more, unless it is known that the fixer does not go there.
FixedIsValid ==
    Ran(Fixes) /\ ~last.dry /\ InItsVersion(last.of) /\ Reported(last.of, TRUE) /\ Reported(document, TRUE)
    /\ (\E stage \in MeantFor(last.of) : IsFixEnabled(stage, last.enabled)) =>
        Known(Unrepaired, Traits(last.of))

\* A document that needs a fix is found out, and the fix is enough.
FoundAndFixed == ValidateIsRight /\ FixedIsValid

\* What a conversion loses, or keeps and the new version does not have, is spoken
\* of by an issue that --strict refuses.  (What 2.0 has no place for is dropped
\* without a word more often than not: DocumentValues has the list.)
ConversionsSpeak ==
    Ran(Conversions) /\ ~Wrong(last.of) /\ last.target # 20
    /\ last.written /\ last.issue < Warning /\ (last.lost \/ Wrong(last.result)) =>
        Known(Unspoken, Traits(last.of) \cup {<<"to", last.target>>})

\* A valid document that is converted to 2.0, and nothing is said, is valid.
ConvertedIsValid ==
    Ran(Conversions) /\ ~Reported(last.of, TRUE) /\ last.target = 20
    /\ last.written /\ last.issue < Warning /\ Reported(last.result, TRUE) =>
        Known(Invalid, Traits(last.of))

\* A conversion that says nothing has nothing to say.
ConvertedWithoutHarm == ConversionsSpeak /\ ConvertedIsValid
=============================================================================
