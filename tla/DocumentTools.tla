--------------------------- MODULE DocumentTools ----------------------------
(***************************************************************************)
(* The tools that rewrite a document, one after another on the same        *)
(* document: the fixer's pipeline, the joiner's rename of a colliding       *)
(* schema, and the conversions between versions; and the validator, which  *)
(* says afterwards whether the references resolve.                         *)
(*                                                                         *)
(* The document has one reference under test, at a place of Traversals,    *)
(* and the components of the section it points into: its target T, a       *)
(* neighbour N that already has the clean form of T's name, the schema L   *)
(* that a join brings in under T's name, and the stub S.  A place inside a *)
(* schema of the pool is in the schema H.  What a tool does to the         *)
(* reference depends on the place alone, so one reference per document,    *)
(* with every place tried, stands for all of them.                         *)
(***************************************************************************)
EXTENDS Traversals, Functions

CONSTANTS
    Inputs,         \* the documents, see Init
    MaxTools        \* tools run on one document

ASSUME MaxToolsAssumption == MaxTools \in Nat

\* A reference is somewhere in its version; only a discriminator's target may be a
\* bare name, and 2.0 has no path item that is a reference.
ASSUME InputsAssumption ==
    \A in \in Inputs :
        /\ in.version \in Versions /\ IsPlace(in.site) /\ InGrammar(in.site, in.version)
        /\ in.text \in {"Odd", "OddText"}
        /\ {in.bare, in.present, in.neighbour, in.empty} \subseteq BOOLEAN
        /\ in.bare => Kind(in.site) = "Target"
        /\ in.version = 20 => Kind(in.site) # "PathItem"
        /\ in.host \in IF in.site[1] = <<"Document", "schemas">> THEN {"used", "unused"} ELSE {"none"}

VARIABLES
    version,        \* 20, 30, 31 or 32
    site,           \* where the reference is
    ref,            \* [state, family, bare, text]
    defined,        \* name |-> component, in the section ref points into
    host,           \* H: "none", "unused", "used" or "pruned"
    empty,          \* the path item around site has no operation
    todo,           \* the steps of the fixer's pipeline that are left
    fixed,          \* steps of the last pipeline, if nothing ran after it
    reported,       \* a conversion said that the reference is lost
    verdict,        \* of the validator: "none", "valid" or "dangling"
    meant,          \* history: what the reference means, "none" if nothing
    trusted,        \* history: no tool met what it is known to pass over
    tools           \* how many ran

vars == <<version, site, ref, defined, host, empty, todo, fixed, reported, verdict,
          meant, trusted, tools>>

\* A component more, or another under a name that is taken.
With(d, n, c) == [m \in DOMAIN d \cup {n} |-> IF m = n THEN c ELSE d[m]]

Components == {"T", "N", "L", "S"}

\* "Odd" needs a clean name in every version; "OddText" is its percent
\* encoding, and a name of its own that only 3.x restricts.
Clean == [Odd |-> "Fine", OddText |-> "FineText"]
Numbered == [Fine |-> "Fine2", FineText |-> "FineText2"]
Names == {"Odd", "OddText", "Joined"} \cup {Clean[n] : n \in DOMAIN Clean}
         \cup {Numbered[n] : n \in DOMAIN Numbered}
Invalid(n, v) == n = "Odd" \/ (n = "OddText" /\ v >= 30)
Decoded(text) == IF text = "OddText" THEN "Odd" ELSE text

Family(v) == IF v = 20 THEN 20 ELSE 30
Exists    == ref.state = "there"
OfSchemas == Section(Kind(site)) = "Schema"
InPool    == site[1] = <<"Document", "schemas">>

\* What a reference of that spelling denotes: the exact name first.
Denotes(text, d) ==
    IF text \in DOMAIN d THEN d[text]
    ELSE IF Decoded(text) \in DOMAIN d THEN d[Decoded(text)]
    ELSE "none"

\* What a tool may be known to pass over, alone or in combination.
Traits ==
    Steps(site) \cup {<<"own", Kind(site)>>}
    \cup (IF ref.text \notin DOMAIN defined /\ Denotes(ref.text, defined) # "none"
          THEN {<<"text", "encoded">>} ELSE {})
    \cup (IF ref.bare /\ ~InPool THEN {<<"text", "bareInline">>} ELSE {})
    \cup (IF AtWebhookParameters(site) THEN {<<"own", "WebhookParameter">>} ELSE {})

Each(S) == {{trait} : trait \in S}

\* What each tool passes over, field by field or spelling by spelling; the
\* README has the list with the code's lines.
Item     == In("MediaType", {"itemSchema", "itemEncoding", "prefixEncoding"})
Nested   == In("Encoding", {"encoding", "itemEncoding", "prefixEncoding"})
Encoded  == {<<"text", "encoded">>}
Gaps ==
    [stub    |-> Each(In("Document", {"mediaTypes"}) \cup Item \cup Nested \cup Encoded),
     rename  |-> Each(In("Document", {"mediaTypes"}) \cup In("PathItem", {"additionalOperations"})
                      \cup In("MediaType", {"encoding"}) \cup Item),
     prune   |-> Each(In("Document", {"mediaTypes"}) \cup Item \cup Nested
                      \cup {<<"text", "bareInline">>}),
     join    |-> Each(In("PathItem", {"query", "additionalOperations"}) \cup Encoded),
     promote |-> Each(In("own", {"Response"})),
     demote  |-> Each(In("own", {"Response", "PathItem", "RequestBody"})
                      \cup In("Document", {"requestBodies", "headers", "callbacks", "callbackRefs",
                                           "pathItems"})
                      \cup In("MediaType", {"encoding"}))
                 \cup {{item, <<"Operation", "default">>} : item \in Item}
                 \cup {{<<"own", "Header">>, <<"text", "encoded">>}},
     validate |-> Each(In("Parameter", {"content"}) \cup In("Header", {"content"})
                       \cup In("Operation", {"callbacks"})
                       \cup In("Document", {"callbacks", "pathItems", "mediaTypes"})
                       \cup In("MediaType", {"encoding"}) \cup Item
                       \cup In("own", {"Target", "WebhookParameter"}) \cup Encoded)]
Meets(tool) == Exists /\ \E gap \in Gaps[tool] : gap \subseteq Traits
-----------------------------------------------------------------------------
\* fixer

\* The steps, each with those before it.
Pipeline ==
    [stub |-> {}, rename |-> {"stub"}, prune |-> {"stub", "rename"},
     pruneEmpty |-> {"stub", "rename", "prune"}]

\* applyFixPipeline.
Fix(enabled) ==
    /\ todo = {} /\ tools < MaxTools /\ trusted
    /\ todo' = enabled
    /\ fixed' = enabled
    /\ tools' = tools + 1
    /\ verdict' = "none"
    /\ UNCHANGED <<version, site, ref, defined, host, empty, reported, meant, trusted>>

Step(s) == s \in todo /\ todo \cap Pipeline[s] = {} /\ todo' = todo \ {s}

\* A local reference the collector finds and whose name is no key gets a stub
\* under the name it spells; no decoding is tried.
Stubbed ==
    /\ Exists /\ ~ref.bare /\ ref.family = Family(version)
    /\ Kind(site) \in {"Schema", "Target", "Response"}
    /\ Reaches(Collected[version], site)
    /\ ref.text \notin DOMAIN defined

StubMissingRefs ==
    /\ Step("stub")
    /\ defined' = IF Stubbed THEN With(defined, ref.text, "S") ELSE defined
    /\ meant' = IF Stubbed /\ meant = "none" THEN "S" ELSE meant
    /\ trusted' = (trusted /\ ~(ref.text \notin DOMAIN defined /\ Meets("stub")))
    /\ UNCHANGED <<version, site, ref, host, empty, fixed, reported, verdict, tools>>

\* resolveNameCollision.
NewName(n) == IF Clean[n] \in DOMAIN defined THEN Numbered[Clean[n]] ELSE Clean[n]

\* lookupRenamedRef and lookupRenamedMappingValue: exact spelling, then decoded.
RenamedText(text, names) ==
    IF text \in names THEN NewName(text)
    ELSE IF Decoded(text) \in names THEN NewName(Decoded(text))
    ELSE text

RenameInvalidSchemas ==
    /\ Step("rename")
    /\ LET names == IF OfSchemas THEN {n \in DOMAIN defined : Invalid(n, version)} ELSE {}
           moved == {NewName(n) : n \in names}
       IN /\ defined' = [m \in moved \cup (DOMAIN defined \ names) |->
                            IF m \in moved THEN defined[CHOOSE n \in names : NewName(n) = m]
                            ELSE defined[m]]
          /\ ref' = IF Exists /\ Reaches(Renamed[version], site)
                    THEN [ref EXCEPT !.text = RenamedText(ref.text, names)] ELSE ref
          /\ trusted' = (trusted /\ ~(names # {} /\ Meets("rename")))
    /\ UNCHANGED <<version, site, host, empty, fixed, reported, verdict, meant, tools>>

\* appendSchemaNames: every spelling of a name that is a key.
Spelled(text) == {text, Decoded(text)} \cap DOMAIN defined

\* Mutant: references between schemas count as use.
EntryPointAnywhere == Exists /\ Reaches(Collected[version], site)

\* The references buildReferencedSchemaSet starts from: one whose origins are
\* all in the pool is left to the search, and a bare name is not recognised.
EntryPoint ==
    Exists /\ ~InPool /\ ~ref.bare /\ Reaches(Collected[version], site)

\* N and L are used from places every tool visits.
Referenced ==
    {n \in DOMAIN defined : defined[n] \in {"N", "L"}}
    \cup (IF EntryPoint THEN Spelled(ref.text) ELSE {})
    \cup (IF Exists /\ InPool /\ host = "used"
             /\ Steps(site) \subseteq {<<"Document", "schemas">>} \cup Followed
          THEN Spelled(ref.text) ELSE {})

PruneUnusedSchemas ==
    /\ Step("prune")
    /\ defined' = IF OfSchemas THEN [n \in Referenced |-> defined[n]] ELSE defined
    /\ host' = IF host = "unused" THEN "pruned" ELSE host
    /\ ref' = IF host = "unused" THEN [ref EXCEPT !.state = "removed"] ELSE ref
    /\ trusted' = (trusted /\ ~(OfSchemas /\ Meets("prune")))
    /\ UNCHANGED <<version, site, empty, fixed, reported, verdict, meant, tools>>

\* pruneEmptyPaths: paths only, not webhooks.
PruneEmptyPaths ==
    /\ Step("pruneEmpty")
    /\ ref' = IF empty THEN [ref EXCEPT !.state = "removed"] ELSE ref
    /\ UNCHANGED <<version, site, defined, host, empty, fixed, reported, verdict,
                   meant, trusted, tools>>
-----------------------------------------------------------------------------
Tool ==
    /\ todo = {} /\ tools < MaxTools /\ trusted
    /\ tools' = tools + 1
    /\ todo' = {}
    /\ fixed' = {}

\* joiner: the schema of a document joined before has T's name, so T moves.
Join ==
    /\ Tool
    /\ OfSchemas /\ "L" \notin Range(defined)
    /\ \E n \in DOMAIN defined :
          /\ defined[n] = "T" /\ n # "Joined"
          /\ defined' = With(With(defined, n, "L"), "Joined", "T")
          /\ ref' = IF Exists /\ ref.text = n /\ Reaches(Rewritten[version], site)
                    THEN [ref EXCEPT !.text = "Joined"] ELSE ref
    /\ verdict' = "none"
    /\ trusted' = (trusted /\ ~Meets("join"))
    /\ UNCHANGED <<version, site, host, empty, reported, meant>>

Lost == [ref EXCEPT !.state = "lost"]

\* converter, 2.0 to 3.x.  rewriteAllRefsOAS2ToOAS3 ends it.
Promote(target) ==
    /\ Tool
    /\ version = 20 /\ target > 20
    /\ version' = target
    /\ IF ~Exists THEN UNCHANGED <<ref, site>>
       ELSE IF Promoted(site)
            THEN site' = PromotedPlace(site)
                 /\ ref' = [ref EXCEPT !.family = 30]
            ELSE ref' = Lost /\ UNCHANGED site
    /\ trusted' = (trusted /\ (ref'.state = "there" => InGrammar(site', target)) /\ ~Meets("promote"))
    /\ verdict' = "none"
    /\ UNCHANGED <<defined, host, empty, reported, meant>>

\* Response headers are resolved against the source before they are copied, by
\* the text of the reference as it is: resolveHeaderRef decodes nothing.
Inlines(path) == Kind(path) = "Header" /\ ref.text \in DOMAIN defined

\* converter, 3.x to 2.0.
Demote ==
    /\ Tool
    /\ version > 20
    /\ version' = 20
    /\ IF ~Exists THEN UNCHANGED <<ref, site, reported>>
       ELSE IF ~Demoted(site)
            THEN ref' = Lost /\ reported' = DemotionReported(site) /\ UNCHANGED site
            ELSE /\ site' = DemotedPlace(site)
                 /\ ref' = IF Inlines(site) THEN [ref EXCEPT !.state = "inlined"]
                           ELSE IF Kind(site) = "Header" THEN ref
                           ELSE [ref EXCEPT !.family = 20]
                 /\ UNCHANGED reported
    /\ trusted' = (trusted /\ (ref'.state = "there" => InGrammar(site', 20)) /\ ~Meets("demote"))
    /\ verdict' = "none"
    /\ UNCHANGED <<defined, host, empty, meant>>

\* converter, between versions of 3.x: a copy under the new version.
Restamp(target) ==
    /\ Tool
    /\ version > 20 /\ target > 20 /\ target # version
    /\ version' = target
    /\ trusted' = (trusted /\ InGrammar(site, target))
    /\ verdict' = "none"
    /\ UNCHANGED <<site, ref, defined, host, empty, reported, meant>>

\* validator: the text must be one of the references the components' names make.
Resolves == ref.text \in DOMAIN defined /\ ref.family = Family(version)
Validate ==
    /\ Tool
    /\ verdict' = IF Exists /\ ~ref.bare /\ Checked(version, site) /\ ~Resolves
                  THEN "dangling" ELSE "valid"
    /\ UNCHANGED <<version, site, ref, defined, host, empty, reported, meant, trusted>>
-----------------------------------------------------------------------------
Init ==
    /\ \E in \in Inputs :
          /\ version = in.version
          /\ site = in.site
          /\ ref = [state |-> "there", family |-> Family(in.version), bare |-> in.bare,
                    text |-> in.text]
          /\ defined = [n \in (IF in.present THEN {Decoded(in.text)} ELSE {})
                                \cup (IF in.neighbour THEN {"Fine"} ELSE {}) |->
                            IF n = "Fine" THEN "N" ELSE "T"]
          /\ host = in.host
          /\ empty = in.empty
          /\ meant = IF in.present THEN "T" ELSE "none"
    /\ todo = {} /\ fixed = {} /\ tools = 0
    /\ reported = FALSE /\ verdict = "none" /\ trusted = TRUE

Next ==
    \/ \E enabled \in SUBSET DOMAIN Pipeline \ {{}} : Fix(enabled)
    \/ StubMissingRefs \/ RenameInvalidSchemas \/ PruneUnusedSchemas \/ PruneEmptyPaths
    \/ Join
    \/ \E target \in {30, 31, 32} : Promote(target) \/ Restamp(target)
    \/ Demote
    \/ Validate

Spec == Init /\ [][Next]_vars
-----------------------------------------------------------------------------
(* Types of the variables.                                                 *)
TypeOK ==
    /\ version \in Versions
    /\ ref \in [state : {"there", "removed", "lost", "inlined"}, family : {20, 30},
                bare : BOOLEAN, text : Names]
    /\ DOMAIN defined \subseteq Names /\ defined \in [DOMAIN defined -> Components]
    /\ IsPlace(site)
    /\ host \in {"none", "unused", "used", "pruned"}
    /\ empty \in BOOLEAN /\ reported \in BOOLEAN /\ trusted \in BOOLEAN
    /\ todo \subseteq fixed /\ fixed \subseteq DOMAIN Pipeline
    /\ verdict \in {"none", "valid", "dangling"}
    /\ meant \in Components \cup {"none"}
    /\ tools \in 0..MaxTools

\* A reference finds, in the document as it is now, the component it was
\* written for, whatever sequence of fixes, joins and conversions ran on it.
ReferenceKeepsMeaning ==
    trusted /\ Exists /\ meant # "none" =>
        /\ Denotes(ref.text, defined) = meant
        /\ ref.bare \/ ref.family = Family(version)

\* A conversion that drops a reference says so.
NothingLostSilently == trusted /\ ref.state = "lost" => reported

\* After a pipeline that pruned, every schema left is used: N, L, and what
\* the reference denotes if it is itself in use.  Without pruneEmpty, which
\* comes after it and can take the last use away.
FixLeavesUsed ==
    trusted /\ todo = {} /\ "prune" \in fixed /\ "pruneEmpty" \notin fixed /\ OfSchemas =>
        \A n \in DOMAIN defined :
            \/ defined[n] \in {"N", "L"}
            \/ Exists /\ n \in Spelled(ref.text)

\* The validator reports a reference exactly when it denotes nothing.
ValidatorAgrees ==
    verdict # "none" /\ Exists /\ ~Meets("validate") =>
        (verdict = "dangling" <=>
            Denotes(ref.text, defined) = "none" \/ ref.family # Family(version))
=============================================================================
