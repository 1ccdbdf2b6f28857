-------------------------- MODULE CatalogRequests --------------------------
(***************************************************************************)
(* What a visitor asks of the catalog while administrators change it:      *)
(*   resolvePublicCatalogVersion      catalog/resolutionService.js         *)
(*   loadSealedCatalogVersionContent  catalog/sealingService.js            *)
(*   orchestrateCatalogRequest        catalog/requestService.js            *)
(*   orchestrateCatalogCalculation    catalog/calculationService.js        *)
(* A request resolves the version for its day in one snapshot, and loads   *)
(* it in another: anything may be committed in between.  A visitor first   *)
(* sees a configuration, and later has an order calculated with it.  The   *)
(* projection of the content is StoreCalcContent's.                        *)
(***************************************************************************)
EXTENDS CatalogStore, StoreCalcContent

CONSTANTS
    Rows,               \* the rows of each content
    EffectiveDate,      \* source_effective_date of each version
    Days                \* the days a visitor may ask for

\* Each content as it is sealed, and as what is loaded is projected.
Canonical == [content \in Contents |-> SealCatalogVersionContent(Rows[content])]

Projection ==
    [content \in {c \in Contents : Canonical[c] # Null} |->
        ProjectCatalogVersionContent(Canonical[content].body)]

\* No content has a key that content.js accepts and core.js refuses.
EngineReadsTheKeys ==
    \A content \in Contents :
        (KeysOf(Rows[content].items) \union KeysOf(Rows[content].buckets))
            \intersect IdentityOnlyKeys = {}

\* Hashes are free of collisions.
ASSUME CatalogRequestsAssumption ==
    /\ Days \subseteq Nat
    /\ \A c \in Contents : WellFormedCatalog(Rows[c])
    /\ \A c, d \in Contents :
          /\ ContentHash[c] = None <=> Canonical[c] = Null
          /\ ContentHash[c] = ContentHash[d] <=> Canonical[c] = Canonical[d]
    /\ EffectiveDate \in [Versions -> Days \union {None}]

VARIABLE
    visitor     \* the request in progress and what the visitor saw before

requestVars == <<vars, visitor>>

-----------------------------------------------------------------------------
(* RESOLVE_SQL.                                                            *)

AssignmentHolds(a, day) == assignment[a].supported /\ Covers(assignment[a], day)

OpenClaims(day) ==
    {c \in DOMAIN claims :
        /\ claims[c].claim.state = "supported"
        /\ claims[c].ended = None
        /\ Covers(claims[c].claim, day)
        /\ AssignmentHolds(claims[c].claim.assignment, day)}

Candidates(day) ==
    {c \in OpenClaims(day) :
        LET v == TargetVersion(claims[c].target)
        IN /\ Active
           /\ Sealed(v)
           /\ EffectiveDate[v] = None \/ EffectiveDate[v] <= day}

\* normalizeCapabilities: the capabilities of the header.
CapabilitiesSupported(v) == ToSet(Rows[version[v].content].capabilities) \subseteq EngineCapabilities

Lineage(c) ==
    [applicability |-> c, target |-> claims[c].target, version |-> TargetVersion(claims[c].target)]

\* resolvePublicCatalogVersion.
Resolution(day) ==
    LET candidates == Candidates(day)
        c == CHOOSE candidate \in candidates : TRUE
    IN IF schema # 9 THEN [state |-> "SCHEMA_CAPABILITY_UNSUPPORTED"]
       ELSE IF candidates = {} THEN [state |-> "unavailable"]
       ELSE IF Cardinality(candidates) > 1 THEN [state |-> "CATALOG_RESOLUTION_AMBIGUOUS"]
       ELSE IF ~CapabilitiesSupported(Lineage(c).version)
       THEN [state |-> "CATALOG_CAPABILITY_UNSUPPORTED"]
       ELSE [state |-> "resolved", lineage |-> Lineage(c),
             hash |-> version[Lineage(c).version].hash]

-----------------------------------------------------------------------------
(* loadSealedCatalogVersionContent and what is made of it.                 *)

\* The content of a version, or why it is not loaded.
Loaded(v, hash) ==
    IF migrating THEN [state |-> "MIGRATION_LOCK_UNAVAILABLE"]
    ELSE IF schema # 9 THEN [state |-> "SCHEMA_CAPABILITY_UNSUPPORTED"]
    ELSE IF ~Sealed(v) THEN [state |-> "VERSION_NOT_SEALED"]
    ELSE IF version[v].hash # hash THEN [state |-> "VERSION_SEALED_HASH_STATE_INVALID"]
    ELSE IF ContentHash[version[v].content] = None THEN [state |-> "CATALOG_CONTENT_INVALID"]
    ELSE IF ContentHash[version[v].content] # hash THEN [state |-> "CATALOG_CONTENT_HASH_MISMATCH"]
    ELSE [state |-> "loaded", content |-> version[v].content]

\* configurationKeyFrom.
ConfigurationKey(resolution) == <<resolution.lineage, resolution.hash>>

\* The hash of a projected configuration, by the first content that has it.
ProjectedHash(content) ==
    CHOOSE c \in DOMAIN Projection :
        Projection[c].state = "projected" /\ Projection[c] = Projection[content]

\* orchestrateCatalogRequest after the resolution.
Configured(resolution) ==
    LET loaded == Loaded(resolution.lineage.version, resolution.hash)
    IN IF loaded.state # "loaded" THEN [state |-> loaded.state]
       ELSE IF Projection[loaded.content].state = "failed"
       THEN [state |-> Projection[loaded.content].code]
       ELSE [state |-> "configured",
             hash |-> <<ConfigurationKey(resolution), ProjectedHash(loaded.content)>>]

-----------------------------------------------------------------------------
(* The visitor.  seen is the configuration the visitor was shown, None     *)
(* before; a request with one is a calculation.                            *)

NotAsked == [step |-> "idle", seen |-> None]

\* The visitor asks, for a calculation about the day of what was seen.
Resolve(day) ==
    /\ visitor.step = "idle"
    /\ visitor.seen # None => day = visitor.seen.day
    /\ LET resolution == Resolution(day)
       IN visitor' = IF resolution.state = "resolved"
                     THEN [step |-> "resolved", seen |-> visitor.seen, day |-> day,
                           resolution |-> resolution]
                     ELSE [step |-> "answered", seen |-> visitor.seen, answer |-> resolution.state]
    /\ UNCHANGED vars

\* Mutant of Answered: the configuration is not compared with the one that was seen.
StaleAnswered(seen, configured) ==
    IF configured.state = "configured" THEN "calculated" ELSE configured.state

\* normalizeCatalogResult: what a calculation answers.
Answered(seen, configured) ==
    IF configured.state # "configured" THEN configured.state
    ELSE IF configured.hash # seen.hash THEN "CONFIGURATION_STALE"
    ELSE "calculated"

Load ==
    /\ visitor.step = "resolved"
    /\ \E configured \in {Configured(visitor.resolution)} :
          visitor' =
            IF visitor.seen # None
            THEN [step |-> "answered", seen |-> visitor.seen,
                  answer |-> Answered(visitor.seen, configured),
                  resolution |-> visitor.resolution]
            ELSE IF configured.state = "configured"
            THEN [step |-> "idle",
                  seen |-> [day |-> visitor.day, resolution |-> visitor.resolution,
                            hash |-> configured.hash]]
            ELSE [step |-> "answered", seen |-> None, answer |-> configured.state,
                  resolution |-> visitor.resolution]
    /\ UNCHANGED vars

Leave ==
    /\ visitor.step = "answered"
    /\ visitor' = NotAsked
    /\ UNCHANGED vars

RequestInit == Init /\ visitor = NotAsked

\* A whole transaction of an administrator, of which a visitor sees only that
\* it is committed: its timestamp may be older than what others committed.
Administer(task) ==
    /\ ~migrating
    /\ TopologyFree
    /\ Allowed(task)
    /\ \E time \in 0..clock :
          Write(task, IF task.kind = "seal" THEN version[task.version].content ELSE None, time)
    /\ UNCHANGED <<assignment, status, schema, migrating, clock, session, visitor>>

RequestNext ==
    \/ \E task \in Tasks : Administer(task)
    \/ Next /\ UNCHANGED visitor
    \/ \E day \in Days : Resolve(day)
    \/ Load
    \/ Leave

RequestSpec == RequestInit /\ [][RequestNext]_requestVars

-----------------------------------------------------------------------------
(* Properties.                                                             *)

\* resolutionService.js:23: no day ever has two candidates, whatever was
\* published, claimed, closed, withdrawn, rescheduled or supported again before,
\* also when assignments that share days kept their open claims meanwhile.
ResolutionIsUnambiguous == \A day \in Days : Cardinality(Candidates(day)) <= 1

Outcomes ==
    IF visitor.step = "answered" THEN {visitor.answer} ELSE {}

\* requestService.js:483: what was resolved can be loaded, however long the
\* load waited: it is refused only while a migration runs, or because an item
\* of the version has no tax rule.
ResolvedCanBeLoaded ==
    visitor.step = "answered" /\ "resolution" \in DOMAIN visitor =>
        visitor.answer \in
            {"calculated", "CONFIGURATION_STALE", "MIGRATION_LOCK_UNAVAILABLE",
             "CATALOG_TAX_TREATMENT_MISSING"}

\* calculationService.js:241: an order is calculated with the claim, the
\* version and the content that the visitor was shown, or not at all.
CalculatedAsShown ==
    Outcomes = {"calculated"} =>
        visitor.seen.resolution = visitor.resolution

\* requestService.js:376: a visitor is sent back as stale only when another
\* claim holds now, never because a newer version was published or a claim
\* for other days was closed.
StaleMeansReplaced ==
    Outcomes = {"CONFIGURATION_STALE"} =>
        visitor.resolution.lineage.applicability # visitor.seen.resolution.lineage.applicability

\* A visitor who calculates gets the result of what he saw, and is refused
\* only when that has been replaced.
AnsweredAsShown == CalculatedAsShown /\ StaleMeansReplaced

=============================================================================
