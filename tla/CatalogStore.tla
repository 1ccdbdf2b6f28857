---------------------------- MODULE CatalogStore ----------------------------
(***************************************************************************)
(* The catalog tables of StoreCalc and the transactions that change them:  *)
(*   sealCatalogVersion              src/storecalc/catalog/sealingService  *)
(*   publishCatalogVersion           .../publicationService.js             *)
(*   transitionCatalogApplicability  .../applicabilityService.js           *)
(* with the checks of the database (migrations 0003, 0005, 0006 and 0012)  *)
(* and what administrators change by statements of their own: drafts, the  *)
(* status of template and program, the assignments, the schema.            *)
(*                                                                         *)
(* There is one template of one program, at one facility, for one audience.*)
(* A transaction has three steps: BEGIN, which fixes                       *)
(* transaction_timestamp() before any lock is waited for; the locks, the   *)
(* reads and the checks of the service; the writes with the checks of the  *)
(* database, and COMMIT.                                                   *)
(* Ids are positions.  Actors, reasons and lifecycle generations (1 while  *)
(* open, 2 once closed) are left out, as are checks of the types a query   *)
(* returns.                                                                *)
(***************************************************************************)
EXTENDS Integers, Sequences, FiniteSets

CONSTANTS
    None,               \* null
    Versions,           \* the versions of the template
    Contents,           \* what a version may contain
    ContentHash,        \* the hash of a content, None where it does not seal
    Assignments,        \* the assignments of the program to the facility
    Schedules,          \* the dates an assignment may be given: [from, through]
    Claims,             \* what may be claimed: [assignment, from, through, state]
    Sessions,           \* the connections of administrators
    Statuses,           \* bound: the statuses template and program may have
    MaxTime,            \* bound: the last transaction timestamp
    MaxPublications,    \* bound: publications
    MaxClaims           \* bound: applicability rows

ASSUME CatalogStoreAssumption ==
    /\ MaxTime \in Nat
    /\ None \notin Nat \union Versions \union Contents
    /\ ContentHash \in [Contents -> {ContentHash[c] : c \in Contents}]
    /\ Schedules \subseteq [from : Nat \union {None}, through : Nat \union {None}]
    /\ Claims \subseteq [assignment : Assignments, from : Nat \union {None},
                         through : Nat \union {None}, state : {"supported", "disputed"}]
    /\ Statuses \subseteq [template : {"draft", "active", "closed"},
                           program : {"active", "closed"}]

VARIABLES
    version,        \* template_versions and the rows of each version
    publications,   \* template_publications
    claims,         \* assignment_template_applicability
    assignment,     \* program_facility_assignments
    status,         \* the status of the template and of its program; what is
                    \* neither draft nor active (inactive, withdrawn, archived)
                    \* is closed, and a program that is not active is
    schema,         \* schema_version of the capability anonymous.calculation
    migrating,      \* a migration holds the advisory lock
    clock,          \* the time
    session         \* what each connection does

vars == <<version, publications, claims, assignment, status, schema, migrating, clock, session>>

Dates == Nat \union {None}

Overlaps(r, s) ==
    /\ r.from = None \/ s.through = None \/ r.from <= s.through
    /\ s.from = None \/ r.through = None \/ s.from <= r.through

Covers(r, day) ==
    /\ r.from = None \/ r.from <= day
    /\ r.through = None \/ day <= r.through

Within(r, outer) ==
    /\ outer.from # None => r.from # None /\ outer.from <= r.from
    /\ outer.through # None => r.through # None /\ r.through <= outer.through

Sealed(v) == version[v].state = "sealed"

CurrentPublications == {p \in DOMAIN publications : publications[p].ended = None}

\* LOCK TABLE template_versions, the first lock of every service.
Holding(s) == session[s].step = "checked"

TopologyFree == \A s \in Sessions : ~Holding(s)

\* LOCK TABLE program_facility_assignments, which sealing does not take.
AssignmentsFree == \A s \in Sessions : Holding(s) => session[s].task.kind = "seal"

\* What publishing, applying and resolving ask of the parents.
Active == status.template = "active" /\ status.program = "active"

\* What sealing and every change of a draft ask of the template.
Open == status.template # "closed"

-----------------------------------------------------------------------------
(* The transactions of the services.                                       *)

SealTasks == [kind : {"seal"}, version : Versions]

PublishTasks ==
    [kind : {"publish"}, version : Versions, expected : DOMAIN publications \union {None}]

Targets ==
    [mode : {"exact_version"}, id : Versions] \union [mode : {"publication"}, id : DOMAIN publications]

ApplyTasks ==
    [kind : {"apply"}, claim : Claims, target : Targets, replaces : DOMAIN claims \union {None}]

Tasks == SealTasks \union PublishTasks \union ApplyTasks

Idle == [step |-> "idle"]

Begin(s, task) ==
    /\ session[s] = Idle
    /\ session' = [session EXCEPT ![s] =
                      [step |-> "begun", task |-> task, time |-> clock, rows |-> None]]
    /\ UNCHANGED <<version, publications, claims, assignment, status, schema, migrating, clock>>

\* normalizeHeader and sealCanonicalContent.
MaySeal(task) ==
    /\ schema = 8
    /\ ~Sealed(task.version)
    /\ Open
    /\ ContentHash[version[task.version].content] # None

\* normalizeState of publicationService.js.
MayPublish(task) ==
    /\ schema = 9
    /\ Sealed(task.version)
    /\ Active
    /\ CurrentPublications = {task.expected} \ {None}
    /\ \A p \in CurrentPublications : publications[p].version # task.version

TargetVersion(target) ==
    IF target.mode = "exact_version" THEN target.id ELSE publications[target.id].version

\* normalizeReplacement: an open claim of the same assignment that differs.
MayReplace(task) ==
    task.replaces # None =>
        LET old == claims[task.replaces]
        IN /\ old.ended = None
           /\ old.claim.assignment = task.claim.assignment
           /\ <<old.claim, old.target>> # <<task.claim, task.target>>

\* normalizeState of applicabilityService.js.
MayApply(task) ==
    LET assigned == assignment[task.claim.assignment]
    IN /\ schema = 9
       /\ Active
       /\ assigned.supported
       /\ Within(task.claim, assigned)
       /\ Sealed(TargetVersion(task.target))
       /\ MayReplace(task)

Allowed(task) ==
    CASE task.kind = "seal" -> MaySeal(task)
      [] task.kind = "publish" -> MayPublish(task)
      [] task.kind = "apply" -> MayApply(task)

\* The shared advisory lock, the lock of the topology, and under them the
\* reads and checks of the service.
LockAndCheck(s) ==
    LET task == session[s].task
    IN /\ session[s].step = "begun"
       /\ ~migrating
       /\ TopologyFree
       /\ Allowed(task)
       /\ session' = [session EXCEPT
              ![s].step = "checked",
              ![s].rows = IF task.kind = "seal" THEN version[task.version].content ELSE None]
       /\ UNCHANGED <<version, publications, claims, assignment, status, schema, migrating, clock>>

\* A failed check, a lock or statement timeout, a lost connection.
RollBack(s) ==
    /\ session[s] # Idle
    /\ session' = [session EXCEPT ![s] = Idle]
    /\ UNCHANGED <<version, publications, claims, assignment, status, schema, migrating, clock>>

-----------------------------------------------------------------------------
(* The writes, with the checks of the database, and COMMIT.                *)

\* SEAL_SQL and the triggers of template_versions.
WriteSeal(task, rows) ==
    /\ ~Sealed(task.version)
    /\ Open
    /\ version' = [version EXCEPT ![task.version].state = "sealed",
                                  ![task.version].hash = ContentHash[rows]]
    /\ UNCHANGED <<publications, claims>>

\* CLOSE_SQL.
ClosedPublications(task, time) ==
    IF task.expected = None THEN publications
    ELSE [publications EXCEPT ![task.expected].ended = time]

\* Mutant of PublicationAccepted: intervals may overlap.
IntervalsUnchecked(task, time) ==
    /\ Sealed(task.version)
    /\ Active

\* assert_template_publication_coherent and the CHECK constraints.
PublicationAccepted(task, time) ==
    /\ Sealed(task.version)
    /\ Active
    /\ task.expected # None =>
          publications[task.expected].ended = None /\ publications[task.expected].started < time
    /\ \A p \in DOMAIN publications :
          LET old == ClosedPublications(task, time)[p]
          IN old.ended # None /\ old.ended <= time

WritePublication(task, time) ==
    /\ Len(publications) < MaxPublications
    /\ PublicationAccepted(task, time)
    /\ publications' = Append(ClosedPublications(task, time),
           [version |-> task.version, started |-> time, ended |-> None,
            replaced |-> task.expected])
    /\ UNCHANGED <<version, claims>>

ClosedClaims(task, time) ==
    IF task.replaces = None THEN claims ELSE [claims EXCEPT ![task.replaces].ended = time]

\* Mutant of ClaimAccepted: only the rows that are still open are compared.
ClosedRowsIgnored(task, time) ==
    /\ Active
    /\ assignment[task.claim.assignment].supported
    /\ Within(task.claim, assignment[task.claim.assignment])
    /\ Sealed(TargetVersion(task.target))
    /\ task.replaces # None => claims[task.replaces].ended = None
    /\ \A c \in DOMAIN claims :
          LET old == ClosedClaims(task, time)[c]
          IN /\ old.claim.assignment = task.claim.assignment
             /\ old.ended = None
             => ~Overlaps(old.claim, task.claim)

\* assert_assignment_template_applicability_coherent and the CHECK constraints.
ClaimAccepted(task, time) ==
    /\ Active
    /\ assignment[task.claim.assignment].supported
    /\ Within(task.claim, assignment[task.claim.assignment])
    /\ Sealed(TargetVersion(task.target))
    /\ task.replaces # None =>
          claims[task.replaces].ended = None /\ claims[task.replaces].recorded < time
    /\ \A c \in DOMAIN claims :
          LET old == ClosedClaims(task, time)[c]
          IN /\ old.claim.assignment = task.claim.assignment
             /\ old.ended = None \/ old.ended > time
             => ~Overlaps(old.claim, task.claim)

WriteClaim(task, time) ==
    /\ Len(claims) < MaxClaims
    /\ ClaimAccepted(task, time)
    /\ claims' = Append(ClosedClaims(task, time),
           [claim |-> task.claim, target |-> task.target, recorded |-> time, ended |-> None])
    /\ UNCHANGED <<version, publications>>

Write(task, rows, time) ==
    \/ task.kind = "seal" /\ WriteSeal(task, rows)
    \/ task.kind = "publish" /\ WritePublication(task, time)
    \/ task.kind = "apply" /\ WriteClaim(task, time)

Commit(s) ==
    /\ session[s].step = "checked"
    /\ Write(session[s].task, session[s].rows, session[s].time)
    /\ session' = [session EXCEPT ![s] = Idle]
    /\ UNCHANGED <<assignment, status, schema, migrating, clock>>

-----------------------------------------------------------------------------
(* Statements of administrators, each a transaction of its own.            *)

\* Mutant of Edit: the statement does not wait for the topology.
EditsWhileSealed(v, content) ==
    /\ Open
    /\ ~Sealed(v)
    /\ version' = [version EXCEPT ![v].content = content]
    /\ UNCHANGED <<publications, claims, assignment, status, schema, migrating, clock, session>>

\* Mutant of Edit: assert_version_content_mutable lets sealed rows change.
EditsSealedRows(v, content) ==
    /\ TopologyFree
    /\ Open
    /\ version' = [version EXCEPT ![v].content = content]
    /\ UNCHANGED <<publications, claims, assignment, status, schema, migrating, clock, session>>

\* A change of the rows of a version: lock_template_version_topology and
\* assert_version_content_mutable.
Edit(v, content) ==
    /\ TopologyFree
    /\ Open
    /\ ~Sealed(v)
    /\ version' = [version EXCEPT ![v].content = content]
    /\ UNCHANGED <<publications, claims, assignment, status, schema, migrating, clock, session>>

\* Mutant of SetTemplateStatus: the statement does not wait for the topology.
TemplateStatusAtOnce(value) ==
    /\ [status EXCEPT !.template = value] \in Statuses
    /\ status' = [status EXCEPT !.template = value]
    /\ UNCHANGED <<version, publications, claims, assignment, schema, migrating, clock, session>>

\* An UPDATE of templates: lock_template_version_topology.
SetTemplateStatus(value) ==
    /\ TopologyFree
    /\ [status EXCEPT !.template = value] \in Statuses
    /\ status' = [status EXCEPT !.template = value]
    /\ UNCHANGED <<version, publications, claims, assignment, schema, migrating, clock, session>>

\* An UPDATE of store_programs: lock_program_assignment_topology.
SetProgramStatus(value) ==
    /\ AssignmentsFree
    /\ [status EXCEPT !.program = value] \in Statuses
    /\ status' = [status EXCEPT !.program = value]
    /\ UNCHANGED <<version, publications, claims, assignment, schema, migrating, clock, session>>

\* Mutant of AssignmentAccepted: an assignment that comes back is not compared.
ReinstatedUnchecked(a, row) ==
    row.supported /\ assignment[a].supported =>
        \A b \in Assignments \ {a} : assignment[b].supported => ~Overlaps(assignment[b], row)

\* assert_program_assignment_coherent: supported assignments do not overlap.
AssignmentAccepted(a, row) ==
    row.supported =>
        \A b \in Assignments \ {a} : assignment[b].supported => ~Overlaps(assignment[b], row)

\* An UPDATE of program_facility_assignments.  Before schema 9 its triggers take
\* one lock, which sealing leaves free; from then on those of all the catalog,
\* when there is no sealing any more.
ChangeAssignment(a, row) ==
    /\ AssignmentsFree
    /\ AssignmentAccepted(a, row)
    /\ assignment' = [assignment EXCEPT ![a] = row]
    /\ UNCHANGED <<version, publications, claims, status, schema, migrating, clock, session>>

Support(a) == ChangeAssignment(a, [assignment[a] EXCEPT !.supported = TRUE])

\* Back to draft, disputed, withdrawn or retired: none of them is final.
Withdraw(a) == ChangeAssignment(a, [assignment[a] EXCEPT !.supported = FALSE])

Reschedule(a, dates) ==
    ChangeAssignment(a, [assignment[a] EXCEPT !.from = dates.from, !.through = dates.through])

\* Migration 0012 takes the advisory lock exclusively.
StartMigration ==
    /\ schema = 8
    /\ ~migrating
    /\ TopologyFree
    /\ migrating' = TRUE
    /\ UNCHANGED <<version, publications, claims, assignment, status, schema, clock, session>>

EndMigration(reached) ==
    /\ migrating
    /\ migrating' = FALSE
    /\ schema' = reached
    /\ UNCHANGED <<version, publications, claims, assignment, status, clock, session>>

Tick ==
    /\ clock < MaxTime
    /\ clock' = clock + 1
    /\ UNCHANGED <<version, publications, claims, assignment, status, schema, migrating, session>>

-----------------------------------------------------------------------------
Init ==
    /\ version \in [Versions -> [state : {"draft"}, content : Contents, hash : {None}]]
    /\ publications = <<>>
    /\ claims = <<>>
    /\ \E dates \in [Assignments -> Schedules] :
          assignment = [a \in Assignments |->
              [from |-> dates[a].from, through |-> dates[a].through, supported |-> FALSE]]
    /\ status \in Statuses
    /\ schema = 8
    /\ migrating = FALSE
    /\ clock = 0
    /\ session = [s \in Sessions |-> Idle]

Transaction(s) ==
    \/ \E task \in Tasks : Begin(s, task)
    \/ LockAndCheck(s)
    \/ Commit(s)
    \/ RollBack(s)

Next ==
    \/ \E s \in Sessions : Transaction(s)
    \/ \E v \in Versions, content \in Contents : Edit(v, content)
    \/ \E value \in {"draft", "active", "closed"} : SetTemplateStatus(value)
    \/ \E value \in {"active", "closed"} : SetProgramStatus(value)
    \/ \E a \in Assignments : Support(a)
    \/ \E a \in Assignments : Withdraw(a)
    \/ \E a \in Assignments, dates \in Schedules : Reschedule(a, dates)
    \/ StartMigration
    \/ \E reached \in {8, 9} : EndMigration(reached)
    \/ Tick

Spec == Init /\ [][Next]_vars

-----------------------------------------------------------------------------
(* Properties.                                                             *)

VersionOK ==
    version \in [Versions -> [state : {"draft", "sealed"}, content : Contents,
                              hash : {ContentHash[c] : c \in Contents} \union {None}]]

TypeOK ==
    /\ VersionOK
    /\ \A p \in DOMAIN publications :
          publications[p].version \in Versions /\ publications[p].started \in 0..clock
    /\ \A c \in DOMAIN claims :
          claims[c].claim \in Claims /\ claims[c].recorded \in 0..clock
    /\ \A a \in Assignments : assignment[a].from \in Dates /\ assignment[a].through \in Dates
    /\ status \in Statuses
    /\ schema \in {8, 9}
    /\ clock \in 0..MaxTime

\* sealingService.js:13: the hash stored with a sealed version is the hash of
\* the rows the version has, though the rows are read in eight queries and
\* their editors wait for no transaction.
SealedHashIsOfRows ==
    \A v \in Versions :
        Sealed(v) => version[v].hash = ContentHash[version[v].content] /\ version[v].hash # None

\* publicationService.js:249: the publications of a template are a chain
\* without gap or overlap: each replaces the one that its caller knew to be
\* current, starts the moment that one ends, and only the last is open.
\* Transactions whose timestamps are older than their turn do not break it.
PublicationsAreAChain ==
    \A p \in DOMAIN publications :
        /\ publications[p].replaced = IF p = 1 THEN None ELSE p - 1
        /\ IF p = Len(publications) THEN publications[p].ended = None
           ELSE /\ publications[p].ended = publications[p + 1].started
                /\ publications[p].started < publications[p].ended

\* migrations/storecalc/0012_catalog_publication_applicability/up.sql:4275:
\* two claims about one assignment never hold for the same day at the same
\* recorded time, also when a transaction that began early writes late.
ClaimsAreDisjoint ==
    \A c, d \in DOMAIN claims :
        /\ c < d
        /\ claims[c].claim.assignment = claims[d].claim.assignment
        /\ Overlaps(claims[c].claim, claims[d].claim)
        => claims[c].ended # None /\ claims[c].ended <= claims[d].recorded

\* publicationService.js:28, sealingService.js:36: what a service checked is
\* still true when it writes.  Most of it is read from tables it neither locks
\* nor writes (templates, store_programs, the content of the version): their
\* statements wait because triggers of theirs ask for the locks it holds.
ChecksHoldUntilCommit ==
    \A s \in Sessions :
        Holding(s) =>
            /\ Allowed(session[s].task)
            /\ session[s].task.kind = "seal" =>
                  session[s].rows = version[session[s].task.version].content

=============================================================================
