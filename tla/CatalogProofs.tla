---------------------------- MODULE CatalogProofs ----------------------------
(***************************************************************************)
(* What CatalogStore and CatalogRequests promise for any number of         *)
(* versions, assignments and sessions.  Of the store: the seal covers the  *)
(* rows, publications are a chain, claims never contradict each other,     *)
(* what a service checked holds until it commits.  Of the requests: a day  *)
(* has one candidate at most, what was resolved can be loaded, and an      *)
(* order is calculated with what the visitor was shown.                    *)
(***************************************************************************)
EXTENDS CatalogRequests, StoreCalcContentProofs


-----------------------------------------------------------------------------
(* The inductive invariant of the store.                                   *)

Moments == Nat \union {None}

VersionRows ==
    [state : {"draft", "sealed"}, content : Contents,
     hash : {ContentHash[c] : c \in Contents} \union {None}]

PublicationRows ==
    [version : Versions, started : Nat, ended : Moments, replaced : Moments]

AnyTargets ==
    [mode : {"exact_version"}, id : Versions] \union [mode : {"publication"}, id : Nat]

ClaimRows == [claim : Claims, target : AnyTargets, recorded : Nat, ended : Moments]

AssignmentRows == [from : Moments, through : Moments, supported : BOOLEAN]

AnyTasks ==
    SealTasks \union [kind : {"publish"}, version : Versions, expected : Moments]
        \union [kind : {"apply"}, claim : Claims, target : AnyTargets, replaces : Moments]

Working ==
    [step : {"begun", "checked"}, task : AnyTasks, time : Nat, rows : Contents \union {None}]

Typed ==
    /\ version \in [Versions -> VersionRows]
    /\ publications \in Seq(PublicationRows)
    /\ claims \in Seq(ClaimRows)
    /\ assignment \in [Assignments -> AssignmentRows]
    /\ status \in Statuses
    /\ schema \in {8, 9}
    /\ clock \in 0..MaxTime
    /\ session \in [Sessions -> Working \union {Idle}]

\* No row and no transaction is older than its timestamp says.
PastTimes ==
    /\ \A p \in DOMAIN publications : publications[p].started <= clock
    /\ \A c \in DOMAIN claims : claims[c].recorded <= clock
    /\ \A s \in Sessions : session[s] # Idle => session[s].time <= clock

KnownTarget(target) == target.mode = "publication" => target.id \in DOMAIN publications

TargetsExist == \A c \in DOMAIN claims : KnownTarget(claims[c].target)

\* A transaction names rows that exist.
KnownRows == \A s \in Sessions : session[s] # Idle =>
    /\ session[s].task.kind = "publish" =>
          session[s].task.expected \in DOMAIN publications \union {None}
    /\ session[s].task.kind = "apply" =>
          /\ session[s].task.replaces \in DOMAIN claims \union {None}
          /\ KnownTarget(session[s].task.target)

OneHolder == \A s, t \in Sessions : Holding(s) /\ Holding(t) => s = t

\* A migration and a transaction that holds locks exclude each other.
MigratesAlone == migrating => TopologyFree

IInv ==
    /\ Typed /\ PastTimes /\ KnownRows /\ TargetsExist /\ OneHolder /\ MigratesAlone
    /\ ChecksHoldUntilCommit
    /\ SealedHashIsOfRows /\ PublicationsAreAChain /\ ClaimsAreDisjoint

-----------------------------------------------------------------------------
LEMMA IdleIsNotWorking == Idle \notin Working
  BY DEF Idle, Working

LEMMA HolderWorks ==
  ASSUME Typed, NEW s \in Sessions, Holding(s)
  PROVE  session[s] \in Working /\ session[s] # Idle
  BY DEF Typed, Holding, Idle, Working

LEMMA RowTimes ==
  ASSUME Typed
  PROVE  /\ \A p \in DOMAIN publications :
               publications[p].started \in Nat /\ publications[p].ended \in Moments
         /\ \A c \in DOMAIN claims :
               claims[c].recorded \in Nat /\ claims[c].ended \in Moments
         /\ \A s \in Sessions : session[s] # Idle => session[s].time \in Nat
  <1>1. \A p \in DOMAIN publications : publications[p] \in PublicationRows
    BY DEF Typed
  <1>2. \A c \in DOMAIN claims : claims[c] \in ClaimRows
    BY DEF Typed
  <1>3. \A s \in Sessions : session[s] # Idle => session[s] \in Working
    BY DEF Typed
  <1>4. \A p \in DOMAIN publications :
            publications[p].started \in Nat /\ publications[p].ended \in Moments
    BY <1>1 DEF PublicationRows
  <1>5. \A c \in DOMAIN claims : claims[c].recorded \in Nat /\ claims[c].ended \in Moments
    BY <1>2 DEF ClaimRows
  <1>6. \A s \in Sessions : session[s] # Idle => session[s].time \in Nat
    BY <1>3 DEF Working
  <1> QED BY <1>4, <1>5, <1>6

LEMMA AppendTyped ==
  ASSUME NEW S, NEW q \in Seq(S), NEW x \in S
  PROVE  /\ Append(q, x) \in Seq(S) /\ Len(Append(q, x)) = Len(q) + 1
         /\ \A i \in 1..Len(q) : Append(q, x)[i] = q[i]
         /\ Append(q, x)[Len(q) + 1] = x
  OBVIOUS

LEMMA TaskIsTyped ==
  ASSUME Typed, NEW task \in Tasks
  PROVE  task \in AnyTasks
  BY DEF Typed, Tasks, AnyTasks, PublishTasks, ApplyTasks, Targets, AnyTargets, Moments

LEMMA InitIInv == ASSUME Init PROVE IInv
  <1> USE CatalogStoreAssumption
  <1>1. Typed
    <2>1. assignment \in [Assignments -> AssignmentRows]
      BY DEF Init, AssignmentRows, Moments
    <2>2. version \in [Versions -> VersionRows]
      BY DEF Init, VersionRows
    <2> QED BY <2>1, <2>2 DEF Init, Typed
  <1>2. PastTimes /\ KnownRows /\ OneHolder /\ MigratesAlone /\ ChecksHoldUntilCommit
    BY DEF Init, PastTimes, KnownRows, OneHolder, MigratesAlone, ChecksHoldUntilCommit,
       Holding, Idle
  <1>3. SealedHashIsOfRows
    BY DEF Init, SealedHashIsOfRows, Sealed
  <1>4. PublicationsAreAChain /\ ClaimsAreDisjoint
    BY DEF Init, PublicationsAreAChain, ClaimsAreDisjoint
  <1>5. TargetsExist
    BY DEF Init, TargetsExist
  <1> QED BY <1>1, <1>2, <1>3, <1>4, <1>5 DEF IInv

-----------------------------------------------------------------------------
(* What a service checked.                                                 *)

ChecksHold(s) ==
    /\ Allowed(session[s].task)
    /\ session[s].task.kind = "seal" =>
          session[s].rows = version[session[s].task.version].content

LEMMA ChecksHoldOfEach ==
  /\ ChecksHoldUntilCommit <=> \A s \in Sessions : Holding(s) => ChecksHold(s)
  /\ ChecksHoldUntilCommit' <=> \A s \in Sessions : Holding(s)' => ChecksHold(s)'
  BY DEF ChecksHoldUntilCommit, ChecksHold

\* No check reads the clock, the advisory lock or a session.
LEMMA AllowedStays ==
  ASSUME NEW task, Allowed(task),
         UNCHANGED <<version, publications, claims, assignment, status, schema>>
  PROVE  Allowed(task)'
  BY DEF Allowed, MaySeal, MayPublish, MayApply, MayReplace, Sealed, Open, Active,
     CurrentPublications, TargetVersion

LEMMA ChecksStay ==
  ASSUME ChecksHoldUntilCommit, NEW s \in Sessions, Holding(s), session'[s] = session[s],
         UNCHANGED <<version, publications, claims, assignment, status, schema>>
  PROVE  ChecksHold(s)'
  BY AllowedStays DEF ChecksHoldUntilCommit, ChecksHold

\* Sealing reads neither the assignments nor the status of the program.
LEMMA SealingStays ==
  ASSUME ChecksHoldUntilCommit, NEW s \in Sessions, Holding(s),
         session[s].task.kind = "seal", session'[s] = session[s],
         UNCHANGED <<version, schema>>, status'.template = status.template
  PROVE  ChecksHold(s)'
  BY DEF ChecksHoldUntilCommit, ChecksHold, Allowed, MaySeal, Sealed, Open

-----------------------------------------------------------------------------
(* The steps that change no row of the catalog.                            *)

LEMMA BeginKeeps ==
  ASSUME IInv, NEW s \in Sessions, NEW task \in Tasks, Begin(s, task)
  PROVE  IInv'
  <1> USE CatalogStoreAssumption DEF IInv
  <1>1. session' \in [Sessions -> Working \union {Idle}] /\ session'[s].task = task
          /\ session'[s].step = "begun" /\ session'[s].time = clock
          /\ \A t \in Sessions \ {s} : session'[t] = session[t]
    BY TaskIsTyped DEF Begin, Typed, Working
  <1>2. UNCHANGED <<version, publications, claims, assignment, status, schema, clock>>
    BY DEF Begin
  <1>3. Typed'  BY <1>1, <1>2 DEF Typed
  <1>4. PastTimes'
    <2>1. clock <= clock
      BY DEF Typed
    <2> QED BY <1>1, <1>2, <2>1 DEF PastTimes
  <1>5. KnownRows'
    <2>1. /\ task.kind = "publish" => task.expected \in DOMAIN publications \union {None}
          /\ task.kind = "apply" =>
                task.replaces \in DOMAIN claims \union {None} /\ KnownTarget(task.target)
      BY DEF Tasks, SealTasks, PublishTasks, ApplyTasks, Targets, KnownTarget
    <2> QED BY <1>1, <1>2, <2>1 DEF KnownRows, KnownTarget
  <1>6. OneHolder' /\ MigratesAlone'
    BY <1>1, <1>2 DEF Begin, OneHolder, MigratesAlone, TopologyFree, Holding
  <1>8. ChecksHoldUntilCommit'
    <2> SUFFICES ASSUME NEW t \in Sessions, Holding(t)' PROVE ChecksHold(t)'
      BY ChecksHoldOfEach
    <2>1. session'[t] = session[t] /\ Holding(t)
      BY <1>1 DEF Holding
    <2> QED BY <1>2, <2>1, ChecksStay
  <1>7. TargetsExist' /\ SealedHashIsOfRows' /\ PublicationsAreAChain' /\ ClaimsAreDisjoint'
    BY <1>2 DEF TargetsExist, KnownTarget, SealedHashIsOfRows, Sealed,
       PublicationsAreAChain, ClaimsAreDisjoint
  <1> QED BY <1>3, <1>4, <1>5, <1>6, <1>7, <1>8

LEMMA LockAndCheckKeeps ==
  ASSUME IInv, NEW s \in Sessions, LockAndCheck(s)
  PROVE  IInv'
  <1> USE CatalogStoreAssumption DEF IInv
  <1> DEFINE task == session[s].task
  <1>1. session[s] \in Working /\ session[s] # Idle
    BY DEF LockAndCheck, Typed, Idle
  <1>2. /\ session'[s] \in Working
        /\ session'[s].task = task /\ session'[s].time = session[s].time
        /\ session'[s].step = "checked"
        /\ session'[s].rows = IF task.kind = "seal" THEN version[task.version].content ELSE None
        /\ session' \in [Sessions -> Working \union {Idle}]
        /\ \A t \in Sessions \ {s} : session'[t] = session[t]
    <2>1. task.kind = "seal" => version[task.version].content \in Contents
      BY <1>1 DEF Typed, Working, AnyTasks, SealTasks, VersionRows
    <2> QED BY <1>1, <2>1 DEF LockAndCheck, Typed, Working
  <1>3. UNCHANGED <<version, publications, claims, assignment, status, schema, clock>>
    BY DEF LockAndCheck
  <1>4. Typed'  BY <1>2, <1>3 DEF Typed
  <1>5. PastTimes' /\ KnownRows'
    BY <1>1, <1>2, <1>3 DEF PastTimes, KnownRows, KnownTarget
  <1>6. OneHolder' /\ MigratesAlone'
    BY <1>2 DEF OneHolder, MigratesAlone, LockAndCheck, TopologyFree, Holding
  <1>7. ChecksHoldUntilCommit'
    <2> SUFFICES ASSUME NEW t \in Sessions, Holding(t)' PROVE ChecksHold(t)'
      BY ChecksHoldOfEach
    <2>1. t = s
      BY <1>2 DEF LockAndCheck, TopologyFree, Holding
    <2>2. Allowed(session[s].task)
      BY DEF LockAndCheck
    <2>3. session'[s].task = session[s].task
      BY <1>2
    <2> QED BY <1>2, <1>3, <2>1, <2>2, <2>3, AllowedStays DEF ChecksHold
  <1>8. TargetsExist' /\ SealedHashIsOfRows' /\ PublicationsAreAChain' /\ ClaimsAreDisjoint'
    BY <1>3 DEF TargetsExist, KnownTarget, SealedHashIsOfRows, Sealed,
       PublicationsAreAChain, ClaimsAreDisjoint
  <1> QED BY <1>4, <1>5, <1>6, <1>7, <1>8

LEMMA RollBackKeeps ==
  ASSUME IInv, NEW s \in Sessions, RollBack(s)
  PROVE  IInv'
  <1> USE CatalogStoreAssumption DEF IInv
  <1>1. /\ session' \in [Sessions -> Working \union {Idle}] /\ session'[s] = Idle
        /\ \A t \in Sessions \ {s} : session'[t] = session[t]
    BY DEF RollBack, Typed
  <1>2. UNCHANGED <<version, publications, claims, assignment, status, schema, clock>>
    BY DEF RollBack
  <1>3. Typed'  BY <1>1, <1>2 DEF Typed
  <1>4. PastTimes' /\ KnownRows'  BY <1>1, <1>2 DEF PastTimes, KnownRows, KnownTarget
  <1>5. OneHolder' /\ MigratesAlone'
    BY <1>1, <1>2 DEF RollBack, OneHolder, MigratesAlone, TopologyFree, Holding, Idle
  <1>7. ChecksHoldUntilCommit'
    <2> SUFFICES ASSUME NEW t \in Sessions, Holding(t)' PROVE ChecksHold(t)'
      BY ChecksHoldOfEach
    <2>1. session'[t] = session[t] /\ Holding(t)
      BY <1>1 DEF Holding, Idle
    <2> QED BY <1>2, <2>1, ChecksStay
  <1>6. TargetsExist' /\ SealedHashIsOfRows' /\ PublicationsAreAChain' /\ ClaimsAreDisjoint'
    BY <1>2 DEF TargetsExist, KnownTarget, SealedHashIsOfRows, Sealed,
       PublicationsAreAChain, ClaimsAreDisjoint
  <1> QED BY <1>3, <1>4, <1>5, <1>6, <1>7

\* Status, schema, advisory lock and clock.
LEMMA SurroundingsKeep ==
  ASSUME IInv,
         \/ \E value \in {"draft", "active", "closed"} : SetTemplateStatus(value)
         \/ \E value \in {"active", "closed"} : SetProgramStatus(value)
         \/ StartMigration \/ (\E reached \in {8, 9} : EndMigration(reached)) \/ Tick
  PROVE  IInv'
  <1> USE CatalogStoreAssumption
          DEF IInv, SetTemplateStatus, SetProgramStatus, StartMigration, EndMigration, Tick
  <1>1. UNCHANGED <<version, publications, claims, assignment, session>>
    OBVIOUS
  <1>2. /\ status' \in Statuses /\ schema' \in {8, 9}
        /\ clock' \in 0..MaxTime /\ clock <= clock'
    <2>1. status \in Statuses /\ schema \in {8, 9} /\ clock \in 0..MaxTime
      BY DEF Typed
    <2>2. status' \in Statuses
      BY <2>1, Zenon
    <2>3. schema' \in {8, 9} /\ clock' \in 0..MaxTime /\ clock <= clock'
      BY <2>1
    <2> QED BY <2>2, <2>3
  <1>3. Typed'  BY <1>1, <1>2 DEF Typed
  <1>4. PastTimes'
    <2>1. clock \in Nat
      BY DEF Typed
    <2> QED BY RowTimes, <1>1, <1>2, <2>1 DEF PastTimes
  <1>5. KnownRows' /\ OneHolder' /\ MigratesAlone'
    BY <1>1 DEF KnownRows, KnownTarget, OneHolder, MigratesAlone, TopologyFree, Holding
  <1>7. ChecksHoldUntilCommit'
    <2> SUFFICES ASSUME NEW t \in Sessions, Holding(t) PROVE ChecksHold(t)'
      BY <1>1, ChecksHoldOfEach DEF Holding
    <2>1. CASE Tick
      BY <2>1, <1>1, ChecksStay
    <2>2. CASE \E value \in {"active", "closed"} : SetProgramStatus(value)
      BY <2>2, SealingStays DEF Typed, AssignmentsFree
    <2>3. CASE ~TopologyFree
      BY <2>3, <2>1, <2>2 DEF MigratesAlone
    <2> QED BY <2>3 DEF TopologyFree
  <1>6. TargetsExist' /\ SealedHashIsOfRows' /\ PublicationsAreAChain' /\ ClaimsAreDisjoint'
    BY <1>1 DEF TargetsExist, KnownTarget, SealedHashIsOfRows, Sealed,
       PublicationsAreAChain, ClaimsAreDisjoint
  <1> QED BY <1>3, <1>4, <1>5, <1>6, <1>7

-----------------------------------------------------------------------------
(* The statements of administrators.                                       *)

LEMMA EditKeeps ==
  ASSUME IInv, NEW v \in Versions, NEW content \in Contents, Edit(v, content)
  PROVE  IInv'
  <1> USE CatalogStoreAssumption DEF IInv, Edit
  <1>1. version' \in [Versions -> VersionRows]
    <2>1. version \in [Versions -> VersionRows]
      BY DEF Typed
    <2>2. version[v] \in VersionRows
      BY <2>1
    <2>3. [version[v] EXCEPT !.content = content] \in VersionRows
      BY <2>2 DEF VersionRows
    <2> QED BY <2>1, <2>3
  <1>2. /\ version'[v].state = version[v].state
        /\ \A w \in Versions \ {v} : version'[w] = version[w]
    BY DEF Typed, VersionRows
  <1>3. Typed'  BY <1>1 DEF Typed
  <1>4. PastTimes' /\ KnownRows' /\ OneHolder' /\ MigratesAlone'
    BY DEF PastTimes, KnownRows, KnownTarget, OneHolder, MigratesAlone, TopologyFree, Holding
  <1>5. ChecksHoldUntilCommit'
    BY DEF ChecksHoldUntilCommit, TopologyFree, Holding
  <1>6. SealedHashIsOfRows'
    BY <1>2 DEF SealedHashIsOfRows, Sealed
  <1>7. TargetsExist' /\ PublicationsAreAChain' /\ ClaimsAreDisjoint'
    BY DEF TargetsExist, KnownTarget, PublicationsAreAChain, ClaimsAreDisjoint
  <1> QED BY <1>3, <1>4, <1>5, <1>6, <1>7

LEMMA AssignmentChangeKeeps ==
  ASSUME IInv, NEW a \in Assignments, NEW row \in AssignmentRows, ChangeAssignment(a, row)
  PROVE  IInv'
  <1> USE CatalogStoreAssumption DEF IInv, ChangeAssignment
  <1>1. UNCHANGED <<version, publications, claims, status, schema, migrating, clock, session>>
    OBVIOUS
  <1>2. assignment' \in [Assignments -> AssignmentRows]
    BY DEF Typed
  <1>3. Typed'  BY <1>1, <1>2 DEF Typed
  <1>4. PastTimes' /\ KnownRows' /\ OneHolder' /\ MigratesAlone'
    BY <1>1 DEF PastTimes, KnownRows, KnownTarget, OneHolder, MigratesAlone, TopologyFree, Holding
  <1>5. ChecksHoldUntilCommit'
    <2> SUFFICES ASSUME NEW t \in Sessions, Holding(t) PROVE ChecksHold(t)'
      BY <1>1, ChecksHoldOfEach DEF Holding
    <2> QED BY <1>1, SealingStays DEF AssignmentsFree
  <1>6. TargetsExist' /\ SealedHashIsOfRows' /\ PublicationsAreAChain' /\ ClaimsAreDisjoint'
    BY <1>1 DEF TargetsExist, KnownTarget, SealedHashIsOfRows, Sealed,
       PublicationsAreAChain, ClaimsAreDisjoint
  <1> QED BY <1>3, <1>4, <1>5, <1>6

\* Every statement on the assignments writes one row.
LEMMA AssignmentStatements ==
  ASSUME Typed,
         \/ \E a \in Assignments : Support(a) \/ Withdraw(a)
         \/ \E a \in Assignments, dates \in Schedules : Reschedule(a, dates)
  PROVE  \E a \in Assignments, row \in AssignmentRows : ChangeAssignment(a, row)
  <1>1. \A a \in Assignments : assignment[a] \in AssignmentRows
    BY DEF Typed
  <1>2. CASE \E a \in Assignments : Support(a)
    <2>1. PICK a \in Assignments : Support(a)
      BY <1>2
    <2>2. [assignment[a] EXCEPT !.supported = TRUE] \in AssignmentRows
      BY <1>1 DEF AssignmentRows
    <2> QED BY <2>1, <2>2 DEF Support
  <1>3. CASE \E a \in Assignments : Withdraw(a)
    <2>1. PICK a \in Assignments : Withdraw(a)
      BY <1>3
    <2>2. [assignment[a] EXCEPT !.supported = FALSE] \in AssignmentRows
      BY <1>1 DEF AssignmentRows
    <2> QED BY <2>1, <2>2 DEF Withdraw
  <1>4. CASE \E a \in Assignments, dates \in Schedules : Reschedule(a, dates)
    <2>1. PICK a \in Assignments, dates \in Schedules : Reschedule(a, dates)
      BY <1>4
    <2>2. dates.from \in Moments /\ dates.through \in Moments
      BY CatalogStoreAssumption DEF Moments
    <2>3. [assignment[a] EXCEPT !.from = dates.from, !.through = dates.through] \in AssignmentRows
      BY <1>1, <2>2 DEF AssignmentRows
    <2> QED BY <2>1, <2>3 DEF Reschedule
  <1> QED BY <1>2, <1>3, <1>4

-----------------------------------------------------------------------------
(* The writes.                                                             *)

\* What is written was read or checked: the rows a task names exist, and a
\* seal is of the rows the version has.
Prepared(task, rows, time) ==
    /\ task \in AnyTasks /\ time \in Nat /\ time <= clock
    /\ task.kind = "seal" =>
          rows = version[task.version].content /\ ContentHash[rows] # None
    /\ task.kind = "publish" => task.expected \in DOMAIN publications \union {None}
    /\ task.kind = "apply" =>
          task.replaces \in DOMAIN claims \union {None} /\ KnownTarget(task.target)

\* A write adds rows and closes some: what was sealed, published or claimed is
\* not written over.
HistoryStays ==
    /\ \A v \in Versions : Sealed(v) => version'[v] = version[v]
    /\ \A p \in DOMAIN publications :
          p \in DOMAIN publications' /\ publications'[p].version = publications[p].version
    /\ \A c \in DOMAIN claims :
          /\ c \in DOMAIN claims' /\ claims'[c].claim = claims[c].claim
          /\ claims'[c].target = claims[c].target

\* The rows after a write.
WellWritten ==
    /\ version' \in [Versions -> VersionRows]
    /\ publications' \in Seq(PublicationRows)
    /\ claims' \in Seq(ClaimRows)
    /\ \A v \in Versions : version'[v].content = version[v].content
    /\ \A p \in DOMAIN publications' : publications'[p].started <= clock
    /\ \A c \in DOMAIN claims' : claims'[c].recorded <= clock
    /\ HistoryStays /\ TargetsExist'
    /\ SealedHashIsOfRows' /\ PublicationsAreAChain' /\ ClaimsAreDisjoint'

LEMMA SealIsWellWritten ==
  ASSUME IInv, NEW task, NEW rows, NEW time, Prepared(task, rows, time), task.kind = "seal",
         WriteSeal(task, rows)
  PROVE  WellWritten
  <1> DEFINE v == task.version
  <1>1. task \in AnyTasks
    BY DEF Prepared
  <1>2. v \in Versions
    BY <1>1 DEF AnyTasks, SealTasks
  <1>3. rows = version[v].content /\ ContentHash[rows] # None
    BY DEF Prepared
  <1>4. version \in [Versions -> VersionRows] /\ version[v] \in VersionRows
    BY <1>2 DEF IInv, Typed
  <1>5. rows \in Contents
    BY <1>3, <1>4 DEF VersionRows
  <1>6. [version[v] EXCEPT !.state = "sealed", !.hash = ContentHash[rows]] \in VersionRows
    <2>1. ContentHash[rows] \in {ContentHash[c] : c \in Contents}
      BY <1>5
    <2> QED BY <1>4, <2>1, Zenon DEF VersionRows
  <1>7. /\ version' \in [Versions -> VersionRows]
        /\ \A w \in Versions \ {v} : version'[w] = version[w]
        /\ version'[v] = [version[v] EXCEPT !.state = "sealed", !.hash = ContentHash[rows]]
        /\ UNCHANGED <<publications, claims>>
    <2>1. /\ version' = [version EXCEPT ![v] = [version[v] EXCEPT !.state = "sealed",
                                                                 !.hash = ContentHash[rows]]]
          /\ UNCHANGED <<publications, claims>>
      BY DEF WriteSeal
    <2> QED BY <1>2, <1>4, <1>6, <2>1
  <1>8. version'[v].hash = ContentHash[rows] /\ version'[v].content = rows
    BY <1>3, <1>4, <1>7 DEF VersionRows
  <1>9. SealedHashIsOfRows'
    <2> SUFFICES ASSUME NEW w \in Versions, Sealed(w)'
                 PROVE  /\ version'[w].hash = ContentHash[version'[w].content]
                        /\ version'[w].hash # None
      BY DEF SealedHashIsOfRows
    <2>1. CASE w = v
      BY <2>1, <1>3, <1>8
    <2>2. CASE w # v
      BY <2>2, <1>7 DEF IInv, SealedHashIsOfRows, Sealed
    <2> QED BY <2>1, <2>2
  <1>10. TargetsExist' /\ PublicationsAreAChain' /\ ClaimsAreDisjoint'
    BY <1>7 DEF IInv, TargetsExist, KnownTarget, PublicationsAreAChain, ClaimsAreDisjoint
  <1>11. /\ publications' \in Seq(PublicationRows) /\ claims' \in Seq(ClaimRows)
         /\ \A p \in DOMAIN publications' : publications'[p].started <= clock
         /\ \A c \in DOMAIN claims' : claims'[c].recorded <= clock
    BY <1>7 DEF IInv, Typed, PastTimes
  <1>12. \A w \in Versions : version'[w].content = version[w].content
    BY <1>3, <1>7, <1>8
  <1>13. HistoryStays
    <2>1. ~Sealed(v)
      BY DEF WriteSeal
    <2> QED BY <2>1, <1>7 DEF HistoryStays
  <1> QED BY <1>7, <1>9, <1>10, <1>11, <1>12, <1>13 DEF WellWritten

\* Closing the current publication keeps the others, and appending the new one
\* keeps those.
LEMMA PublicationIsWellWritten ==
  ASSUME IInv, NEW task, NEW rows, NEW time, Prepared(task, rows, time), task.kind = "publish",
         WritePublication(task, time)
  PROVE  WellWritten
  <1> USE CatalogStoreAssumption
  <1> DEFINE old == publications
             closed == ClosedPublications(task, time)
             new == [version |-> task.version, started |-> time, ended |-> None,
                     replaced |-> task.expected]
             n == Len(old)
  <1>1. time \in Nat /\ time <= clock
    BY DEF Prepared
  <1>2. task \in AnyTasks
    BY DEF Prepared
  <1>3. task.version \in Versions /\ task.expected \in Moments
    BY <1>2 DEF AnyTasks, SealTasks, Moments
  <1>4. task.expected \in DOMAIN old \union {None}
    BY DEF Prepared
  <1>5. old \in Seq(PublicationRows) /\ n \in Nat /\ DOMAIN old = 1..n
    BY DEF IInv, Typed
  <1>6. \A p \in 1..n : old[p] \in PublicationRows
    BY <1>5
  <1>7. new \in PublicationRows
    BY <1>1, <1>3 DEF PublicationRows, Moments
  <1>8. /\ closed \in Seq(PublicationRows) /\ Len(closed) = n
        /\ \A p \in 1..n :
              /\ closed[p].started = old[p].started /\ closed[p].replaced = old[p].replaced
              /\ closed[p].version = old[p].version
              /\ closed[p].ended = IF p = task.expected THEN time ELSE old[p].ended
    <2>1. CASE task.expected = None
      BY <2>1, <1>5 DEF ClosedPublications
    <2>2. CASE task.expected # None
      <3>1. task.expected \in 1..n
        BY <2>2, <1>4, <1>5
      <3>2. [old[task.expected] EXCEPT !.ended = time] \in PublicationRows
        BY <3>1, <1>6, <1>1 DEF PublicationRows, Moments
      <3>3. closed = [old EXCEPT ![task.expected] = [old[task.expected] EXCEPT !.ended = time]]
        BY <2>2 DEF ClosedPublications
      <3>4. closed \in Seq(PublicationRows) /\ Len(closed) = n
        BY <3>1, <3>2, <3>3, <1>5
      <3>5. \A p \in 1..n : closed[p] = IF p = task.expected
                                         THEN [old[p] EXCEPT !.ended = time] ELSE old[p]
        BY <3>1, <3>3, <1>5
      <3> QED BY <3>4, <3>5, <1>6 DEF PublicationRows
    <2> QED BY <2>1, <2>2
  <1>9. publications' = Append(closed, new) /\ UNCHANGED <<version, claims>>
    BY DEF WritePublication
  <1>10. /\ publications' \in Seq(PublicationRows) /\ Len(publications') = n + 1
         /\ \A p \in 1..n : publications'[p] = closed[p]
         /\ publications'[n + 1] = new
    BY <1>5, <1>7, <1>8, <1>9
  <1>11. /\ task.expected # None =>
               old[task.expected].ended = None /\ old[task.expected].started < time
         /\ \A p \in 1..n : closed[p].ended # None
    BY <1>5 DEF WritePublication, PublicationAccepted
  <1>12. PublicationsAreAChain'
    <2>1. \A p \in 1..n : p # n => old[p].ended # None
      BY <1>5, RowTimes DEF IInv, PublicationsAreAChain
    <2>2. n # 0 => task.expected = n
      <3>1. n # 0 => closed[n].ended # None /\ old[n].ended = None
        BY <1>5, <1>11 DEF IInv, PublicationsAreAChain
      <3> QED BY <3>1, <1>5, <1>8
    <2>3. n = 0 => task.expected = None
      BY <1>4, <1>5
    <2>4. \A p \in 1..(n + 1) :
             /\ publications'[p].replaced = IF p = 1 THEN None ELSE p - 1
             /\ p = n + 1 => publications'[p].ended = None
             /\ p # n + 1 => /\ publications'[p].ended = publications'[p + 1].started
                             /\ publications'[p].started < publications'[p].ended
      <3> SUFFICES ASSUME NEW p \in 1..(n + 1)
                   PROVE /\ publications'[p].replaced = IF p = 1 THEN None ELSE p - 1
                         /\ p = n + 1 => publications'[p].ended = None
                         /\ p # n + 1 => /\ publications'[p].ended = publications'[p + 1].started
                                         /\ publications'[p].started < publications'[p].ended
        OBVIOUS
      <3>1. CASE p = n + 1
        BY <3>1, <2>2, <2>3, <1>5, <1>10
      <3>2. CASE p = n
        <4>1. publications'[p] = closed[p] /\ publications'[p + 1] = new /\ p \in 1..n
          BY <3>2, <1>5, <1>10
        <4>2. closed[p].ended = time /\ closed[p].started < time
          BY <3>2, <4>1, <2>2, <1>5, <1>8, <1>11
        <4>3. closed[p].replaced = IF p = 1 THEN None ELSE p - 1
          BY <4>1, <1>5, <1>8 DEF IInv, PublicationsAreAChain
        <4> QED BY <3>2, <4>1, <4>2, <4>3, <1>5
      <3>3. CASE p < n
        <4>1. /\ publications'[p] = closed[p] /\ publications'[p + 1] = closed[p + 1]
              /\ p \in 1..n /\ p + 1 \in 1..n
          BY <3>3, <1>5, <1>10
        <4>2. /\ old[p].replaced = IF p = 1 THEN None ELSE p - 1
              /\ old[p].ended = old[p + 1].started /\ old[p].started < old[p].ended
          BY <3>3, <4>1, <1>5 DEF IInv, PublicationsAreAChain
        <4> QED BY <3>3, <4>1, <4>2, <2>2, <1>5, <1>8
      <3> QED BY <3>1, <3>2, <3>3, <1>5
    <2> QED BY <2>4, <1>10 DEF PublicationsAreAChain
  <1>13. SealedHashIsOfRows' /\ ClaimsAreDisjoint'
    BY <1>9 DEF IInv, SealedHashIsOfRows, Sealed, ClaimsAreDisjoint
  <1>14. \A p \in DOMAIN publications' : publications'[p].started <= clock
    <2> SUFFICES ASSUME NEW p \in 1..(n + 1) PROVE publications'[p].started <= clock
      BY <1>5, <1>10
    <2>1. CASE p = n + 1
      BY <2>1, <1>1, <1>10
    <2>2. CASE p # n + 1
      BY <2>2, <1>5, <1>8, <1>10 DEF IInv, PastTimes
    <2> QED BY <2>1, <2>2
  <1>15. /\ version' \in [Versions -> VersionRows] /\ claims' \in Seq(ClaimRows)
         /\ \A c \in DOMAIN claims' : claims'[c].recorded <= clock
         /\ \A v \in Versions : version'[v].content = version[v].content
    BY <1>9 DEF IInv, Typed, PastTimes
  <1>16. HistoryStays
    BY <1>5, <1>8, <1>9, <1>10 DEF HistoryStays
  <1>17. TargetsExist'
    BY <1>5, <1>9, <1>10 DEF IInv, TargetsExist, KnownTarget
  <1> QED BY <1>10, <1>12, <1>13, <1>14, <1>15, <1>16, <1>17 DEF WellWritten

LEMMA ClaimIsWellWritten ==
  ASSUME IInv, NEW task, NEW rows, NEW time, Prepared(task, rows, time), task.kind = "apply",
         WriteClaim(task, time)
  PROVE  WellWritten
  <1> USE CatalogStoreAssumption
  <1> DEFINE old == claims
             closed == ClosedClaims(task, time)
             new == [claim |-> task.claim, target |-> task.target, recorded |-> time,
                     ended |-> None]
             n == Len(old)
  <1>1. time \in Nat /\ time <= clock
    BY DEF Prepared
  <1>2. task \in AnyTasks
    BY DEF Prepared
  <1>3. task.claim \in Claims /\ task.target \in AnyTargets /\ task.replaces \in Moments
    BY <1>2 DEF AnyTasks, SealTasks, Moments
  <1>4. task.replaces \in DOMAIN old \union {None}
    BY DEF Prepared
  <1>5. old \in Seq(ClaimRows) /\ n \in Nat /\ DOMAIN old = 1..n
    BY DEF IInv, Typed
  <1>6. \A c \in 1..n : old[c] \in ClaimRows
    BY <1>5
  <1>7. new \in ClaimRows
    BY <1>1, <1>3 DEF ClaimRows, Moments
  <1>8. /\ closed \in Seq(ClaimRows) /\ Len(closed) = n
        /\ \A c \in 1..n :
              /\ closed[c].claim = old[c].claim /\ closed[c].recorded = old[c].recorded
              /\ closed[c].target = old[c].target
              /\ closed[c].ended = IF c = task.replaces THEN time ELSE old[c].ended
    <2>1. CASE task.replaces = None
      BY <2>1, <1>5 DEF ClosedClaims
    <2>2. CASE task.replaces # None
      <3>1. task.replaces \in 1..n
        BY <2>2, <1>4, <1>5
      <3>2. [old[task.replaces] EXCEPT !.ended = time] \in ClaimRows
        BY SMTT(20), <3>1, <1>6, <1>1 DEF ClaimRows, Moments
      <3>3. closed = [old EXCEPT ![task.replaces] = [old[task.replaces] EXCEPT !.ended = time]]
        BY <2>2 DEF ClosedClaims
      <3>4. closed \in Seq(ClaimRows) /\ Len(closed) = n
        BY <3>1, <3>2, <3>3, <1>5
      <3>5. \A c \in 1..n : closed[c] = IF c = task.replaces
                                         THEN [old[c] EXCEPT !.ended = time] ELSE old[c]
        BY <3>1, <3>3, <1>5
      <3> QED BY <3>4, <3>5, <1>6 DEF ClaimRows
    <2> QED BY <2>1, <2>2
  <1>9. claims' = Append(closed, new) /\ UNCHANGED <<version, publications>>
    BY DEF WriteClaim
  <1>10. /\ claims' \in Seq(ClaimRows) /\ Len(claims') = n + 1
         /\ \A c \in 1..n : claims'[c] = closed[c]
         /\ claims'[n + 1] = new
    <2>1. /\ Append(closed, new) \in Seq(ClaimRows) /\ Len(Append(closed, new)) = n + 1
          /\ \A c \in 1..n : Append(closed, new)[c] = closed[c]
          /\ Append(closed, new)[n + 1] = new
      <3> HIDE DEF closed, new, n
      <3> QED BY <1>7, <1>8, AppendTyped
    <2> QED BY <1>9, <2>1
  <1>11. /\ task.replaces # None => old[task.replaces].ended = None
         /\ \A c \in 1..n :
               /\ closed[c].claim.assignment = task.claim.assignment
               /\ closed[c].ended = None \/ closed[c].ended > time
               => ~Overlaps(closed[c].claim, task.claim)
    <2>1. ClaimAccepted(task, time)
      BY Zenon DEF WriteClaim
    <2>2. /\ task.replaces # None => old[task.replaces].ended = None
          /\ \A c \in DOMAIN old :
                /\ closed[c].claim.assignment = task.claim.assignment
                /\ closed[c].ended = None \/ closed[c].ended > time
                => ~Overlaps(closed[c].claim, task.claim)
      BY <2>1, Zenon DEF ClaimAccepted
    <2> QED BY <1>5, <2>2
  <1>12. ClaimsAreDisjoint'
    <2> SUFFICES ASSUME NEW c \in 1..(n + 1), NEW d \in 1..(n + 1), c < d,
                        claims'[c].claim.assignment = claims'[d].claim.assignment,
                        Overlaps(claims'[c].claim, claims'[d].claim)
                 PROVE  claims'[c].ended # None /\ claims'[c].ended <= claims'[d].recorded
      BY <1>10 DEF ClaimsAreDisjoint
    <2>1. c \in 1..n /\ claims'[c] = closed[c] /\ closed[c].claim = old[c].claim
      BY <1>5, <1>8, <1>10
    <2>2. CASE d = n + 1
      <3>1. claims'[d].claim = task.claim /\ claims'[d].recorded = time
        BY <2>2, <1>10
      <3>2. ~(closed[c].ended = None \/ closed[c].ended > time)
        BY <3>1, <2>1, <1>11
      <3>3. closed[c].ended \in Moments
        <4>1. old[c].ended \in Moments
          BY <2>1, <1>6 DEF ClaimRows
        <4>2. closed[c].ended = time \/ closed[c].ended = old[c].ended
          BY <2>1, <1>8
        <4> QED BY <4>1, <4>2, <1>1, Zenon DEF Moments
      <3> QED BY <3>1, <3>2, <3>3, <2>1, <1>1 DEF Moments
    <2>3. CASE d # n + 1
      <3>1. d \in 1..n /\ claims'[d] = closed[d] /\ closed[d].claim = old[d].claim
              /\ closed[d].recorded = old[d].recorded
        BY <2>3, <1>5, <1>8, <1>10
      <3>2. old[c].ended # None /\ old[c].ended <= old[d].recorded
        <4>1. /\ old[c].claim.assignment = old[d].claim.assignment
              /\ Overlaps(old[c].claim, old[d].claim)
          BY <2>1, <3>1, Zenon
        <4>2. c \in DOMAIN claims /\ d \in DOMAIN claims
          BY <2>1, <3>1, <1>5, Zenon
        <4>3. ClaimsAreDisjoint
          BY Zenon DEF IInv
        <4> HIDE DEF closed, new
        <4> QED BY <4>1, <4>2, <4>3 DEF ClaimsAreDisjoint
      <3>3. closed[c].ended = old[c].ended
        BY <2>1, <3>2, <1>8, <1>11
      <3> QED BY <2>1, <3>1, <3>2, <3>3
    <2> QED BY <2>2, <2>3
  <1>13. SealedHashIsOfRows' /\ PublicationsAreAChain'
    BY <1>9 DEF IInv, SealedHashIsOfRows, Sealed, PublicationsAreAChain
  <1>14. \A c \in DOMAIN claims' : claims'[c].recorded <= clock
    <2> SUFFICES ASSUME NEW c \in 1..(n + 1) PROVE claims'[c].recorded <= clock
      BY <1>5, <1>10
    <2>1. CASE c = n + 1
      BY <2>1, <1>1, <1>10
    <2>2. CASE c # n + 1
      <3>1. c \in DOMAIN old /\ claims'[c].recorded = old[c].recorded
        BY <2>2, <1>5, <1>8, <1>10
      <3> QED BY <3>1 DEF IInv, PastTimes
    <2> QED BY <2>1, <2>2
  <1>15. /\ version' \in [Versions -> VersionRows] /\ publications' \in Seq(PublicationRows)
         /\ \A p \in DOMAIN publications' : publications'[p].started <= clock
         /\ \A v \in Versions : version'[v].content = version[v].content
    BY <1>9 DEF IInv, Typed, PastTimes
  <1>16. HistoryStays
    BY <1>5, <1>8, <1>9, <1>10 DEF HistoryStays
  <1>17. TargetsExist'
    <2>1. new.target = task.target /\ KnownTarget(task.target)
      BY DEF Prepared
    <2>2. \A c \in 1..n : KnownTarget(closed[c].target)
      <3>1. \A c \in 1..n : KnownTarget(old[c].target)
        BY <1>5 DEF IInv, TargetsExist
      <3> HIDE DEF closed, n
      <3> QED BY <3>1, <1>8
    <2> HIDE DEF new, closed, n
    <2>3. DOMAIN claims' = 1..(n + 1)
      BY <1>10
    <2>4. \A c \in 1..(n + 1) : KnownTarget(claims'[c].target)
      BY <2>1, <2>2, <1>5, <1>10
    <2>5. UNCHANGED publications
      BY <1>9
    <2> QED BY <2>3, <2>4, <2>5 DEF TargetsExist, KnownTarget
  <1> QED BY <1>10, <1>12, <1>13, <1>14, <1>15, <1>16, <1>17 DEF WellWritten

LEMMA WriteIsWellWritten ==
  ASSUME IInv, NEW task, NEW rows, NEW time, Prepared(task, rows, time), Write(task, rows, time)
  PROVE  WellWritten
  BY SealIsWellWritten, PublicationIsWellWritten, ClaimIsWellWritten DEF Write

-----------------------------------------------------------------------------
(* COMMIT.                                                                 *)

\* The session of a transaction that commits, and what it leaves to the others.
LEMMA CommitSession ==
  ASSUME IInv, NEW s \in Sessions, Commit(s)
  PROVE  /\ session[s] \in Working /\ session[s] # Idle
         /\ session[s].time \in Nat /\ session[s].time <= clock
         /\ session' \in [Sessions -> Working \union {Idle}]
         /\ session'[s] = Idle
         /\ \A t \in Sessions \ {s} : session'[t] = session[t]
         /\ \A t \in Sessions : ~Holding(t)'
         /\ UNCHANGED <<assignment, status, schema, clock>>
  <1>1. Holding(s)
    BY DEF Commit, Holding
  <1>2. session[s] \in Working /\ session[s] # Idle
    BY <1>1, HolderWorks DEF IInv
  <1>3. session[s].time \in Nat /\ session[s].time <= clock
    BY <1>2, RowTimes DEF IInv, PastTimes
  <1>4. /\ session' \in [Sessions -> Working \union {Idle}]
        /\ session'[s] = Idle
        /\ \A t \in Sessions \ {s} : session'[t] = session[t]
        /\ UNCHANGED <<assignment, status, schema, clock>>
    BY DEF Commit, IInv, Typed
  <1>5. \A t \in Sessions : ~Holding(t)'
    BY <1>1, <1>4 DEF IInv, OneHolder, Holding, Idle
  <1> QED BY <1>2, <1>3, <1>4, <1>5

LEMMA CommitIsPrepared ==
  ASSUME IInv, NEW s \in Sessions, Commit(s)
  PROVE  Prepared(session[s].task, session[s].rows, session[s].time)
  <1>1. session[s].task \in AnyTasks
    BY CommitSession DEF Working
  <1>2. session[s].task.kind = "seal" =>
          /\ session[s].rows = version[session[s].task.version].content
          /\ ContentHash[session[s].rows] # None
    BY DEF IInv, ChecksHoldUntilCommit, Allowed, MaySeal, Holding, Commit
  <1> QED BY <1>1, <1>2, CommitSession DEF IInv, KnownRows, Prepared

LEMMA CommitKeeps ==
  ASSUME IInv, NEW s \in Sessions, Commit(s)
  PROVE  IInv'
  <1>1. WellWritten
    BY CommitIsPrepared, WriteIsWellWritten DEF Commit
  <1>2. Typed' /\ PastTimes'
    BY <1>1, CommitSession DEF WellWritten, IInv, Typed, PastTimes
  <1>3. KnownRows'
    BY <1>1, CommitSession DEF WellWritten, HistoryStays, IInv, KnownRows, KnownTarget
  <1>4. OneHolder' /\ MigratesAlone' /\ ChecksHoldUntilCommit'
    BY CommitSession DEF OneHolder, MigratesAlone, TopologyFree, ChecksHoldUntilCommit
  <1> QED BY <1>1, <1>2, <1>3, <1>4 DEF WellWritten, IInv

LEMMA NextKeeps ==
  ASSUME IInv, [Next]_vars
  PROVE  IInv'
  <1>1. CASE \E s \in Sessions : Transaction(s)
    <2>1. PICK s \in Sessions : Transaction(s)
      BY <1>1
    <2>2. CASE \E task \in Tasks : Begin(s, task)
      BY <2>2, BeginKeeps
    <2>3. CASE LockAndCheck(s) \/ Commit(s) \/ RollBack(s)
      BY <2>3, LockAndCheckKeeps, CommitKeeps, RollBackKeeps
    <2> QED BY <2>1, <2>2, <2>3 DEF Transaction
  <1>2. CASE \E v \in Versions, content \in Contents : Edit(v, content)
    BY <1>2, EditKeeps
  <1>3. CASE \/ \E a \in Assignments : Support(a) \/ Withdraw(a)
             \/ \E a \in Assignments, dates \in Schedules : Reschedule(a, dates)
    BY <1>3, AssignmentStatements, AssignmentChangeKeeps DEF IInv
  <1>4. CASE \/ \E value \in {"draft", "active", "closed"} : SetTemplateStatus(value)
             \/ \E value \in {"active", "closed"} : SetProgramStatus(value)
             \/ StartMigration \/ (\E reached \in {8, 9} : EndMigration(reached)) \/ Tick
    BY <1>4, SurroundingsKeep
  <1>5. CASE UNCHANGED vars
    <2>1. ChecksHoldUntilCommit'
      BY <1>5, ChecksHoldOfEach, ChecksStay DEF vars, IInv, Holding
    <2> QED BY <1>5, <2>1 DEF vars, IInv, Typed, PastTimes, KnownRows, KnownTarget, TargetsExist,
         OneHolder, MigratesAlone, TopologyFree, Holding, SealedHashIsOfRows, Sealed,
         PublicationsAreAChain, ClaimsAreDisjoint
  <1> QED BY <1>1, <1>2, <1>3, <1>4, <1>5 DEF Next

\* No step rewrites what was sealed, published or claimed.
LEMMA NextKeepsHistory ==
  ASSUME IInv, Next
  PROVE  HistoryStays
  <1>1. CASE \E s \in Sessions : Commit(s)
    BY <1>1, CommitIsPrepared, WriteIsWellWritten DEF Commit, WellWritten
  <1>2. CASE \E v \in Versions, content \in Contents : Edit(v, content)
    BY <1>2 DEF Edit, HistoryStays, IInv, Typed
  <1>3. CASE UNCHANGED <<version, publications, claims>>
    BY <1>3 DEF HistoryStays
  <1>4. \/ \E s \in Sessions : Commit(s)
        \/ \E v \in Versions, content \in Contents : Edit(v, content)
        \/ UNCHANGED <<version, publications, claims>>
    BY DEF Next, Transaction, Begin, LockAndCheck, RollBack, SetTemplateStatus,
       SetProgramStatus, Support, Withdraw, Reschedule, ChangeAssignment, StartMigration,
       EndMigration, Tick
  <1> QED BY <1>1, <1>2, <1>3, <1>4

-----------------------------------------------------------------------------
(* The theorems.                                                           *)

\* The invariant below holds in every reachable state, for any catalog.
THEOREM Inductive == Spec => []IInv
  <1>1. Init => IInv
    BY InitIInv
  <1>2. IInv /\ [Next]_vars => IInv'
    BY NextKeeps
  <1> QED BY <1>1, <1>2, PTL DEF Spec

\* A sealed version keeps the rows its hash was computed from.
THEOREM SealedHashIsOfRowsHolds == Spec => []SealedHashIsOfRows
  <1>1. IInv => SealedHashIsOfRows
    BY DEF IInv
  <1> QED BY <1>1, Inductive, PTL

\* Publications are a chain without gap, overlap or fork.
THEOREM PublicationsAreAChainHolds == Spec => []PublicationsAreAChain
  <1>1. IInv => PublicationsAreAChain
    BY DEF IInv
  <1> QED BY <1>1, Inductive, PTL

\* At no recorded time do two claims hold for one assignment and day.
THEOREM ClaimsAreDisjointHolds == Spec => []ClaimsAreDisjoint
  <1>1. IInv => ClaimsAreDisjoint
    BY DEF IInv
  <1> QED BY <1>1, Inductive, PTL

\* What a service checked under its locks is still so when it writes, though
\* most of it is read from tables it does not lock.
THEOREM ChecksHoldUntilCommitHolds == Spec => []ChecksHoldUntilCommit
  <1>1. IInv => ChecksHoldUntilCommit
    BY DEF IInv
  <1> QED BY <1>1, Inductive, PTL

-----------------------------------------------------------------------------
(* The inductive invariant of the requests.                                *)

\* The schedules of two supported assignments never overlap; those of others
\* may.
AssignmentsAreDisjoint ==
    \A a, b \in Assignments :
        a # b /\ assignment[a].supported /\ assignment[b].supported =>
            ~Overlaps(assignment[a], assignment[b])

\* Only the migration to schema 9 runs, so that schema 9 is for ever.
MigratesOnce == migrating => schema = 8

\* A resolution as it would still be made of the claim it names.
StillTrue(resolution) ==
    \E c \in DOMAIN claims :
        LET v == TargetVersion(claims[c].target)
        IN /\ Sealed(v)
           /\ CapabilitiesSupported(v)
           /\ resolution = [state |-> "resolved", lineage |-> Lineage(c),
                            hash |-> version[v].hash]

\* The visitor was shown the content of the version that the resolution names.
StillShown(seen) ==
    /\ StillTrue(seen.resolution)
    /\ seen.hash = <<ConfigurationKey(seen.resolution),
                     ProjectedHash(version[seen.resolution.lineage.version].content)>>

VisitorKnows ==
    /\ visitor.seen # None => StillShown(visitor.seen)
    /\ visitor.step = "resolved" => schema = 9 /\ StillTrue(visitor.resolution)

RequestIInv ==
    /\ IInv /\ AssignmentsAreDisjoint /\ MigratesOnce
    /\ VisitorKnows /\ AnsweredAsShown

-----------------------------------------------------------------------------
(* The administrators.                                                     *)

LEMMA AdministerKeeps ==
  ASSUME IInv, NEW task \in Tasks, Administer(task)
  PROVE  IInv' /\ HistoryStays
  <1> DEFINE rows == IF task.kind = "seal" THEN version[task.version].content ELSE None
  <1>1. PICK time \in 0..clock : Write(task, rows, time)
    BY DEF Administer
  <1>2. clock \in Nat
    BY DEF IInv, Typed, CatalogStoreAssumption
  <1>3. Prepared(task, rows, time)
    <2>1. task \in AnyTasks
      BY TaskIsTyped DEF IInv
    <2>2. task.kind = "seal" => ContentHash[rows] # None
      BY DEF Administer, Allowed, MaySeal
    <2>3. /\ task.kind = "publish" => task.expected \in DOMAIN publications \union {None}
          /\ task.kind = "apply" =>
                task.replaces \in DOMAIN claims \union {None} /\ KnownTarget(task.target)
      BY DEF Tasks, SealTasks, PublishTasks, ApplyTasks, Targets, KnownTarget
    <2> QED BY <1>1, <1>2, <2>1, <2>2, <2>3 DEF Prepared
  <1>4. WellWritten
    BY <1>1, <1>3, WriteIsWellWritten
  <1>5. UNCHANGED <<assignment, status, schema, clock, session>>
    BY DEF Administer
  <1>6. Typed' /\ PastTimes'
    BY <1>4, <1>5 DEF WellWritten, IInv, Typed, PastTimes
  <1>7. KnownRows'
    BY <1>4, <1>5 DEF WellWritten, HistoryStays, IInv, KnownRows, KnownTarget
  <1>8. OneHolder' /\ MigratesAlone'
    BY <1>5 DEF Administer, IInv, OneHolder, MigratesAlone, TopologyFree, Holding
  <1>9. ChecksHoldUntilCommit'
    BY <1>5 DEF Administer, TopologyFree, ChecksHoldUntilCommit, Holding
  <1> QED BY <1>4, <1>6, <1>7, <1>8, <1>9 DEF WellWritten, IInv

\* Assignments: a row that is supported is compared with the others that are.
LEMMA AssignmentsStayDisjoint ==
  ASSUME IInv, AssignmentsAreDisjoint, RequestNext
  PROVE  AssignmentsAreDisjoint'
  <1>1. assignment \in [Assignments -> AssignmentRows]
    BY DEF IInv, Typed
  <1>2. CASE UNCHANGED assignment
    BY <1>2 DEF AssignmentsAreDisjoint
  <1>3. ASSUME NEW a \in Assignments, NEW row \in AssignmentRows, ChangeAssignment(a, row)
        PROVE  AssignmentsAreDisjoint'
    <2>1. assignment'[a] = row /\ \A b \in Assignments \ {a} : assignment'[b] = assignment[b]
      BY <1>1, <1>3 DEF ChangeAssignment
    <2>2. row.supported =>
            \A b \in Assignments \ {a} : assignment[b].supported => ~Overlaps(assignment[b], row)
      BY <1>3 DEF ChangeAssignment, AssignmentAccepted
    <2>3. \A b \in Assignments \ {a} :
             assignment'[a].supported /\ assignment'[b].supported =>
               ~Overlaps(assignment'[b], assignment'[a]) /\ ~Overlaps(assignment'[a], assignment'[b])
      BY <2>1, <2>2 DEF Overlaps
    <2> QED BY <2>1, <2>3 DEF AssignmentsAreDisjoint
  <1>4. \/ UNCHANGED assignment
        \/ \E a \in Assignments : Support(a) \/ Withdraw(a)
        \/ \E a \in Assignments, dates \in Schedules : Reschedule(a, dates)
    BY DEF RequestNext, Administer, Resolve, Load, Leave, vars, Next, Transaction, Begin,
       LockAndCheck, Commit, RollBack, Edit, SetTemplateStatus, SetProgramStatus, StartMigration,
       EndMigration, Tick
  <1> QED BY <1>2, <1>3, <1>4, AssignmentStatements DEF IInv

LEMMA SchemaSteps ==
  ASSUME MigratesOnce, RequestNext
  PROVE  MigratesOnce' /\ (schema = 9 => schema' = 9)
  <1>1. CASE UNCHANGED <<migrating, schema>>
    BY <1>1 DEF MigratesOnce
  <1>2. CASE StartMigration \/ \E reached \in {8, 9} : EndMigration(reached)
    BY <1>2 DEF StartMigration, EndMigration, MigratesOnce
  <1>3. \/ UNCHANGED <<migrating, schema>>
        \/ StartMigration \/ \E reached \in {8, 9} : EndMigration(reached)
    BY DEF RequestNext, Administer, Resolve, Load, Leave, vars, Next, Transaction, Begin,
       LockAndCheck, Commit, RollBack, Edit, SetTemplateStatus, SetProgramStatus, Support,
       Withdraw, Reschedule, ChangeAssignment, Tick
  <1> QED BY <1>1, <1>2, <1>3

-----------------------------------------------------------------------------
(* The resolution.                                                         *)

\* Whatever covers one day overlaps.
LEMMA CoveringOverlaps ==
  ASSUME NEW r, NEW s, NEW day \in Nat, Covers(r, day), Covers(s, day),
         r.from \in Moments, r.through \in Moments, s.from \in Moments, s.through \in Moments
  PROVE  Overlaps(r, s)
  <1>1. /\ r.from = None \/ r.from <= day
        /\ s.through = None \/ day <= s.through
        /\ s.from = None \/ s.from <= day
        /\ r.through = None \/ day <= r.through
    BY DEF Covers
  <1>2. /\ r.from = None \/ s.through = None \/ r.from <= s.through
        /\ s.from = None \/ r.through = None \/ s.from <= r.through
    <2> DEFINE rf == r.from
               rt == r.through
               sf == s.from
               st == s.through
    <2>1. rf \in Nat \union {None} /\ rt \in Nat \union {None}
            /\ sf \in Nat \union {None} /\ st \in Nat \union {None}
      BY DEF Moments
    <2> HIDE DEF rf, rt, sf, st
    <2>2. (rf = None \/ rf <= day) /\ (st = None \/ day <= st)
            => rf = None \/ st = None \/ rf <= st
      BY <2>1
    <2>3. (sf = None \/ sf <= day) /\ (rt = None \/ day <= rt)
            => sf = None \/ rt = None \/ sf <= rt
      BY <2>1
    <2> QED BY <1>1, <2>2, <2>3 DEF rf, rt, sf, st
  <1> QED BY <1>2 DEF Overlaps

LEMMA OneCandidate ==
  ASSUME IInv, AssignmentsAreDisjoint, NEW day \in Days,
         NEW c \in Candidates(day), NEW d \in Candidates(day)
  PROVE  c = d
  <1> USE CatalogStoreAssumption, CatalogRequestsAssumption
  <1>1. \A e \in {c, d} :
           /\ e \in DOMAIN claims /\ claims[e].ended = None
           /\ Covers(claims[e].claim, day)
           /\ Covers(assignment[claims[e].claim.assignment], day)
           /\ assignment[claims[e].claim.assignment].supported
    BY DEF Candidates, OpenClaims, AssignmentHolds
  <1>2. \A e \in {c, d} : claims[e].claim \in Claims
    <2>1. claims \in Seq(ClaimRows)
      BY Zenon DEF IInv, Typed
    <2>2. \A e \in {c, d} : claims[e] \in ClaimRows
      BY <1>1, <2>1
    <2> QED BY <2>2 DEF ClaimRows
  <1>3. \A e \in {c, d} :
           /\ claims[e].claim.assignment \in Assignments
           /\ claims[e].claim.from \in Moments /\ claims[e].claim.through \in Moments
    BY <1>2 DEF Moments
  <1>4. Overlaps(claims[c].claim, claims[d].claim) /\ Overlaps(claims[d].claim, claims[c].claim)
    BY <1>1, <1>3, CoveringOverlaps
  <1>5. claims[c].claim.assignment = claims[d].claim.assignment
    <2>1. \A e \in {c, d} : assignment[claims[e].claim.assignment] \in AssignmentRows
      BY <1>3 DEF IInv, Typed
    <2>2. Overlaps(assignment[claims[c].claim.assignment], assignment[claims[d].claim.assignment])
      BY <1>1, <2>1, CoveringOverlaps DEF AssignmentRows
    <2> QED BY <1>1, <1>3, <2>2 DEF AssignmentsAreDisjoint
  <1>6. c \in Nat /\ d \in Nat
    BY <1>1 DEF IInv, Typed
  <1>7. ~(c < d) /\ ~(d < c)
    BY <1>1, <1>4, <1>5 DEF IInv, ClaimsAreDisjoint
  <1> QED BY <1>6, <1>7

LEMMA Unambiguous ==
  ASSUME IInv, AssignmentsAreDisjoint
  PROVE  ResolutionIsUnambiguous
  <1> SUFFICES ASSUME NEW day \in Days PROVE Cardinality(Candidates(day)) <= 1
    BY DEF ResolutionIsUnambiguous
  <1>1. CASE Candidates(day) = {}
    BY <1>1, FS_EmptySet
  <1>2. CASE Candidates(day) # {}
    <2>1. PICK c : c \in Candidates(day)
      BY <1>2
    <2>2. Candidates(day) = {c}
      BY <2>1, OneCandidate
    <2>3. Cardinality({c}) = 1
      BY FS_Singleton
    <2> QED BY <2>2, <2>3
  <1> QED BY <1>1, <1>2

\* The version of a target exists.
LEMMA TargetIsVersion ==
  ASSUME IInv, NEW c \in DOMAIN claims
  PROVE  /\ TargetVersion(claims[c].target) \in Versions
         /\ claims[c].target.mode = "exact_version" \/ claims[c].target.id \in DOMAIN publications
  <1>1. Typed /\ KnownTarget(claims[c].target)
    BY Zenon DEF IInv, TargetsExist
  <1>2. claims[c] \in ClaimRows
    BY <1>1 DEF Typed
  <1>3. \A p \in DOMAIN publications : publications[p] \in PublicationRows
    BY <1>1 DEF Typed
  <1>4. \A p \in DOMAIN publications : publications[p].version \in Versions
    BY <1>3 DEF PublicationRows
  <1>5. claims[c].target \in AnyTargets
    BY <1>2 DEF ClaimRows
  <1> QED BY <1>1, <1>4, <1>5 DEF AnyTargets, KnownTarget, TargetVersion

\* What a resolution says of its claim stays true.
LEMMA TruthStays ==
  ASSUME IInv, HistoryStays, NEW resolution, StillTrue(resolution)
  PROVE  /\ StillTrue(resolution)'
         /\ resolution.lineage.version \in Versions
         /\ version'[resolution.lineage.version] = version[resolution.lineage.version]
  <1> DEFINE v(c) == TargetVersion(claims[c].target)
  <1>1. PICK c \in DOMAIN claims :
           /\ Sealed(v(c)) /\ CapabilitiesSupported(v(c))
           /\ resolution = [state |-> "resolved", lineage |-> Lineage(c), hash |-> version[v(c)].hash]
    BY DEF StillTrue
  <1>2. v(c) \in Versions
    BY TargetIsVersion
  <1>3. version'[v(c)] = version[v(c)]
    BY <1>1, <1>2 DEF HistoryStays
  <1>4. c \in DOMAIN claims' /\ claims'[c].target = claims[c].target
    BY DEF HistoryStays
  <1>5. TargetVersion(claims[c].target)' = v(c)
    <2>1. claims[c].target.mode = "exact_version" \/ claims[c].target.id \in DOMAIN publications
      BY TargetIsVersion
    <2>2. \A p \in DOMAIN publications : publications'[p].version = publications[p].version
      BY DEF HistoryStays
    <2> QED BY <1>4, <2>1, <2>2 DEF TargetVersion
  <1>6. Sealed(v(c))' /\ CapabilitiesSupported(v(c))'
    BY <1>1, <1>3, <1>5 DEF Sealed, CapabilitiesSupported
  <1>7. Lineage(c)' = Lineage(c)
    BY <1>4, <1>5 DEF Lineage
  <1>8. StillTrue(resolution)'
    BY <1>1, <1>3, <1>4, <1>5, <1>6, <1>7 DEF StillTrue
  <1> QED BY <1>1, <1>2, <1>3, <1>8 DEF Lineage

\* A visitor keeps what was learned while others change the catalog.
LEMMA KnowledgeStays ==
  ASSUME IInv, HistoryStays, VisitorKnows, UNCHANGED visitor, schema = 9 => schema' = 9
  PROVE  VisitorKnows'
  <1>1. visitor.step = "resolved" => StillTrue(visitor.resolution)'
    <2> SUFFICES ASSUME visitor.step = "resolved" PROVE StillTrue(visitor.resolution)'
      OBVIOUS
    <2>1. PICK resolution : resolution = visitor.resolution
      OBVIOUS
    <2>2. StillTrue(resolution)'
      BY <2>1, TruthStays DEF VisitorKnows
    <2> QED BY <2>1, <2>2
  <1>2. visitor.seen # None => StillShown(visitor.seen)'
    <2> SUFFICES ASSUME visitor.seen # None PROVE StillShown(visitor.seen)'
      OBVIOUS
    <2>1. PICK seen : seen = visitor.seen
      OBVIOUS
    <2>2. StillShown(seen)
      BY <2>1 DEF VisitorKnows
    <2>3. PICK resolution : resolution = seen.resolution
      OBVIOUS
    <2>4. /\ StillTrue(resolution)'
          /\ version'[resolution.lineage.version] = version[resolution.lineage.version]
      BY <2>2, <2>3, TruthStays DEF StillShown
    <2>5. StillShown(seen)'
      BY <2>2, <2>3, <2>4 DEF StillShown, ConfigurationKey
    <2> QED BY <2>1, <2>5
  <1> QED BY <1>1, <1>2 DEF VisitorKnows

-----------------------------------------------------------------------------
(* The visitor asks.                                                       *)

ResolutionFailures ==
    {"SCHEMA_CAPABILITY_UNSUPPORTED", "unavailable", "CATALOG_RESOLUTION_AMBIGUOUS",
     "CATALOG_CAPABILITY_UNSUPPORTED"}

LEMMA ResolutionIsTrue ==
  ASSUME NEW day
  PROVE  \/ Resolution(day).state \in ResolutionFailures
         \/ Resolution(day).state = "resolved" /\ schema = 9 /\ StillTrue(Resolution(day))
  <1>1. PICK c : c = CHOOSE candidate \in Candidates(day) : TRUE
    OBVIOUS
  <1>2. Candidates(day) # {} => c \in Candidates(day)
    BY <1>1
  <1>3. \/ /\ schema = 9 /\ Candidates(day) # {} /\ CapabilitiesSupported(Lineage(c).version)
           /\ Resolution(day) = [state |-> "resolved", lineage |-> Lineage(c),
                                 hash |-> version[Lineage(c).version].hash]
        \/ \E code \in ResolutionFailures : Resolution(day) = [state |-> code]
    BY <1>1 DEF Resolution, ResolutionFailures
  <1>4. CASE \E code \in ResolutionFailures : Resolution(day) = [state |-> code]
    BY <1>4
  <1>5. CASE /\ schema = 9 /\ Candidates(day) # {} /\ CapabilitiesSupported(Lineage(c).version)
             /\ Resolution(day) = [state |-> "resolved", lineage |-> Lineage(c),
                                   hash |-> version[Lineage(c).version].hash]
    <2>1. c \in DOMAIN claims /\ Sealed(TargetVersion(claims[c].target))
      BY <1>2, <1>5 DEF Candidates, OpenClaims
    <2>2. Lineage(c).version = TargetVersion(claims[c].target)
      BY DEF Lineage
    <2>3. StillTrue(Resolution(day))
      BY <1>5, <2>1, <2>2 DEF StillTrue
    <2> QED BY <1>5, <2>3
  <1> QED BY <1>3, <1>4, <1>5

LEMMA CatalogStands ==
  ASSUME UNCHANGED vars
  PROVE  /\ \A resolution : StillTrue(resolution) => StillTrue(resolution)'
         /\ \A seen : StillShown(seen) => StillShown(seen)'
  <1>1. UNCHANGED <<version, publications, claims>>
    BY DEF vars
  <1>2. \A resolution : StillTrue(resolution) => StillTrue(resolution)'
    <2>1. \A target : TargetVersion(target)' = TargetVersion(target)
      BY <1>1 DEF TargetVersion
    <2>2. \A v : Sealed(v)' = Sealed(v) /\ CapabilitiesSupported(v)' = CapabilitiesSupported(v)
      BY <1>1 DEF Sealed, CapabilitiesSupported
    <2>3. \A c : Lineage(c)' = Lineage(c)
      BY <1>1, <2>1 DEF Lineage
    <2> QED BY <1>1, <2>1, <2>2, <2>3, Zenon DEF StillTrue
  <1>3. \A seen : StillShown(seen) => StillShown(seen)'
    BY <1>1, <1>2, Zenon DEF StillShown, ConfigurationKey
  <1> QED BY <1>2, <1>3

\* What becomes of a visitor who knows what the new state says.
LEMMA VisitorBecomes ==
  ASSUME UNCHANGED vars, NEW step, NEW seen, NEW resolution,
         visitor'.step = step, visitor'.seen = seen,
         seen # None => StillShown(seen),
         step = "resolved" =>
            schema = 9 /\ visitor'.resolution = resolution /\ StillTrue(resolution)
  PROVE  VisitorKnows'
  <1>1. seen # None => StillShown(seen)'
    BY CatalogStands
  <1>2. step = "resolved" => StillTrue(resolution)' /\ schema' = 9
    BY CatalogStands DEF vars
  <1> QED BY <1>1, <1>2 DEF VisitorKnows

LEMMA ResolveKeeps ==
  ASSUME VisitorKnows, NEW day \in Days, Resolve(day)
  PROVE  VisitorKnows' /\ AnsweredAsShown' /\ ResolvedCanBeLoaded'
  <1>1. PICK resolution : resolution = Resolution(day)
    OBVIOUS
  <1>2. PICK seen : seen = visitor.seen
    OBVIOUS
  <1>3. /\ UNCHANGED vars
        /\ visitor' = IF resolution.state = "resolved"
                      THEN [step |-> "resolved", seen |-> seen, day |-> day,
                            resolution |-> resolution]
                      ELSE [step |-> "answered", seen |-> seen, answer |-> resolution.state]
    BY <1>1, <1>2 DEF Resolve
  <1>4. seen # None => StillShown(seen)
    BY <1>2 DEF VisitorKnows
  <1>5. CASE resolution.state = "resolved"
    <2>1. StillTrue(resolution) /\ schema = 9
      BY <1>1, <1>5, ResolutionIsTrue DEF ResolutionFailures
    <2>2. visitor'.step = "resolved" /\ visitor'.seen = seen /\ visitor'.resolution = resolution
      BY <1>3, <1>5
    <2>3. VisitorKnows'
      BY <1>3, <1>4, <2>1, <2>2, VisitorBecomes
    <2>4. AnsweredAsShown' /\ ResolvedCanBeLoaded'
      BY <2>2 DEF AnsweredAsShown, CalculatedAsShown, StaleMeansReplaced, Outcomes,
         ResolvedCanBeLoaded
    <2> QED BY <2>3, <2>4
  <1>6. CASE resolution.state # "resolved"
    <2>1. resolution.state \in ResolutionFailures
      BY <1>1, <1>6, ResolutionIsTrue
    <2>2. visitor' = [step |-> "answered", seen |-> seen, answer |-> resolution.state]
      BY <1>3, <1>6
    <2>3. VisitorKnows'
      BY <1>3, <1>4, <2>2, VisitorBecomes
    <2>4. visitor'.answer \notin {"calculated", "CONFIGURATION_STALE"}
            /\ "resolution" \notin DOMAIN visitor' /\ visitor'.step = "answered"
      BY <2>1, <2>2 DEF ResolutionFailures
    <2>5. AnsweredAsShown' /\ ResolvedCanBeLoaded'
      BY <2>4 DEF AnsweredAsShown, CalculatedAsShown, StaleMeansReplaced, Outcomes,
         ResolvedCanBeLoaded
    <2> QED BY <2>3, <2>5
  <1> QED BY <1>5, <1>6

-----------------------------------------------------------------------------
(* What was resolved is loaded.                                            *)

ProjectionFailures ==
    {"CATALOG_CAPABILITY_UNSUPPORTED", "CATALOG_TAX_TREATMENT_MISSING",
     "CATALOG_TAX_TREATMENT_AMBIGUOUS", "RESOLVED_CONFIGURATION_INVALID"}

\* What never happens to sealed content whose keys the engine reads.
Preventable == {"CATALOG_TAX_TREATMENT_AMBIGUOUS", "RESOLVED_CONFIGURATION_INVALID"}

\* A seal keeps the capabilities that the rows declare.
LEMMA SealedCapabilities ==
  ASSUME NEW content \in Contents, Canonical[content] # Null
  PROVE  Canonical[content].body.capabilities = ToSet(Rows[content].capabilities)
  <1>1. DOMAIN Rows[content] = CatalogTables
    BY CatalogRequestsAssumption DEF WellFormedCatalog
  <1>2. Canonical[content].body = CanonicalCatalog(Rows[content])
    BY DEF Canonical, SealCatalogVersionContent
  <1>3. CanonicalCatalog(Rows[content]).capabilities = ToSet(Rows[content].capabilities)
    BY <1>1 DEF CanonicalCatalog, CatalogTables
  <1> QED BY <1>2, <1>3

LEMMA ProjectionOutcomes ==
  ASSUME NEW content \in DOMAIN Projection
  PROVE  \/ Projection[content].state = "projected"
         \/ /\ Projection[content].state = "failed"
            /\ Projection[content].code \in ProjectionFailures
            /\ ToSet(Rows[content].capabilities) \subseteq EngineCapabilities =>
                  Projection[content].code # "CATALOG_CAPABILITY_UNSUPPORTED"
  <1> DEFINE catalog == Canonical[content].body
  <1>1. content \in Contents /\ Canonical[content] # Null
    BY DEF Projection
  <1>2. Projection[content] = ProjectCatalogVersionContent(catalog)
    BY <1>1 DEF Projection
  <1>3. catalog.capabilities = ToSet(Rows[content].capabilities)
    BY <1>1, SealedCapabilities
  <1> HIDE DEF catalog
  <1>4. \/ ProjectCatalogVersionContent(catalog).state = "projected"
        \/ \E code \in ProjectionFailures :
              /\ ProjectCatalogVersionContent(catalog) = [state |-> "failed", code |-> code]
              /\ catalog.capabilities \subseteq EngineCapabilities =>
                    code # "CATALOG_CAPABILITY_UNSUPPORTED"
    BY DEF ProjectCatalogVersionContent, ProjectionFails, ProjectionFailures
  <1> QED BY <1>2, <1>3, <1>4

\* Of sealed content that the engine has the capabilities for, only a missing
\* tax rule keeps it from being projected.
LEMMA OnlyTaxRulesAreMissing ==
  ASSUME NEW content \in DOMAIN Projection, Projection[content].state = "failed",
         EngineReadsTheKeys, ToSet(Rows[content].capabilities) \subseteq EngineCapabilities
  PROVE  Projection[content].code \notin Preventable
  <1> DEFINE c == Rows[content]
             projection == ProjectCatalogVersionContent(CanonicalCatalog(c))
  <1>1. content \in Contents /\ Canonical[content] # Null
        /\ Projection[content] = ProjectCatalogVersionContent(Canonical[content].body)
    BY DEF Projection
  <1>2. AcceptedCatalog(c) /\ Projection[content] = projection
    BY <1>1 DEF Canonical, SealCatalogVersionContent
  <1>3. WellFormedCatalog(c) /\ UsableKeys(c)
    BY <1>1, CatalogRequestsAssumption DEF EngineReadsTheKeys, UsableKeys
  <1> HIDE DEF c
  <1>4. IF \A item \in ToSet(c.items) : HasTaxRule(c, item)
        THEN projection.state = "projected"
        ELSE projection = ProjectionFails("CATALOG_TAX_TREATMENT_MISSING")
    BY <1>2, <1>3, ProjectionOfSealedContent DEF c
  <1> HIDE DEF projection
  <1>5. projection = ProjectionFails("CATALOG_TAX_TREATMENT_MISSING")
    BY <1>2, <1>4
  <1> QED BY <1>2, <1>5 DEF ProjectionFails, Preventable

\* Where schema 9 and the seal stay, only a migration keeps a version from
\* being loaded.
LEMMA SealedIsLoaded ==
  ASSUME IInv, schema = 9, NEW resolution, StillTrue(resolution)
  PROVE  LET v == resolution.lineage.version
         IN /\ version[v].content \in DOMAIN Projection
            /\ CapabilitiesSupported(v)
            /\ Loaded(v, resolution.hash) =
                 IF migrating THEN [state |-> "MIGRATION_LOCK_UNAVAILABLE"]
                 ELSE [state |-> "loaded", content |-> version[v].content]
  <1> DEFINE v == resolution.lineage.version
  <1>1. PICK c \in DOMAIN claims :
           /\ Sealed(TargetVersion(claims[c].target))
           /\ CapabilitiesSupported(TargetVersion(claims[c].target))
           /\ resolution = [state |-> "resolved", lineage |-> Lineage(c),
                            hash |-> version[TargetVersion(claims[c].target)].hash]
    BY DEF StillTrue
  <1>2. v = TargetVersion(claims[c].target)
    BY <1>1 DEF Lineage
  <1>3. /\ v \in Versions /\ Sealed(v) /\ CapabilitiesSupported(v)
        /\ resolution.hash = version[v].hash
    BY <1>1, <1>2, TargetIsVersion
  <1> HIDE DEF v
  <1>4. version[v].hash = ContentHash[version[v].content] /\ version[v].hash # None
    BY <1>3 DEF IInv, SealedHashIsOfRows
  <1>5. version[v].content \in Contents
    BY <1>3 DEF IInv, Typed, VersionRows
  <1>6. version[v].content \in DOMAIN Projection
    <2>1. Canonical[version[v].content] # Null
      BY <1>4, <1>5, CatalogRequestsAssumption
    <2> QED BY <1>5, <2>1 DEF Projection
  <1>7. Loaded(v, resolution.hash) =
           IF migrating THEN [state |-> "MIGRATION_LOCK_UNAVAILABLE"]
           ELSE [state |-> "loaded", content |-> version[v].content]
    BY <1>3, <1>4 DEF Loaded
  <1> QED BY <1>3, <1>6, <1>7 DEF v

\* The answers of a load, but for the last that need no configuration.
LoadAnswers ==
    {"MIGRATION_LOCK_UNAVAILABLE", "CATALOG_TAX_TREATMENT_MISSING",
     "CATALOG_TAX_TREATMENT_AMBIGUOUS", "RESOLVED_CONFIGURATION_INVALID"}

LEMMA ConfiguredOutcomes ==
  ASSUME IInv, schema = 9, NEW resolution, StillTrue(resolution)
  PROVE  \/ Configured(resolution) =
               [state |-> "configured",
                hash |-> <<ConfigurationKey(resolution),
                           ProjectedHash(version[resolution.lineage.version].content)>>]
         \/ /\ Configured(resolution).state \in LoadAnswers
            /\ EngineReadsTheKeys =>
                  Configured(resolution).state \notin Preventable
  <1> DEFINE v == resolution.lineage.version
             content == version[v].content
  <1>1. /\ content \in DOMAIN Projection /\ CapabilitiesSupported(v)
        /\ Loaded(v, resolution.hash) =
             IF migrating THEN [state |-> "MIGRATION_LOCK_UNAVAILABLE"]
             ELSE [state |-> "loaded", content |-> content]
    BY SealedIsLoaded
  <1>2. CASE migrating
    <2>1. Configured(resolution) = [state |-> "MIGRATION_LOCK_UNAVAILABLE"]
      BY <1>1, <1>2 DEF Configured
    <2> QED BY <2>1 DEF LoadAnswers, Preventable
  <1>3. CASE ~migrating
    <2>1. Configured(resolution) =
            IF Projection[content].state = "failed" THEN [state |-> Projection[content].code]
            ELSE [state |-> "configured",
                  hash |-> <<ConfigurationKey(resolution), ProjectedHash(content)>>]
      <3>1. Loaded(v, resolution.hash) = [state |-> "loaded", content |-> content]
        BY <1>1, <1>3
      <3> HIDE DEF content
      <3> QED BY <3>1 DEF Configured
    <2>2. CASE Projection[content].state # "failed"
      BY <2>1, <2>2
    <2>3. CASE Projection[content].state = "failed"
      <3>0. ToSet(Rows[content].capabilities) \subseteq EngineCapabilities
        BY <1>1 DEF CapabilitiesSupported
      <3>1. Projection[content].code \in ProjectionFailures
              /\ Projection[content].code # "CATALOG_CAPABILITY_UNSUPPORTED"
        BY <1>1, <2>3, <3>0, ProjectionOutcomes
      <3>2. Configured(resolution) = [state |-> Projection[content].code]
        BY <2>1, <2>3
      <3>3. EngineReadsTheKeys => Projection[content].code \notin Preventable
        BY <1>1, <2>3, <3>0, OnlyTaxRulesAreMissing
      <3> QED BY <3>1, <3>2, <3>3 DEF ProjectionFailures, LoadAnswers, Preventable
    <2> QED BY <2>2, <2>3
  <1> QED BY <1>2, <1>3

\* One claim has one resolution.
LEMMA OneClaimOneResolution ==
  ASSUME NEW r, NEW s, StillTrue(r), StillTrue(s),
         r.lineage.applicability = s.lineage.applicability
  PROVE  r = s
  BY DEF StillTrue, Lineage

\* A resolution is its key.
LEMMA OneKeyOneResolution ==
  ASSUME NEW r, NEW s, StillTrue(r), StillTrue(s), ConfigurationKey(r) = ConfigurationKey(s)
  PROVE  r = s
  BY DEF StillTrue, ConfigurationKey

\* The two halves of AnsweredAsShown, for an order with what was seen.
LEMMA OrderIsAnsweredAsShown ==
  ASSUME IInv, schema = 9, NEW resolution, StillTrue(resolution), NEW seen, StillShown(seen)
  PROVE  LET answer == Answered(seen, Configured(resolution))
         IN /\ answer \in LoadAnswers \union {"calculated", "CONFIGURATION_STALE"}
            /\ EngineReadsTheKeys => answer \notin Preventable
            /\ answer = "calculated" => seen.resolution = resolution
            /\ answer = "CONFIGURATION_STALE" =>
                  resolution.lineage.applicability # seen.resolution.lineage.applicability
  <1> DEFINE configured == Configured(resolution)
             hash == <<ConfigurationKey(resolution),
                       ProjectedHash(version[resolution.lineage.version].content)>>
  <1>1. \/ configured = [state |-> "configured", hash |-> hash]
        \/ /\ configured.state \in LoadAnswers
           /\ EngineReadsTheKeys => configured.state \notin Preventable
    BY ConfiguredOutcomes
  <1>2. StillTrue(seen.resolution)
    BY DEF StillShown
  <1> HIDE DEF configured
  <1>3. CASE configured = [state |-> "configured", hash |-> hash]
    <2>1. Answered(seen, configured) = IF hash # seen.hash THEN "CONFIGURATION_STALE" ELSE "calculated"
      BY <1>3 DEF Answered
    <2>2. hash = seen.hash => seen.resolution = resolution
      <3>1. hash = seen.hash => ConfigurationKey(resolution) = ConfigurationKey(seen.resolution)
        BY DEF StillShown
      <3> QED BY <1>2, <3>1, OneKeyOneResolution
    <2>3. seen.resolution = resolution => hash = seen.hash
      BY DEF StillShown
    <2>4. resolution.lineage.applicability = seen.resolution.lineage.applicability
            => seen.resolution = resolution
      BY <1>2, OneClaimOneResolution
    <2> QED BY <2>1, <2>2, <2>3, <2>4 DEF configured, LoadAnswers, Preventable
  <1>4. CASE configured.state \in LoadAnswers
               /\ (EngineReadsTheKeys => configured.state \notin Preventable)
    <2>1. Answered(seen, configured) = configured.state
      BY <1>4 DEF Answered, LoadAnswers, Preventable
    <2>2. configured.state \notin {"calculated", "CONFIGURATION_STALE"}
      BY <1>4 DEF LoadAnswers, Preventable
    <2> QED BY <1>4, <2>1, <2>2 DEF configured
  <1> QED BY <1>1, <1>3, <1>4

LEMMA LoadKeeps ==
  ASSUME IInv, VisitorKnows, Load
  PROVE  VisitorKnows' /\ AnsweredAsShown' /\ (EngineReadsTheKeys => ResolvedCanBeLoaded')
  <1>1. PICK resolution : resolution = visitor.resolution
    OBVIOUS
  <1>2. PICK seen : seen = visitor.seen
    OBVIOUS
  <1>3. PICK configured : configured = Configured(resolution)
    OBVIOUS
  <1>4. /\ UNCHANGED vars
        /\ visitor' =
             IF seen # None
             THEN [step |-> "answered", seen |-> seen, answer |-> Answered(seen, configured),
                   resolution |-> resolution]
             ELSE IF configured.state = "configured"
             THEN [step |-> "idle",
                   seen |-> [day |-> visitor.day, resolution |-> resolution,
                             hash |-> configured.hash]]
             ELSE [step |-> "answered", seen |-> None, answer |-> configured.state,
                   resolution |-> resolution]
    BY <1>1, <1>2, <1>3 DEF Load
  <1>5. schema = 9 /\ StillTrue(resolution) /\ (seen # None => StillShown(seen))
    BY <1>1, <1>2 DEF VisitorKnows, Load
  <1>6. CASE seen # None
    <2>1. PICK answer : answer = Answered(seen, configured)
      OBVIOUS
    <2>2. visitor' = [step |-> "answered", seen |-> seen, answer |-> answer,
                      resolution |-> resolution]
      BY <1>4, <1>6, <2>1
    <2>3. /\ answer \in LoadAnswers \union {"calculated", "CONFIGURATION_STALE"}
          /\ EngineReadsTheKeys => answer \notin Preventable
          /\ answer = "calculated" => seen.resolution = resolution
          /\ answer = "CONFIGURATION_STALE" =>
                resolution.lineage.applicability # seen.resolution.lineage.applicability
      BY <1>3, <1>5, <1>6, <2>1, OrderIsAnsweredAsShown
    <2>4. VisitorKnows'
      BY <1>4, <1>5, <2>2, VisitorBecomes
    <2>5. AnsweredAsShown'
      BY <2>2, <2>3 DEF AnsweredAsShown, CalculatedAsShown, StaleMeansReplaced, Outcomes
    <2>6. EngineReadsTheKeys => ResolvedCanBeLoaded'
      BY <2>2, <2>3 DEF ResolvedCanBeLoaded, LoadAnswers, Preventable
    <2> QED BY <2>4, <2>5, <2>6
  <1>7. CASE seen = None /\ configured.state = "configured"
    <2>1. configured =
            [state |-> "configured",
             hash |-> <<ConfigurationKey(resolution),
                        ProjectedHash(version[resolution.lineage.version].content)>>]
      BY <1>3, <1>5, <1>7, ConfiguredOutcomes DEF LoadAnswers, Preventable
    <2>2. PICK shown : shown = [day |-> visitor.day, resolution |-> resolution,
                                hash |-> configured.hash]
      OBVIOUS
    <2>3. visitor' = [step |-> "idle", seen |-> shown]
      BY <1>4, <1>7, <2>2
    <2>4. StillShown(shown)
      BY <1>5, <2>1, <2>2 DEF StillShown
    <2>5. VisitorKnows'
      BY <1>4, <2>3, <2>4, VisitorBecomes
    <2>6. AnsweredAsShown' /\ ResolvedCanBeLoaded'
      BY <2>3 DEF AnsweredAsShown, CalculatedAsShown, StaleMeansReplaced, Outcomes,
         ResolvedCanBeLoaded
    <2> QED BY <2>5, <2>6
  <1>8. CASE seen = None /\ configured.state # "configured"
    <2>1. /\ configured.state \in LoadAnswers
          /\ EngineReadsTheKeys => configured.state \notin Preventable
      BY <1>3, <1>5, <1>8, ConfiguredOutcomes
    <2>2. visitor' = [step |-> "answered", seen |-> seen, answer |-> configured.state,
                      resolution |-> resolution]
      BY <1>4, <1>8
    <2>3. VisitorKnows'
      BY <1>4, <1>5, <2>2, VisitorBecomes
    <2>4. AnsweredAsShown'
      <3>1. configured.state \notin {"calculated", "CONFIGURATION_STALE"}
        BY <2>1 DEF LoadAnswers, Preventable
      <3> QED BY <2>2, <3>1 DEF AnsweredAsShown, CalculatedAsShown, StaleMeansReplaced, Outcomes
    <2>5. EngineReadsTheKeys => ResolvedCanBeLoaded'
      BY <2>1, <2>2 DEF ResolvedCanBeLoaded, LoadAnswers, Preventable
    <2> QED BY <2>3, <2>4, <2>5
  <1> QED BY <1>6, <1>7, <1>8

LEMMA LeaveKeeps ==
  ASSUME Leave
  PROVE  VisitorKnows' /\ AnsweredAsShown' /\ ResolvedCanBeLoaded'
  BY DEF Leave, NotAsked, VisitorKnows, AnsweredAsShown, CalculatedAsShown, StaleMeansReplaced,
     Outcomes, ResolvedCanBeLoaded

-----------------------------------------------------------------------------
(* The whole.                                                              *)

LEMMA RequestInitIInv ==
  ASSUME RequestInit
  PROVE  RequestIInv /\ ResolvedCanBeLoaded
  <1>1. Init /\ visitor = NotAsked
    BY DEF RequestInit
  <1>2. AssignmentsAreDisjoint
    BY <1>1 DEF Init, AssignmentsAreDisjoint, Overlaps
  <1>3. MigratesOnce
    BY <1>1 DEF Init, MigratesOnce
  <1>4. VisitorKnows /\ AnsweredAsShown /\ ResolvedCanBeLoaded
    BY <1>1 DEF NotAsked, VisitorKnows, AnsweredAsShown, CalculatedAsShown, StaleMeansReplaced,
       Outcomes, ResolvedCanBeLoaded
  <1> QED BY <1>1, <1>2, <1>3, <1>4, InitIInv DEF RequestIInv

LEMMA RequestNextKeeps ==
  ASSUME RequestIInv, [RequestNext]_requestVars
  PROVE  RequestIInv' /\ (EngineReadsTheKeys /\ ResolvedCanBeLoaded => ResolvedCanBeLoaded')
  <1> USE DEF RequestIInv
  <1>1. CASE UNCHANGED requestVars
    <2>1. UNCHANGED vars /\ UNCHANGED visitor
      BY <1>1 DEF requestVars
    <2>2. IInv'
      BY <2>1, NextKeeps
    <2>3. UNCHANGED <<assignment, migrating, schema>>
      BY <2>1 DEF vars
    <2>4. AssignmentsAreDisjoint' /\ MigratesOnce'
      BY <2>3 DEF AssignmentsAreDisjoint, MigratesOnce
    <2>5. HistoryStays
      BY <2>1 DEF vars, HistoryStays
    <2>6. VisitorKnows'
      BY <2>1, <2>3, <2>5, KnowledgeStays
    <2> QED BY <2>1, <2>2, <2>4, <2>6 DEF AnsweredAsShown, CalculatedAsShown,
           StaleMeansReplaced, Outcomes, ResolvedCanBeLoaded
  <1>2. CASE RequestNext
    <2>1. AssignmentsAreDisjoint' /\ MigratesOnce' /\ (schema = 9 => schema' = 9)
      BY <1>2, AssignmentsStayDisjoint, SchemaSteps
    <2>2. ASSUME IInv', HistoryStays, UNCHANGED visitor
          PROVE  RequestIInv' /\ (ResolvedCanBeLoaded => ResolvedCanBeLoaded')
      <3>1. VisitorKnows'
        BY <2>1, <2>2, KnowledgeStays
      <3> QED BY <2>1, <2>2, <3>1 DEF AnsweredAsShown, CalculatedAsShown,
             StaleMeansReplaced, Outcomes, ResolvedCanBeLoaded
    <2>3. CASE \E task \in Tasks : Administer(task)
      <3>1. UNCHANGED visitor
        BY <2>3 DEF Administer
      <3> QED BY <2>2, <2>3, <3>1, AdministerKeeps
    <2>4. CASE Next /\ UNCHANGED visitor
      BY <2>2, <2>4, NextKeeps, NextKeepsHistory
    <2>5. ASSUME UNCHANGED vars
          PROVE  IInv'
      BY <2>5, NextKeeps
    <2>6. CASE \E day \in Days : Resolve(day)
      <3>1. UNCHANGED vars
        BY <2>6 DEF Resolve
      <3> QED BY <2>1, <2>5, <2>6, <3>1, ResolveKeeps
    <2>7. CASE Load
      <3>1. UNCHANGED vars
        BY <2>7 DEF Load
      <3> QED BY <2>1, <2>5, <2>7, <3>1, LoadKeeps
    <2>8. CASE Leave
      <3>1. UNCHANGED vars
        BY <2>8 DEF Leave
      <3> QED BY <2>1, <2>5, <2>8, <3>1, LeaveKeeps
    <2> QED BY <1>2, <2>3, <2>4, <2>6, <2>7, <2>8 DEF RequestNext
  <1> QED BY <1>1, <1>2

\* The invariant of the requests holds in every reachable state, for any
\* catalog and any number of administrators.
THEOREM RequestsInductive == RequestSpec => []RequestIInv
  <1>1. RequestInit => RequestIInv
    BY RequestInitIInv
  <1>2. RequestIInv /\ [RequestNext]_requestVars => RequestIInv'
    BY RequestNextKeeps
  <1> QED BY <1>1, <1>2, PTL DEF RequestSpec

\* No day ever has two candidates.
THEOREM ResolutionIsUnambiguousHolds == RequestSpec => []ResolutionIsUnambiguous
  <1>1. RequestIInv => ResolutionIsUnambiguous
    BY Unambiguous DEF RequestIInv
  <1> QED BY <1>1, RequestsInductive, PTL

\* An order is calculated with what the visitor was shown, and refused as
\* stale only when another claim holds.
THEOREM AnsweredAsShownHolds == RequestSpec => []AnsweredAsShown
  <1>1. RequestIInv => AnsweredAsShown
    BY DEF RequestIInv
  <1> QED BY <1>1, RequestsInductive, PTL

\* What was resolved can be loaded, where the engine reads the keys of the
\* contents.
THEOREM ResolvedCanBeLoadedHolds ==
  ASSUME EngineReadsTheKeys
  PROVE  RequestSpec => []ResolvedCanBeLoaded
  <1>1. RequestInit => ResolvedCanBeLoaded
    BY RequestInitIInv
  <1>2. RequestIInv /\ ResolvedCanBeLoaded /\ [RequestNext]_requestVars => ResolvedCanBeLoaded'
    BY RequestNextKeeps
  <1> QED BY <1>1, <1>2, RequestsInductive, PTL DEF RequestSpec

\* Publications stay a chain when transactions commit with older timestamps.
THEOREM RequestsKeepTheChain == RequestSpec => []PublicationsAreAChain
  <1>1. RequestIInv => PublicationsAreAChain
    BY DEF RequestIInv, IInv
  <1> QED BY <1>1, RequestsInductive, PTL

=============================================================================
