------------------------ MODULE StoreCalcOrderProofs ------------------------
(***************************************************************************)
(* What StoreCalcOrder promises of every set of drafts.                    *)
(***************************************************************************)
EXTENDS StoreCalcOrder, StoreCalcContentProofs

\* What is sealed is the canonical form of a draft that content.js accepts.
SealedIsTheDraft ==
    /\ draft \in Drafts
    /\ catalog # Null =>
          /\ AcceptedCatalog(draft)
          /\ catalog = [body |-> CanonicalCatalog(draft), contentHash |-> Hash(CanonicalCatalog(draft))]

THEOREM SealedIsTheDraftHolds == Spec => []SealedIsTheDraft
<1>1. Init => SealedIsTheDraft
  BY DEF Init, SealedIsTheDraft
<1>2. SealedIsTheDraft /\ [Next]_vars => SealedIsTheDraft'
  <2> SUFFICES ASSUME SealedIsTheDraft, [Next]_vars
               PROVE  SealedIsTheDraft'
    OBVIOUS
  <2>1. CASE SealDraft
    <3>1. AcceptedCatalog(draft)
      BY <2>1 DEF SealDraft, SealCatalogVersionContent
    <3> QED BY <2>1, <3>1 DEF SealDraft, SealedIsTheDraft, SealCatalogVersionContent
  <2>2. CASE Project
    BY <2>2 DEF Project, SealedIsTheDraft
  <2>3. ASSUME NEW funds \in Funds, OpenOrder(funds)  PROVE SealedIsTheDraft'
    BY <2>3 DEF OpenOrder, Answer, SealedIsTheDraft
  <2>4. ASSUME NEW item \in KeysOf(draft.items), AddOne(item)  PROVE SealedIsTheDraft'
    <3>1. UNCHANGED <<draft, catalog>>
      BY <2>4, Zenon DEF AddOne, Answer
    <3> QED BY <3>1 DEF SealedIsTheDraft
  <2>5. CASE UNCHANGED vars
    BY <2>5 DEF vars, SealedIsTheDraft
  <2> QED BY <2>1, <2>2, <2>3, <2>4, <2>5 DEF Next
<1> QED BY <1>1, <1>2, PTL DEF Spec

-----------------------------------------------------------------------------
(* The order of the rows.                                                  *)

LEMMA ReversedIsReordered ==
    ASSUME NEW s, IsSequence(s)
    PROVE  Reordered(s, s) /\ Reordered(s, Reverse(s))
<1>1. Len(s) \in Nat /\ DOMAIN s = 1..Len(s)
  BY SequenceShape
<1> DEFINE back == [i \in DOMAIN s |-> (Len(s) - i) + 1]
<1>2. Reordered(s, s)
  BY SameIsReordered
<1>3. Permutes(back, s)
  <2>1. back \in [DOMAIN s -> DOMAIN s]
    BY <1>1
  <2>2. \A i \in DOMAIN s : back[(Len(s) - i) + 1] = i /\ (Len(s) - i) + 1 \in DOMAIN s
    BY <1>1
  <2>3. \A j, k \in DOMAIN s : back[j] = back[k] => j = k
    BY <1>1
  <2> HIDE DEF back
  <2> QED BY <2>1, <2>2, <2>3 DEF Permutes
<1>4. Reverse(s) = At(s, back)
  BY <1>1 DEF Reverse, At
<1> HIDE DEF back
<1> QED BY <1>2, <1>3, <1>4 DEF Reordered

\* content.js:776: neither the hash of a catalog nor anything projected from
\* it depends on the order in which the queries delivered the rows.
THEOREM RowOrderIsIrrelevantHolds == Spec => []RowOrderIsIrrelevant
<1>1. SealedIsTheDraft => RowOrderIsIrrelevant
  <2> SUFFICES ASSUME SealedIsTheDraft, catalog # Null, NEW table \in DOMAIN draft
               PROVE  SealCatalogVersionContent([draft EXCEPT ![table] = Reverse(@)]) = catalog
    BY DEF RowOrderIsIrrelevant
  <2> DEFINE reversed == [draft EXCEPT ![table] = Reverse(@)]
  <2>1. WellFormedCatalog(draft) /\ AcceptedCatalog(draft)
    BY DraftsAssumption DEF SealedIsTheDraft
  <2>2. ReorderedCatalog(draft, reversed)
    <3>1. \A other \in CatalogTables :
             Reordered(draft[other], draft[other]) /\ Reordered(draft[other], Reverse(draft[other]))
      BY <2>1, ReversedIsReordered DEF WellFormedCatalog, IsSequence
    <3> QED BY <2>1, <3>1 DEF ReorderedCatalog, WellFormedCatalog
  <2> HIDE DEF reversed
  <2>3. AcceptedCatalog(reversed) /\ CanonicalCatalog(reversed) = CanonicalCatalog(draft)
    BY <2>1, <2>2, RowsInAnyOrder
  <2>4. SealCatalogVersionContent(reversed) = catalog
    BY <2>3 DEF SealCatalogVersionContent, SealedIsTheDraft
  <2> QED BY <2>4 DEF reversed
<1> QED BY <1>1, SealedIsTheDraftHolds, PTL

-----------------------------------------------------------------------------
(* The projection.                                                         *)

ProjectionIsOfTheDraft ==
    projection # Null =>
        /\ catalog # Null
        /\ projection = ProjectCatalogVersionContent(CanonicalCatalog(draft))

THEOREM ProjectionIsOfTheDraftHolds == Spec => []ProjectionIsOfTheDraft
<1>1. Init => ProjectionIsOfTheDraft
  BY DEF Init, ProjectionIsOfTheDraft
<1>2. SealedIsTheDraft /\ ProjectionIsOfTheDraft /\ [Next]_vars => ProjectionIsOfTheDraft'
  <2> SUFFICES ASSUME SealedIsTheDraft, ProjectionIsOfTheDraft, [Next]_vars
               PROVE  ProjectionIsOfTheDraft'
    OBVIOUS
  <2>1. CASE SealDraft
    BY <2>1 DEF SealDraft, ProjectionIsOfTheDraft
  <2>2. CASE Project
    <3>1. catalog.body = CanonicalCatalog(draft)
      BY <2>2 DEF Project, SealedIsTheDraft
    <3> QED BY <2>2, <3>1 DEF Project, ProjectionIsOfTheDraft
  <2>3. ASSUME NEW funds \in Funds, OpenOrder(funds)  PROVE ProjectionIsOfTheDraft'
    BY <2>3 DEF OpenOrder, Answer, ProjectionIsOfTheDraft
  <2>4. ASSUME NEW item \in KeysOf(draft.items), AddOne(item)  PROVE ProjectionIsOfTheDraft'
    <3>1. UNCHANGED <<draft, catalog, projection>>
      BY <2>4, Zenon DEF AddOne, Answer
    <3> QED BY <3>1 DEF ProjectionIsOfTheDraft
  <2>5. CASE UNCHANGED vars
    BY <2>5 DEF vars, ProjectionIsOfTheDraft
  <2> QED BY <2>1, <2>2, <2>3, <2>4, <2>5 DEF Next
<1> QED BY <1>1, <1>2, SealedIsTheDraftHolds, PTL DEF Spec

LEMMA NoRuleIsNull ==
    ASSUME NEW item, ~HasTaxRule(draft, item)
    PROVE  RuleOf(item) = Null
<1>1. /\ {rule \in ToSet(draft.taxRules) : rule.scope = "item" /\ rule.item = item.key} = {}
      /\ {rule \in ToSet(draft.taxRules) : rule.scope = "category" /\ rule.category = item.category} = {}
      /\ {rule \in ToSet(draft.taxRules) : rule.scope = "template"} = {}
  BY DEF HasTaxRule, ItemRules, CategoryRules, TemplateRules
<1> DEFINE inScope(scope) == {rule \in Rows(draft.taxRules) :
                             /\ rule.scope = scope
                             /\ scope = "item" => rule.item = item.key
                             /\ scope = "category" => rule.category = item.category}
<1>2. inScope("item") = {} /\ inScope("category") = {} /\ inScope("template") = {}
  BY <1>1 DEF Rows
<1> QED BY <1>2, Zenon DEF RuleOf

\* configurationProjector.js:196: two validators in two files agree.  Sealed
\* content fails to project only for a capability the engine lacks, an item
\* no tax rule applies to, or a key that the engine's narrower pattern
\* refuses; never because content.js let a row pass that core.js rejects.
THEOREM SealedContentProjectsHolds == Spec => []SealedContentProjects
<1>1. SealedIsTheDraft /\ ProjectionIsOfTheDraft => SealedContentProjects
  <2> SUFFICES ASSUME SealedIsTheDraft, ProjectionIsOfTheDraft,
                      projection # Null, projection.state = "failed",
                      Rows(draft.capabilities) \ EngineCapabilities = {},
                      \A item \in Rows(draft.items) : RuleOf(item) # Null,
                      (KeysOf(draft.items) \union KeysOf(draft.buckets)) \intersect IdentityOnlyKeys = {}
               PROVE  FALSE
    BY Zenon DEF SealedContentProjects
  <2>1. /\ WellFormedCatalog(draft) /\ AcceptedCatalog(draft)
        /\ projection = ProjectCatalogVersionContent(CanonicalCatalog(draft))
    BY DraftsAssumption DEF SealedIsTheDraft, ProjectionIsOfTheDraft
  <2>2. ToSet(draft.capabilities) \subseteq EngineCapabilities /\ UsableKeys(draft)
    BY DEF Rows, UsableKeys
  <2>3. \A item \in ToSet(draft.items) : HasTaxRule(draft, item)
    BY NoRuleIsNull DEF Rows
  <2>4. projection.state = "projected"
    BY <2>1, <2>2, <2>3, ProjectionOfSealedContent
  <2> QED BY <2>4
<1> QED BY <1>1, SealedIsTheDraftHolds, ProjectionIsOfTheDraftHolds, PTL

-----------------------------------------------------------------------------
(* The configuration of a draft, and its canonical form.                   *)

MembershipRow(m) == [bucket |-> m.bucket, type |-> m.type, primary |-> m.primary]

WarningRow(w) == [code |-> w.code, severity |-> w.severity]

BucketRow(bucket) ==
    [key |-> bucket.key, order |-> bucket.order,
     limitState |-> bucket.limitState, limit |-> bucket.limit]

ConstraintRow(constraint) ==
    [key |-> constraint.key, order |-> constraint.priority, measure |-> constraint.measure,
     comparator |-> constraint.comparator, limitState |-> constraint.limitState,
     limit |-> constraint.limit]

ItemFields ==
    {"key", "order", "priceState", "price", "minimum", "maximum", "step", "availability", "tax",
     "memberships", "warnings"}

\* row is the item of the catalog c as the engine has it.
ShowsItem(c, body, item, row) ==
    /\ ItemFields \subseteq DOMAIN row
    /\ row.key = item.key /\ row.order = item.order
    /\ row.priceState = item.priceState /\ row.price = item.price
    /\ row.minimum = item.minimum /\ row.maximum = item.maximum /\ row.step = item.step
    /\ row.availability = item.availability
    /\ row.tax = ResolveTaxTreatment(body, item)
    /\ IsSequence(row.memberships) /\ IsSequence(row.warnings)
    /\ ToSet(row.memberships) = {MembershipRow(m) : m \in {m \in ToSet(c.memberships) : m.item = item.key}}
    /\ ToSet(row.warnings) = {WarningRow(w) : w \in {w \in ToSet(c.warnings) : w.item = item.key}}

\* conf has the rows of the catalog c, in some order.
ConfigurationOf(c, body, conf) ==
    /\ DOMAIN conf = {"capabilities", "items", "buckets", "constraints", "warnings"}
    /\ \A table \in {"items", "buckets", "constraints", "warnings"} : IsSequence(conf[table])
    /\ \A row \in ToSet(conf.items) : \E item \in ToSet(c.items) : ShowsItem(c, body, item, row)
    /\ \A item \in ToSet(c.items) : \E row \in ToSet(conf.items) : ShowsItem(c, body, item, row)
    /\ \A i, j \in DOMAIN conf.items : conf.items[i].key = conf.items[j].key => i = j
    /\ ToSet(conf.buckets) = {BucketRow(bucket) : bucket \in ToSet(c.buckets)}
    /\ ToSet(conf.constraints) = {ConstraintRow(constraint) : constraint \in ToSet(c.constraints)}
    /\ ToSet(conf.warnings) = {WarningRow(w) : w \in {w \in ToSet(c.warnings) : w.scope = "template"}}

LEMMA SortedHasTheRows ==
    ASSUME NEW s, IsSequence(s), NEW m \in Nat, NEW keys \in [DOMAIN s -> [1..m -> Int]]
    PROVE  LET q == InOrder(DOMAIN s, KeyOrder(keys))
           IN /\ DOMAIN q = DOMAIN s /\ Permutes(q, s)
              /\ IsSequence(At(s, q)) /\ ToSet(At(s, q)) = ToSet(s)
<1> DEFINE q == InOrder(DOMAIN s, KeyOrder(keys))
<1>1. Sorts(q, Len(s), keys) /\ DOMAIN q = DOMAIN s
  BY SortedRows
<1> HIDE DEF q
<1>2. Permutes(q, s)
  BY <1>1, SequenceShape DEF Sorts, Permutes
<1>3. Reordered(s, At(s, q))
  BY <1>2 DEF Reordered
<1>4. IsSequence(At(s, q)) /\ ToSet(At(s, q)) = ToSet(s)
  BY <1>3, ReorderedRows
<1> QED BY <1>1, <1>2, <1>4 DEF q

LEMMA KeptHasTheRows ==
    ASSUME NEW s, IsSequence(s), NEW I \in SUBSET DOMAIN s
    PROVE  /\ IsSequence(Kept(s, I))
           /\ ToSet(Kept(s, I)) = {s[i] : i \in I}
<1> DEFINE q == InOrder(I, Upward(I))
<1>1. Climbs(q, I) /\ DOMAIN q = 1..Cardinality(I)
  BY FilteredRows
<1>2. IsSequence(Kept(s, I))
  BY KeptRows
<1> HIDE DEF q
<1>3. Kept(s, I) = [k \in DOMAIN q |-> s[q[k]]]
  BY DEF Kept, At, q
<1>4. ToSet(Kept(s, I)) \subseteq {s[i] : i \in I}
  BY <1>1, <1>3 DEF ToSet, Climbs
<1>5. ASSUME NEW i \in I  PROVE s[i] \in ToSet(Kept(s, I))
  <2>1. PICK k \in DOMAIN q : q[k] = i
    BY <1>1 DEF Climbs
  <2> QED BY <1>3, <2>1 DEF ToSet
<1> QED BY <1>2, <1>4, <1>5

\* A sequence of as many rows is a sequence.
LEMMA MappedIsSequence ==
    ASSUME NEW s, IsSequence(s), NEW t, t = [i \in DOMAIN s |-> t[i]]
    PROVE  IsSequence(t) /\ DOMAIN t = DOMAIN s /\ ToSet(t) = {t[i] : i \in DOMAIN s}
<1>1. DOMAIN s = 1..Len(s) /\ Len(s) \in Nat /\ DOMAIN t = DOMAIN s
  BY SequenceShape
<1> QED BY <1>1 DEF IsSequence, ToSet

LEMMA WarningRowsSorted ==
    ASSUME NEW s, IsSequence(s),
           \A i \in DOMAIN s : s[i].severity \in DOMAIN SeverityOrder /\ s[i].code \in Int
    PROVE  IsSequence(SortOn(s, WarningIdentity)) /\ ToSet(SortOn(s, WarningIdentity)) = ToSet(s)
<1> DEFINE keys == [i \in DOMAIN s |-> WarningIdentity(s[i])]
           q == InOrder(DOMAIN s, KeyOrder(keys))
<1>1. \A i \in DOMAIN s : WarningIdentity(s[i]) \in [1..2 -> Int]
  <2> SUFFICES ASSUME NEW i \in DOMAIN s  PROVE WarningIdentity(s[i]) \in [1..2 -> Int]
    OBVIOUS
  <2>1. SeverityOrder[s[i].severity] \in Int
    BY DEF SeverityOrder
  <2> QED BY <2>1, Parts DEF WarningIdentity
<1>2. keys \in [DOMAIN s -> [1..2 -> Int]]
  BY <1>1
<1>3. SortOn(s, WarningIdentity) = [k \in DOMAIN s |-> s[q[k]]]
  BY DEF SortOn
<1> HIDE DEF keys, q
<1>4. /\ DOMAIN q = DOMAIN s /\ Permutes(q, s)
      /\ IsSequence(At(s, q)) /\ ToSet(At(s, q)) = ToSet(s)
  BY <1>2, SortedHasTheRows DEF q
<1>5. [k \in DOMAIN s |-> s[q[k]]] = At(s, q)
  BY <1>4 DEF At
<1> QED BY <1>3, <1>4, <1>5, Zenon

LEMMA PositionedRowsSorted ==
    ASSUME NEW s, IsSequence(s), \A i \in DOMAIN s : s[i].order \in Int /\ s[i].key \in Int
    PROVE  /\ IsSequence(SortOn(s, PositionOf)) /\ ToSet(SortOn(s, PositionOf)) = ToSet(s)
           /\ \E q : Permutes(q, s) /\ SortOn(s, PositionOf) = At(s, q)
<1> DEFINE keys == [i \in DOMAIN s |-> PositionOf(s[i])]
           q == InOrder(DOMAIN s, KeyOrder(keys))
<1>1. \A i \in DOMAIN s : PositionOf(s[i]) \in [1..2 -> Int]
  BY Parts DEF PositionOf
<1>2. keys \in [DOMAIN s -> [1..2 -> Int]]
  BY <1>1
<1>3. SortOn(s, PositionOf) = [k \in DOMAIN s |-> s[q[k]]]
  BY DEF SortOn
<1> HIDE DEF keys, q
<1>4. /\ DOMAIN q = DOMAIN s /\ Permutes(q, s)
      /\ IsSequence(At(s, q)) /\ ToSet(At(s, q)) = ToSet(s)
  BY <1>2, SortedHasTheRows DEF q
<1>5. [k \in DOMAIN s |-> s[q[k]]] = At(s, q)
  BY <1>4 DEF At
<1> QED BY <1>3, <1>4, <1>5, Zenon

LEMMA MembershipRowsSorted ==
    ASSUME NEW s, IsSequence(s), \A i \in DOMAIN s : s[i].bucket \in Int
    PROVE  /\ IsSequence(SortOn(s, LAMBDA m : <<m.bucket>>))
           /\ ToSet(SortOn(s, LAMBDA m : <<m.bucket>>)) = ToSet(s)
<1> DEFINE keys == [i \in DOMAIN s |-> <<s[i].bucket>>]
           q == InOrder(DOMAIN s, KeyOrder(keys))
<1>1. \A i \in DOMAIN s : <<s[i].bucket>> \in [1..1 -> Int]
  BY SingleAndQuadruple
<1>2. keys \in [DOMAIN s -> [1..1 -> Int]]
  BY <1>1
<1>3. SortOn(s, LAMBDA m : <<m.bucket>>) = [k \in DOMAIN s |-> s[q[k]]]
  BY DEF SortOn
<1> HIDE DEF keys, q
<1>4. /\ DOMAIN q = DOMAIN s /\ Permutes(q, s)
      /\ IsSequence(At(s, q)) /\ ToSet(At(s, q)) = ToSet(s)
  BY <1>2, SortedHasTheRows DEF q
<1>5. [k \in DOMAIN s |-> s[q[k]]] = At(s, q)
  BY <1>4 DEF At
<1> QED BY <1>3, <1>4, <1>5, Zenon

LEMMA ProjectedItemShows ==
    ASSUME NEW c, NEW body, BodyOf(c, body), NEW item
    PROVE  ShowsItem(c, body, item, ProjectItem(body, item))
<1> DEFINE m == Kept(c.memberships, ItemMemberships(c, item))
           w == Kept(c.warnings, ItemWarnings(c, item))
           members == [i \in DOMAIN m |->
               [bucket |-> m[i].bucket, type |-> m[i].type, primary |-> m[i].primary]]
           warned == [i \in DOMAIN w |-> [code |-> w[i].code, severity |-> w[i].severity]]
           row == ProjectItem(body, item)
<1>1. /\ body.memberships = c.memberships /\ body.warnings = c.warnings
      /\ IsSequence(c.memberships) /\ IsSequence(c.warnings)
  BY KeysOfCatalog DEF BodyOf, CatalogTables
<1>2. Filter(c.memberships, LAMBDA r : r.item = item.key) = m
  BY Zenon DEF Filter, Kept, At, Upward, ItemMemberships
<1>3. Filter(c.warnings, LAMBDA r : r.item = item.key) = w
  BY Zenon DEF Filter, Kept, At, Upward, ItemWarnings
<1>4. /\ IsSequence(m) /\ ToSet(m) = {c.memberships[i] : i \in ItemMemberships(c, item)}
      /\ IsSequence(w) /\ ToSet(w) = {c.warnings[i] : i \in ItemWarnings(c, item)}
  BY <1>1, KeptHasTheRows DEF ItemMemberships, ItemWarnings
<1> HIDE DEF m, w
<1>5. row =
        [key |-> item.key, order |-> item.order,
         priceState |-> item.priceState, price |-> item.price,
         minimum |-> item.minimum, maximum |-> item.maximum, step |-> item.step,
         availability |-> item.availability,
         tax |-> ResolveTaxTreatment(body, item),
         memberships |-> members, warnings |-> warned]
  BY <1>1, <1>2, <1>3, Zenon DEF ProjectItem
<1>6. /\ members = [i \in DOMAIN m |-> members[i]] /\ \A i \in DOMAIN m : members[i] = MembershipRow(m[i])
      /\ warned = [i \in DOMAIN w |-> warned[i]] /\ \A i \in DOMAIN w : warned[i] = WarningRow(w[i])
  BY DEF MembershipRow, WarningRow
<1> HIDE DEF members, warned, row
<1>7. /\ IsSequence(members) /\ ToSet(members) = {members[i] : i \in DOMAIN m}
      /\ IsSequence(warned) /\ ToSet(warned) = {warned[i] : i \in DOMAIN w}
  BY <1>4, <1>6, MappedIsSequence
<1>8. ToSet(members) = {MembershipRow(r) : r \in {r \in ToSet(c.memberships) : r.item = item.key}}
  <2>1. ToSet(members) = {MembershipRow(r) : r \in ToSet(m)}
    BY <1>6, <1>7 DEF ToSet
  <2>2. ToSet(m) = {r \in ToSet(c.memberships) : r.item = item.key}
    BY <1>4 DEF ItemMemberships, ToSet
  <2> QED BY <2>1, <2>2
<1>9. ToSet(warned) = {WarningRow(r) : r \in {r \in ToSet(c.warnings) : r.item = item.key}}
  <2>1. ToSet(warned) = {WarningRow(r) : r \in ToSet(w)}
    BY <1>6, <1>7 DEF ToSet
  <2>2. ToSet(w) = {r \in ToSet(c.warnings) : r.item = item.key}
    BY <1>4 DEF ItemWarnings, ToSet
  <2> QED BY <2>1, <2>2
<1>10. /\ ItemFields \subseteq DOMAIN row
       /\ row.key = item.key /\ row.order = item.order
       /\ row.priceState = item.priceState /\ row.price = item.price
       /\ row.minimum = item.minimum /\ row.maximum = item.maximum /\ row.step = item.step
       /\ row.availability = item.availability
       /\ row.tax = ResolveTaxTreatment(body, item)
       /\ row.memberships = members /\ row.warnings = warned
  BY <1>5 DEF ItemFields
<1>11. ShowsItem(c, body, item, row)
  BY <1>7, <1>8, <1>9, <1>10, Zenon DEF ShowsItem
<1> QED BY <1>11 DEF row

LEMMA ProjectedConfigurationIs ==
    ASSUME NEW c, NEW body, BodyOf(c, body)
    PROVE  ConfigurationOf(c, body, ProjectedConfiguration(body))
<1> DEFINE w == Kept(c.warnings, TemplateWarnings(c))
           items == [i \in DOMAIN c.items |-> ProjectItem(body, c.items[i])]
           buckets == [i \in DOMAIN c.buckets |->
            [key |-> c.buckets[i].key, order |-> c.buckets[i].order,
             limitState |-> c.buckets[i].limitState, limit |-> c.buckets[i].limit]]
           constraints == [i \in DOMAIN c.constraints |->
               [key |-> c.constraints[i].key, order |-> c.constraints[i].priority,
                measure |-> c.constraints[i].measure, comparator |-> c.constraints[i].comparator,
                limitState |-> c.constraints[i].limitState, limit |-> c.constraints[i].limit]]
           warnings == [i \in DOMAIN w |-> [code |-> w[i].code, severity |-> w[i].severity]]
           conf == [capabilities |-> ToSet(c.capabilities), items |-> items, buckets |-> buckets,
                    constraints |-> constraints, warnings |-> warnings]
<1>1. /\ body.capabilities = ToSet(c.capabilities) /\ body.items = c.items /\ body.buckets = c.buckets
      /\ body.constraints = c.constraints /\ body.warnings = c.warnings
      /\ WellFormedCatalog(c) /\ AcceptedCatalog(c)
  BY DEF BodyOf
<1>2. Filter(c.warnings, LAMBDA r : r.scope = "template") = w
  BY Zenon DEF Filter, Kept, At, Upward, TemplateWarnings
<1>3. IsSequence(c.items) /\ IsSequence(c.buckets) /\ IsSequence(c.constraints) /\ IsSequence(c.warnings)
  BY <1>1, KeysOfCatalog DEF CatalogTables
<1>4. IsSequence(w) /\ ToSet(w) = {c.warnings[i] : i \in TemplateWarnings(c)}
  BY <1>3, KeptHasTheRows DEF TemplateWarnings
<1> HIDE DEF w
<1>5. ProjectedConfiguration(body) = conf
  BY <1>1, <1>2, Zenon DEF ProjectedConfiguration
<1>6. /\ items = [i \in DOMAIN c.items |-> items[i]]
      /\ \A i \in DOMAIN c.items : items[i] = ProjectItem(body, c.items[i])
      /\ buckets = [i \in DOMAIN c.buckets |-> buckets[i]]
      /\ \A i \in DOMAIN c.buckets : buckets[i] = BucketRow(c.buckets[i])
      /\ constraints = [i \in DOMAIN c.constraints |-> constraints[i]]
      /\ \A i \in DOMAIN c.constraints : constraints[i] = ConstraintRow(c.constraints[i])
      /\ warnings = [i \in DOMAIN w |-> warnings[i]]
      /\ \A i \in DOMAIN w : warnings[i] = WarningRow(w[i])
  BY DEF BucketRow, ConstraintRow, WarningRow
<1>7. /\ DOMAIN conf = {"capabilities", "items", "buckets", "constraints", "warnings"}
      /\ conf.items = items /\ conf.buckets = buckets
      /\ conf.constraints = constraints /\ conf.warnings = warnings
      /\ conf["items"] = items /\ conf["buckets"] = buckets
      /\ conf["constraints"] = constraints /\ conf["warnings"] = warnings
  OBVIOUS
<1> HIDE DEF items, buckets, constraints, warnings, conf
<1>8. /\ IsSequence(items) /\ DOMAIN items = DOMAIN c.items /\ ToSet(items) = {items[i] : i \in DOMAIN c.items}
      /\ IsSequence(buckets) /\ ToSet(buckets) = {buckets[i] : i \in DOMAIN c.buckets}
      /\ IsSequence(constraints) /\ ToSet(constraints) = {constraints[i] : i \in DOMAIN c.constraints}
      /\ IsSequence(warnings) /\ ToSet(warnings) = {warnings[i] : i \in DOMAIN w}
  <2>1. IsSequence(items) /\ DOMAIN items = DOMAIN c.items /\ ToSet(items) = {items[i] : i \in DOMAIN c.items}
    BY <1>3, <1>6, MappedIsSequence
  <2>2. IsSequence(buckets) /\ ToSet(buckets) = {buckets[i] : i \in DOMAIN c.buckets}
    BY <1>3, <1>6, MappedIsSequence
  <2>3. IsSequence(constraints) /\ ToSet(constraints) = {constraints[i] : i \in DOMAIN c.constraints}
    BY <1>3, <1>6, MappedIsSequence
  <2>4. IsSequence(warnings) /\ ToSet(warnings) = {warnings[i] : i \in DOMAIN w}
    BY <1>4, <1>6, MappedIsSequence
  <2> QED BY <2>1, <2>2, <2>3, <2>4
<1>9. /\ \A row \in ToSet(items) : \E item \in ToSet(c.items) : ShowsItem(c, body, item, row)
      /\ \A item \in ToSet(c.items) : \E row \in ToSet(items) : ShowsItem(c, body, item, row)
  <2>1. \A i \in DOMAIN c.items : ShowsItem(c, body, c.items[i], items[i])
    BY <1>6, ProjectedItemShows
  <2> QED BY <1>8, <2>1 DEF ToSet
<1>10. \A i, j \in DOMAIN items : items[i].key = items[j].key => i = j
  <2>1. \A i \in DOMAIN c.items : items[i].key = c.items[i].key
    BY <1>6, ProjectItemKeeps
  <2>2. UniqueOn(c.items, KeyOf)
    BY <1>1 DEF AcceptedCatalog, RowsAreUnique
  <2> QED BY <1>8, <2>1, <2>2 DEF UniqueOn, KeyOf
<1>11. ToSet(buckets) = {BucketRow(bucket) : bucket \in ToSet(c.buckets)}
  <2>1. {buckets[i] : i \in DOMAIN c.buckets} = {BucketRow(c.buckets[i]) : i \in DOMAIN c.buckets}
    <3>1. \A i \in DOMAIN c.buckets : buckets[i] = BucketRow(c.buckets[i])
      BY <1>6
    <3> QED BY <3>1, Zenon
  <2>2. {BucketRow(c.buckets[i]) : i \in DOMAIN c.buckets} = {BucketRow(bucket) : bucket \in ToSet(c.buckets)}
    <3>1. \A i \in DOMAIN c.buckets : c.buckets[i] \in ToSet(c.buckets)
      BY DEF ToSet
    <3>2. \A row \in ToSet(c.buckets) : \E i \in DOMAIN c.buckets : row = c.buckets[i]
      BY DEF ToSet
    <3> QED BY <3>1, <3>2
  <2> QED BY <1>8, <2>1, <2>2, Zenon
<1>12. ToSet(constraints) = {ConstraintRow(constraint) : constraint \in ToSet(c.constraints)}
  <2>1. {constraints[i] : i \in DOMAIN c.constraints} = {ConstraintRow(c.constraints[i]) : i \in DOMAIN c.constraints}
    <3>1. \A i \in DOMAIN c.constraints : constraints[i] = ConstraintRow(c.constraints[i])
      BY <1>6
    <3> QED BY <3>1, Zenon
  <2>2. {ConstraintRow(c.constraints[i]) : i \in DOMAIN c.constraints} = {ConstraintRow(constraint) : constraint \in ToSet(c.constraints)}
    <3>1. \A i \in DOMAIN c.constraints : c.constraints[i] \in ToSet(c.constraints)
      BY DEF ToSet
    <3>2. \A row \in ToSet(c.constraints) : \E i \in DOMAIN c.constraints : row = c.constraints[i]
      BY DEF ToSet
    <3> QED BY <3>1, <3>2
  <2> QED BY <1>8, <2>1, <2>2, Zenon
<1>13. ToSet(warnings) = {WarningRow(r) : r \in {r \in ToSet(c.warnings) : r.scope = "template"}}
  <2>1. ToSet(warnings) = {WarningRow(r) : r \in ToSet(w)}
    BY <1>6, <1>8 DEF ToSet
  <2>2. ToSet(w) = {r \in ToSet(c.warnings) : r.scope = "template"}
    BY <1>4 DEF TemplateWarnings, ToSet
  <2> QED BY <2>1, <2>2
<1>14. \A table \in {"items", "buckets", "constraints", "warnings"} : IsSequence(conf[table])
  BY <1>7, <1>8
<1>15. ConfigurationOf(c, body, conf)
  BY <1>7, <1>9, <1>10, <1>11, <1>12, <1>13, <1>14, Zenon DEF ConfigurationOf
<1> QED BY <1>5, <1>15

LEMMA CanonicalItemShows ==
    ASSUME NEW c, WellFormedCatalog(c), AcceptedCatalog(c),
           NEW body, NEW item, NEW row, ShowsItem(c, body, item, row)
    PROVE  ShowsItem(c, body, item, CanonicalItem(row))
<1> DEFINE members == SortOn(row.memberships, LAMBDA m : <<m.bucket>>)
           warned == SortOn(row.warnings, WarningIdentity)
           canonical == CanonicalItem(row)
<1>1. /\ \A m \in ToSet(c.memberships) : m.bucket \in Int
      /\ \A w \in ToSet(c.warnings) : w.severity \in DOMAIN SeverityOrder /\ w.code \in Int
  <2>1. \A i \in DOMAIN c.memberships : c.memberships[i].bucket \in Int
    BY KeysOfCatalog
  <2>2. \A i \in DOMAIN c.warnings :
           c.warnings[i].severity \in DOMAIN SeverityOrder /\ c.warnings[i].code \in Int
    BY DEF WellFormedCatalog, AcceptedCatalog, AcceptedRows, AcceptedCatalogWarning, IsRuleKey,
           SeverityOrder
  <2> QED BY <2>1, <2>2 DEF ToSet
<1>2. /\ ItemFields \subseteq DOMAIN row
      /\ row.key = item.key /\ row.order = item.order
      /\ row.priceState = item.priceState /\ row.price = item.price
      /\ row.minimum = item.minimum /\ row.maximum = item.maximum /\ row.step = item.step
      /\ row.availability = item.availability
      /\ row.tax = ResolveTaxTreatment(body, item)
  BY Zenon DEF ShowsItem
<1>3. /\ IsSequence(row.memberships) /\ IsSequence(row.warnings)
      /\ ToSet(row.memberships) = {MembershipRow(m) : m \in {m \in ToSet(c.memberships) : m.item = item.key}}
      /\ ToSet(row.warnings) = {WarningRow(w) : w \in {w \in ToSet(c.warnings) : w.item = item.key}}
  BY Zenon DEF ShowsItem
<1>4. \A i \in DOMAIN row.memberships : row.memberships[i].bucket \in Int
  <2>1. \A m \in ToSet(row.memberships) : m.bucket \in Int
    BY <1>1, <1>3 DEF MembershipRow
  <2> QED BY <2>1 DEF ToSet
<1>5. \A i \in DOMAIN row.warnings :
         row.warnings[i].severity \in DOMAIN SeverityOrder /\ row.warnings[i].code \in Int
  <2>1. \A w \in ToSet(row.warnings) : w.severity \in DOMAIN SeverityOrder /\ w.code \in Int
    BY <1>1, <1>3 DEF WarningRow
  <2> QED BY <2>1 DEF ToSet
<1>6. IsSequence(members) /\ ToSet(members) = ToSet(row.memberships)
  BY <1>3, <1>4, MembershipRowsSorted, Zenon
<1>7. IsSequence(warned) /\ ToSet(warned) = ToSet(row.warnings)
  BY <1>3, <1>5, WarningRowsSorted, Zenon
<1>8. canonical = [row EXCEPT !.memberships = members, !.warnings = warned]
  BY Zenon DEF CanonicalItem
<1> HIDE DEF members, warned, canonical
<1>9. /\ DOMAIN canonical = DOMAIN row
      /\ canonical.memberships = members /\ canonical.warnings = warned
      /\ canonical.key = row.key /\ canonical.order = row.order
      /\ canonical.priceState = row.priceState /\ canonical.price = row.price
      /\ canonical.minimum = row.minimum /\ canonical.maximum = row.maximum
      /\ canonical.step = row.step /\ canonical.availability = row.availability
      /\ canonical.tax = row.tax
  BY <1>2, <1>8 DEF ItemFields
<1>10. ShowsItem(c, body, item, canonical)
  <2>1. ItemFields \subseteq DOMAIN canonical
    BY <1>2, <1>9
  <2> QED BY <1>2, <1>3, <1>6, <1>7, <1>9, <2>1, Zenon DEF ShowsItem
<1> QED BY <1>10 DEF canonical

LEMMA CanonicalConfigurationIs ==
    ASSUME NEW c, WellFormedCatalog(c), AcceptedCatalog(c),
           NEW body, NEW conf, ConfigurationOf(c, body, conf)
    PROVE  ConfigurationOf(c, body, CanonicalConfiguration(conf))
<1> DEFINE canonicals == [i \in DOMAIN conf.items |-> CanonicalItem(conf.items[i])]
           items == SortOn(canonicals, PositionOf)
           buckets == SortOn(conf.buckets, PositionOf)
           constraints == SortOn(conf.constraints, PositionOf)
           warnings == SortOn(conf.warnings, WarningIdentity)
           canonical == CanonicalConfiguration(conf)
<1>1. /\ \A item \in ToSet(c.items) : item.order \in Int /\ item.key \in Int
      /\ \A bucket \in ToSet(c.buckets) : bucket.order \in Int /\ bucket.key \in Int
      /\ \A constraint \in ToSet(c.constraints) : constraint.priority \in Int /\ constraint.key \in Int
      /\ \A w \in ToSet(c.warnings) : w.severity \in DOMAIN SeverityOrder /\ w.code \in Int
  <2>1. /\ \A i \in DOMAIN c.items : c.items[i].order \in Int /\ c.items[i].key \in Int
        /\ \A i \in DOMAIN c.buckets : c.buckets[i].order \in Int /\ c.buckets[i].key \in Int
        /\ \A i \in DOMAIN c.constraints : c.constraints[i].priority \in Int /\ c.constraints[i].key \in Int
    BY KeysOfCatalog DEF WellFormedCatalog
  <2>2. \A i \in DOMAIN c.warnings :
           c.warnings[i].severity \in DOMAIN SeverityOrder /\ c.warnings[i].code \in Int
    BY DEF WellFormedCatalog, AcceptedCatalog, AcceptedRows, AcceptedCatalogWarning, IsRuleKey,
           SeverityOrder
  <2> QED BY <2>1, <2>2 DEF ToSet
<1>2. /\ DOMAIN conf = {"capabilities", "items", "buckets", "constraints", "warnings"}
      /\ IsSequence(conf.items) /\ IsSequence(conf.buckets)
      /\ IsSequence(conf.constraints) /\ IsSequence(conf.warnings)
  BY DEF ConfigurationOf
<1>3. /\ \A row \in ToSet(conf.items) : \E item \in ToSet(c.items) : ShowsItem(c, body, item, row)
      /\ \A item \in ToSet(c.items) : \E row \in ToSet(conf.items) : ShowsItem(c, body, item, row)
      /\ \A i, j \in DOMAIN conf.items : conf.items[i].key = conf.items[j].key => i = j
  BY Zenon DEF ConfigurationOf
<1>4. /\ ToSet(conf.buckets) = {BucketRow(bucket) : bucket \in ToSet(c.buckets)}
      /\ ToSet(conf.constraints) = {ConstraintRow(constraint) : constraint \in ToSet(c.constraints)}
      /\ ToSet(conf.warnings) = {WarningRow(w) : w \in {w \in ToSet(c.warnings) : w.scope = "template"}}
  BY Zenon DEF ConfigurationOf
<1>5. /\ \A i \in DOMAIN canonicals : canonicals[i] = CanonicalItem(conf.items[i])
      /\ canonicals = [i \in DOMAIN conf.items |-> canonicals[i]]
  OBVIOUS
<1> HIDE DEF canonicals
<1>6. /\ IsSequence(canonicals) /\ DOMAIN canonicals = DOMAIN conf.items
      /\ ToSet(canonicals) = {canonicals[i] : i \in DOMAIN conf.items}
  BY <1>2, <1>5, MappedIsSequence
<1>7. \A i \in DOMAIN conf.items : conf.items[i] \in ToSet(conf.items) /\ canonicals[i] \in ToSet(canonicals)
  BY <1>6 DEF ToSet
<1>8. \A item \in ToSet(c.items) : \A i \in DOMAIN conf.items :
         ShowsItem(c, body, item, conf.items[i]) => ShowsItem(c, body, item, canonicals[i])
  BY <1>5, <1>6, CanonicalItemShows
<1>9. \A i \in DOMAIN conf.items :
         /\ canonicals[i].key = conf.items[i].key
         /\ canonicals[i].key \in Int /\ canonicals[i].order \in Int
  <2> SUFFICES ASSUME NEW i \in DOMAIN conf.items
               PROVE  /\ canonicals[i].key = conf.items[i].key
                      /\ canonicals[i].key \in Int /\ canonicals[i].order \in Int
    OBVIOUS
  <2>1. PICK item \in ToSet(c.items) : ShowsItem(c, body, item, conf.items[i])
    BY <1>3, <1>7
  <2>2. ShowsItem(c, body, item, canonicals[i])
    BY <1>8, <2>1
  <2>3. /\ conf.items[i].key = item.key /\ canonicals[i].key = item.key
        /\ canonicals[i].order = item.order
    BY <2>1, <2>2, Zenon DEF ShowsItem
  <2> QED BY <1>1, <2>3
<1>10. /\ IsSequence(items) /\ ToSet(items) = ToSet(canonicals)
       /\ \E q : Permutes(q, canonicals) /\ items = At(canonicals, q)
  BY <1>6, <1>9, PositionedRowsSorted, Zenon
<1>11. IsSequence(buckets) /\ ToSet(buckets) = ToSet(conf.buckets)
  <2>1. \A bucket \in ToSet(conf.buckets) : bucket.order \in Int /\ bucket.key \in Int
    BY <1>1, <1>4 DEF BucketRow
  <2>2. \A i \in DOMAIN conf.buckets : conf.buckets[i].order \in Int /\ conf.buckets[i].key \in Int
    BY <2>1 DEF ToSet
  <2> QED BY <1>2, <2>2, PositionedRowsSorted, Zenon
<1>12. IsSequence(constraints) /\ ToSet(constraints) = ToSet(conf.constraints)
  <2>1. \A constraint \in ToSet(conf.constraints) : constraint.order \in Int /\ constraint.key \in Int
    BY <1>1, <1>4 DEF ConstraintRow
  <2>2. \A i \in DOMAIN conf.constraints :
           conf.constraints[i].order \in Int /\ conf.constraints[i].key \in Int
    BY <2>1 DEF ToSet
  <2> QED BY <1>2, <2>2, PositionedRowsSorted, Zenon
<1>13. IsSequence(warnings) /\ ToSet(warnings) = ToSet(conf.warnings)
  <2>1. \A w \in ToSet(conf.warnings) : w.severity \in DOMAIN SeverityOrder /\ w.code \in Int
    BY <1>1, <1>4 DEF WarningRow
  <2>2. \A i \in DOMAIN conf.warnings :
           conf.warnings[i].severity \in DOMAIN SeverityOrder /\ conf.warnings[i].code \in Int
    BY <2>1 DEF ToSet
  <2> QED BY <1>2, <2>2, WarningRowsSorted, Zenon
<1>14. canonical = [conf EXCEPT !.items = items, !.buckets = buckets,
                                !.constraints = constraints, !.warnings = warnings]
  BY Zenon DEF CanonicalConfiguration, canonicals
<1> HIDE DEF items, buckets, constraints, warnings, canonical
<1>15. /\ DOMAIN canonical = {"capabilities", "items", "buckets", "constraints", "warnings"}
       /\ canonical.items = items /\ canonical.buckets = buckets
       /\ canonical.constraints = constraints /\ canonical.warnings = warnings
  BY <1>2, <1>14
<1>16. \A table \in {"items", "buckets", "constraints", "warnings"} : IsSequence(canonical[table])
  BY <1>10, <1>11, <1>12, <1>13, <1>15
<1>17. /\ \A row \in ToSet(items) : \E item \in ToSet(c.items) : ShowsItem(c, body, item, row)
       /\ \A item \in ToSet(c.items) : \E row \in ToSet(items) : ShowsItem(c, body, item, row)
  <2>1. ASSUME NEW row \in ToSet(canonicals)
        PROVE  \E item \in ToSet(c.items) : ShowsItem(c, body, item, row)
    <3>1. PICK i \in DOMAIN conf.items : row = canonicals[i]
      BY <1>6
    <3> QED BY <1>3, <1>7, <1>8, <3>1
  <2>2. ASSUME NEW item \in ToSet(c.items)
        PROVE  \E row \in ToSet(canonicals) : ShowsItem(c, body, item, row)
    <3>1. PICK shown \in ToSet(conf.items) : ShowsItem(c, body, item, shown)
      BY <1>3
    <3>2. PICK i \in DOMAIN conf.items : shown = conf.items[i]
      BY DEF ToSet
    <3> QED BY <1>7, <1>8, <3>1, <3>2
  <2> QED BY <1>10, <2>1, <2>2
<1>18. \A i, j \in DOMAIN items : items[i].key = items[j].key => i = j
  <2>1. PICK q : Permutes(q, canonicals) /\ items = At(canonicals, q)
    BY <1>10
  <2>2. /\ DOMAIN items = DOMAIN canonicals
        /\ \A i \in DOMAIN items : items[i] = canonicals[q[i]] /\ q[i] \in DOMAIN conf.items
    BY <1>6, <2>1 DEF Permutes, At
  <2> QED BY <1>3, <1>6, <1>9, <2>1, <2>2 DEF Permutes
<1>19. ConfigurationOf(c, body, canonical)
  BY <1>4, <1>11, <1>12, <1>13, <1>15, <1>16, <1>17, <1>18, Zenon DEF ConfigurationOf
<1> QED BY <1>19 DEF canonical

-----------------------------------------------------------------------------
(* Sums.  What a fold adds up is the number of coins in which each member  *)
(* of the set pays its amount.                                             *)

LEMMA FiniteSetInduction ==
    ASSUME NEW S, IsFiniteSet(S), NEW Good,
           \A T \in SUBSET S : (\A x \in T : T \ {x} \in Good) => T \in Good
    PROVE  SUBSET S \subseteq Good
<1> DEFINE Bad == (SUBSET S) \ Good
           smaller == StrictSubsetOrdering(S)
<1> SUFFICES ASSUME Bad # {}  PROVE FALSE
  OBVIOUS
<1>1. IsWellFoundedOn(smaller, SUBSET S)
  <2>1. FiniteSubsetsOf(S) = SUBSET S
    BY FS_FiniteSubsetsOfFinite
  <2>2. IsWellFoundedOn(StrictSubsetOrdering(S), FiniteSubsetsOf(S))
    BY FS_StrictSubsetOrderingWellFounded
  <2> QED BY <2>1, <2>2
<1>2. PICK T \in Bad : \A U \in Bad : <<U, T>> \notin smaller
  <2> HIDE DEF smaller
  <2> QED BY <1>1, WFMin
<1>3. ASSUME NEW x \in T  PROVE T \ {x} \in Good
  <2>1. <<T \ {x}, T>> \in smaller
    BY DEF StrictSubsetOrdering
  <2> QED BY <1>2, <2>1
<1> QED BY <1>3

Coins(S, g) == UNION {{x} \X (1..g[x]) : x \in S}

Amount(S, g) == Cardinality(Coins(S, g))

LEMMA CoinsAre ==
    ASSUME NEW S, NEW g
    PROVE  /\ \A p : p \in Coins(S, g) <=> p[1] \in S /\ p[2] \in 1..g[p[1]] /\ p = <<p[1], p[2]>>
           /\ \A x, k : <<x, k>> \in Coins(S, g) <=> x \in S /\ k \in 1..g[x]
<1>1. ASSUME NEW p
      PROVE  p \in Coins(S, g) <=> p[1] \in S /\ p[2] \in 1..g[p[1]] /\ p = <<p[1], p[2]>>
  <2>1. ASSUME p \in Coins(S, g)
        PROVE  p[1] \in S /\ p[2] \in 1..g[p[1]] /\ p = <<p[1], p[2]>>
    <3>1. PICK x \in S : p \in {x} \X (1..g[x])
      BY <2>1 DEF Coins
    <3> QED BY <3>1
  <2>2. ASSUME p[1] \in S, p[2] \in 1..g[p[1]], p = <<p[1], p[2]>>
        PROVE  p \in Coins(S, g)
    <3>1. p \in {p[1]} \X (1..g[p[1]])
      BY <2>2
    <3> QED BY <2>2, <3>1 DEF Coins
  <2> QED BY <2>1, <2>2
<1>2. \A x, k : <<x, k>> \in Coins(S, g) <=> x \in S /\ k \in 1..g[x]
  BY <1>1
<1> QED BY <1>1, <1>2

LEMMA AmountOfNone == \A g : Amount({}, g) = 0
<1>1. \A g : Coins({}, g) = {}
  BY DEF Coins
<1> QED BY <1>1, FS_EmptySet DEF Amount

LEMMA AmountWithOneMore ==
    ASSUME NEW S, NEW g, NEW x \in S, IsFiniteSet(Coins(S \ {x}, g)), g[x] \in Nat
    PROVE  /\ IsFiniteSet(Coins(S, g))
           /\ Amount(S, g) = g[x] + Amount(S \ {x}, g)
<1> DEFINE rest == Coins(S \ {x}, g)
           own == {x} \X (1..g[x])
<1>1. Coins(S, g) = rest \cup own
  BY CoinsAre
<1>2. rest \cap own = {}
  BY CoinsAre
<1>3. IsFiniteSet(own) /\ Cardinality(own) = g[x]
  <2>1. IsFiniteSet({x}) /\ Cardinality({x}) = 1
    BY FS_Singleton
  <2>2. IsFiniteSet(1..g[x]) /\ Cardinality(1..g[x]) = g[x]
    BY FS_Interval
  <2>3. IsFiniteSet(own) /\ Cardinality(own) = 1 * g[x]
    BY <2>1, <2>2, FS_Product
  <2> QED BY <2>3
<1> HIDE DEF rest, own
<1>4. /\ IsFiniteSet(rest \cup own)
      /\ Cardinality(rest \cup own) = Cardinality(rest) + Cardinality(own) - Cardinality(rest \cap own)
  BY <1>3, FS_Union DEF rest
<1>5. Cardinality(rest \cap own) = 0 /\ Cardinality(rest) \in Nat
  BY <1>2, FS_EmptySet, FS_CardinalityType DEF rest
<1> QED BY <1>1, <1>3, <1>4, <1>5 DEF Amount, rest

LEMMA AmountIsNatural ==
    ASSUME NEW S, IsFiniteSet(S), NEW g, \A x \in S : g[x] \in Nat
    PROVE  /\ \A T \in SUBSET S : IsFiniteSet(Coins(T, g)) /\ Amount(T, g) \in Nat
           /\ \A T \in SUBSET S : \A x \in T : Amount(T, g) = g[x] + Amount(T \ {x}, g)
<1> DEFINE Good == {T \in SUBSET S : IsFiniteSet(Coins(T, g))}
<1>1. ASSUME NEW T \in SUBSET S, \A x \in T : T \ {x} \in Good
      PROVE  T \in Good
  <2>1. CASE T = {}
    <3>1. Coins(T, g) = {}
      BY <2>1 DEF Coins
    <3> QED BY <3>1, FS_EmptySet
  <2>2. ASSUME NEW x \in T  PROVE T \in Good
    BY <1>1, <2>2, AmountWithOneMore
  <2> QED BY <2>1, <2>2
<1>2. SUBSET S \subseteq Good
  <2> HIDE DEF Good
  <2> QED BY <1>1, FiniteSetInduction
<1>3. \A T \in SUBSET S : IsFiniteSet(Coins(T, g)) /\ Amount(T, g) \in Nat
  BY <1>2, FS_CardinalityType DEF Amount
<1>4. ASSUME NEW T \in SUBSET S, NEW x \in T
      PROVE  Amount(T, g) = g[x] + Amount(T \ {x}, g)
  BY <1>3, AmountWithOneMore
<1> QED BY <1>3, <1>4

\* h adds up what g gives, one member after the other in any order.
AddsOne(sum, amount, rest) == sum = amount + rest \/ sum = rest + amount

AddsUp(h, S, g) ==
    \A T \in SUBSET S :
        IF T = {} THEN h[T] = 0 ELSE \E x \in T : AddsOne(h[T], g[x], h[T \ {x}])

LEMMA SumIsAmount ==
    ASSUME NEW S, IsFiniteSet(S), NEW g, \A x \in S : g[x] \in Nat, NEW h, AddsUp(h, S, g)
    PROVE  \A T \in SUBSET S : h[T] = Amount(T, g)
<1> DEFINE Good == {T \in SUBSET S : h[T] = Amount(T, g)}
<1>1. ASSUME NEW T \in SUBSET S, \A x \in T : T \ {x} \in Good
      PROVE  T \in Good
  <2>1. CASE T = {}
    <3>1. h[T] = 0
      BY <2>1 DEF AddsUp
    <3> QED BY <2>1, <3>1, AmountOfNone
  <2>2. CASE T # {}
    <3>1. PICK x \in T : AddsOne(h[T], g[x], h[T \ {x}])
      BY <2>2 DEF AddsUp
    <3>2. h[T \ {x}] = Amount(T \ {x}, g)
      BY <1>1
    <3>3. Amount(T, g) = g[x] + Amount(T \ {x}, g) /\ Amount(T \ {x}, g) \in Nat /\ g[x] \in Nat
      BY AmountIsNatural
    <3> QED BY <3>1, <3>2, <3>3 DEF AddsOne
  <2> QED BY <2>1, <2>2
<1>2. SUBSET S \subseteq Good
  <2> HIDE DEF Good
  <2> QED BY <1>1, FiniteSetInduction
<1> QED BY <1>2

\* FoldSet adds the members as CHOOSE says, FoldLeft from the last position
\* to the first.
First(T) == CHOOSE x \in T : TRUE

AddsFirst(h, S, g) ==
    h = [T \in SUBSET S |-> IF T = {} THEN 0 ELSE g[First(T)] + h[T \ {First(T)}]]

LEMMA AmountAddsFirst ==
    ASSUME NEW S, IsFiniteSet(S), NEW g, \A x \in S : g[x] \in Nat
    PROVE  \E h : AddsFirst(h, S, g)
<1> DEFINE count == [T \in SUBSET S |-> Amount(T, g)]
<1>1. \A T \in SUBSET S : count[T] = IF T = {} THEN 0 ELSE g[First(T)] + count[T \ {First(T)}]
  <2> SUFFICES ASSUME NEW T \in SUBSET S
               PROVE  count[T] = IF T = {} THEN 0 ELSE g[First(T)] + count[T \ {First(T)}]
    OBVIOUS
  <2>1. CASE T = {}
    BY <2>1, AmountOfNone
  <2>2. CASE T # {}
    <3>1. First(T) \in T
      BY <2>2 DEF First
    <3>2. Amount(T, g) = g[First(T)] + Amount(T \ {First(T)}, g)
      BY <3>1, AmountIsNatural
    <3> QED BY <2>2, <3>2
  <2> QED BY <2>1, <2>2
<1>2. count = [T \in SUBSET S |-> count[T]]
  OBVIOUS
<1> HIDE DEF count
<1>3. AddsFirst(count, S, g)
  BY <1>1, <1>2, Zenon DEF AddsFirst
<1> QED BY <1>3

LEMMA FoldIsAmount ==
    ASSUME NEW S, IsFiniteSet(S), NEW g, \A x \in S : g[x] \in Nat, NEW h, AddsFirst(h, S, g)
    PROVE  h[S] = Amount(S, g)
<1>1. AddsUp(h, S, g)
  <2> SUFFICES ASSUME NEW T \in SUBSET S
               PROVE  IF T = {} THEN h[T] = 0 ELSE \E x \in T : AddsOne(h[T], g[x], h[T \ {x}])
    BY DEF AddsUp
  <2>1. h[T] = IF T = {} THEN 0 ELSE g[First(T)] + h[T \ {First(T)}]
    BY Zenon DEF AddsFirst
  <2>2. CASE T = {}
    BY <2>1, <2>2
  <2>3. CASE T # {}
    <3>1. First(T) \in T
      BY <2>3 DEF First
    <3>2. AddsOne(h[T], g[First(T)], h[T \ {First(T)}])
      BY <2>1, <2>3 DEF AddsOne
    <3> QED BY <2>3, <3>1, <3>2, Zenon
  <2> QED BY <2>2, <2>3
<1> QED BY <1>1, SumIsAmount

LEMMA SumFunctionIsAmount ==
    ASSUME NEW g, IsFiniteSet(DOMAIN g), \A x \in DOMAIN g : g[x] \in Nat
    PROVE  SumFunction(g) = Amount(DOMAIN g, g)
<1> DEFINE S == DOMAIN g
           step(h) == [T \in SUBSET S |->
                         IF T = {} THEN 0
                         ELSE g[CHOOSE x \in T : TRUE] + h[T \ {CHOOSE x \in T : TRUE}]]
           fold == CHOOSE h : h = step(h)
<1>1. SumFunction(g) = fold[S]
  BY Zenon DEF SumFunction, SumFunctionOnSet, FoldFunctionOnSet, MapThenFoldSet
<1>2. \A h : (h = step(h)) <=> AddsFirst(h, S, g)
  BY Zenon DEF AddsFirst, First
<1> HIDE DEF S, step
<1>3. IsFiniteSet(S) /\ \A x \in S : g[x] \in Nat
  BY DEF S
<1>4. \E h : h = step(h)
  BY <1>2, <1>3, AmountAddsFirst
<1>5. fold = step(fold)
  BY <1>4, Zenon
<1> HIDE DEF fold
<1>6. fold[S] = Amount(S, g)
  BY <1>2, <1>3, <1>5, FoldIsAmount
<1> QED BY <1>1, <1>6, Zenon DEF S

LEMMA LargestMember ==
    ASSUME NEW S, IsFiniteSet(S), S \subseteq Int
    PROVE  \A T \in SUBSET S : T # {} => Max(T) \in T
<1> DEFINE Good == {T \in SUBSET S : T # {} => \E x \in T : \A y \in T : x >= y}
<1>1. ASSUME NEW T \in SUBSET S, \A x \in T : T \ {x} \in Good
      PROVE  T \in Good
  <2> SUFFICES ASSUME NEW x \in T  PROVE \E z \in T : \A y \in T : z >= y
    OBVIOUS
  <2>1. CASE T = {x}
    BY <2>1
  <2>2. CASE T # {x}
    <3>1. PICK z \in T \ {x} : \A y \in T \ {x} : z >= y
      BY <1>1, <2>2
    <3>2. CASE z >= x
      BY <3>1, <3>2
    <3>3. CASE x >= z
      BY <3>1, <3>3
    <3>4. x \in Int /\ z \in Int
      BY <3>1
    <3>5. z >= x \/ x >= z
      BY <3>4
    <3> QED BY <3>2, <3>3, <3>5
  <2> QED BY <2>1, <2>2
<1>2. SUBSET S \subseteq Good
  <2> HIDE DEF Good
  <2> QED BY <1>1, FiniteSetInduction
<1>3. ASSUME NEW T \in SUBSET S, T # {}
      PROVE  Max(T) \in T
  <2>1. \E x \in T : \A y \in T : x >= y
    BY <1>2, <1>3
  <2> QED BY <2>1, Zenon DEF Max
<1> QED BY <1>3

LEMMA SumKnownIsAmount ==
    ASSUME NEW amounts, NEW n \in Nat, DOMAIN amounts = 1..n, \A i \in 1..n : amounts[i] \in Nat
    PROVE  SumKnown(amounts) = Amount(1..n, amounts)
<1> DEFINE S == DOMAIN amounts
           fold == CHOOSE h : h = [T \in SUBSET S |->
                       IF T = {} THEN 0 ELSE h[T \ {Max(T)}] + amounts[Max(T)]]
           count == [T \in SUBSET S |-> Amount(T, amounts)]
<1>1. SumKnown(amounts) = fold[S]
  BY Zenon DEF SumKnown, FoldLeft, MapThenFoldSet
<1>2. /\ \A T \in SUBSET S : T # {} => Max(T) \in T
      /\ IsFiniteSet(S) /\ \A i \in S : amounts[i] \in Nat
  <2>2. IsFiniteSet(S) /\ S \subseteq Int
    BY FS_Interval
  <2> HIDE DEF S
  <2>1. \A T \in SUBSET S : T # {} => Max(T) \in T
    BY <2>2, LargestMember, Zenon
  <2>3. \A i \in S : amounts[i] \in Nat
    BY DEF S
  <2> QED BY <2>1, <2>2, <2>3
<1>3. S = 1..n
  OBVIOUS
<1> HIDE DEF S
<1>4. \A T \in SUBSET S : count[T] = IF T = {} THEN 0 ELSE count[T \ {Max(T)}] + amounts[Max(T)]
  <2> SUFFICES ASSUME NEW T \in SUBSET S
               PROVE  count[T] = IF T = {} THEN 0 ELSE count[T \ {Max(T)}] + amounts[Max(T)]
    OBVIOUS
  <2>1. CASE T = {}
    BY <2>1, AmountOfNone
  <2>2. CASE T # {}
    <3>1. /\ Amount(T, amounts) = amounts[Max(T)] + Amount(T \ {Max(T)}, amounts)
          /\ amounts[Max(T)] \in Nat /\ Amount(T \ {Max(T)}, amounts) \in Nat
      BY <1>2, <2>2, AmountIsNatural
    <3> QED BY <2>2, <3>1
  <2> QED BY <2>1, <2>2
<1>5. count = [T \in SUBSET S |-> IF T = {} THEN 0 ELSE count[T \ {Max(T)}] + amounts[Max(T)]]
  <2>1. count = [T \in SUBSET S |-> count[T]]
    OBVIOUS
  <2> HIDE DEF count
  <2> QED BY <1>4, <2>1, Zenon
<1>6. \A T \in SUBSET S : count[T] \in Nat
  BY <1>2, AmountIsNatural
<1> HIDE DEF count
<1>7. fold = [T \in SUBSET S |-> IF T = {} THEN 0 ELSE fold[T \ {Max(T)}] + amounts[Max(T)]]
  BY <1>5, Zenon
<1> HIDE DEF fold
<1>8. AddsUp(fold, S, amounts)
  <2> SUFFICES ASSUME NEW T \in SUBSET S
               PROVE  IF T = {} THEN fold[T] = 0 ELSE \E x \in T : AddsOne(fold[T], amounts[x], fold[T \ {x}])
    BY DEF AddsUp
  <2>1. fold[T] = IF T = {} THEN 0 ELSE fold[T \ {Max(T)}] + amounts[Max(T)]
    BY <1>7, Zenon
  <2>2. CASE T = {}
    BY <2>1, <2>2
  <2>3. CASE T # {}
    <3>1. Max(T) \in T /\ AddsOne(fold[T], amounts[Max(T)], fold[T \ {Max(T)}])
      BY <1>2, <2>1, <2>3 DEF AddsOne
    <3> QED BY <2>3, <3>1, Zenon
  <2> QED BY <2>2, <2>3
<1> QED BY <1>1, <1>2, <1>3, <1>8, SumIsAmount

LEMMA AmountGrows ==
    ASSUME NEW T, IsFiniteSet(T), NEW S \in SUBSET T, NEW f, NEW g,
           \A x \in T : g[x] \in Nat, \A x \in S : f[x] \in Nat /\ f[x] <= g[x]
    PROVE  Amount(S, f) <= Amount(T, g)
<1>1. IsFiniteSet(Coins(T, g))
  BY AmountIsNatural
<1>2. Coins(S, f) \subseteq Coins(T, g)
  <2> SUFFICES ASSUME NEW p \in Coins(S, f)  PROVE p \in Coins(T, g)
    OBVIOUS
  <2>1. p[1] \in S /\ p[2] \in 1..f[p[1]] /\ p = <<p[1], p[2]>>
    BY CoinsAre, Zenon
  <2>2. p[2] \in 1..g[p[1]]
    BY <2>1
  <2> QED BY <2>1, <2>2, CoinsAre
<1> QED BY <1>1, <1>2, FS_Subset DEF Amount

LEMMA AmountAdds ==
    ASSUME NEW S, IsFiniteSet(S), NEW f, NEW g, NEW h,
           \A x \in S : f[x] \in Nat /\ g[x] \in Nat /\ h[x] = f[x] + g[x]
    PROVE  Amount(S, h) = Amount(S, f) + Amount(S, g)
<1> DEFINE Good == {T \in SUBSET S : Amount(T, h) = Amount(T, f) + Amount(T, g)}
<1>1. \A x \in S : h[x] \in Nat
  OBVIOUS
<1>2. /\ \A T \in SUBSET S : Amount(T, f) \in Nat /\ Amount(T, g) \in Nat
      /\ \A T \in SUBSET S : \A x \in T :
            /\ Amount(T, f) = f[x] + Amount(T \ {x}, f)
            /\ Amount(T, g) = g[x] + Amount(T \ {x}, g)
            /\ Amount(T, h) = h[x] + Amount(T \ {x}, h)
  BY <1>1, AmountIsNatural
<1>3. ASSUME NEW T \in SUBSET S, \A x \in T : T \ {x} \in Good
      PROVE  T \in Good
  <2>1. CASE T = {}
    BY <2>1, AmountOfNone
  <2>2. ASSUME NEW x \in T  PROVE T \in Good
    <3>1. T \ {x} \in Good
      BY <1>3
    <3>2. Amount(T \ {x}, h) = Amount(T \ {x}, f) + Amount(T \ {x}, g)
      BY <3>1
    <3>3. /\ Amount(T \ {x}, f) \in Nat /\ Amount(T \ {x}, g) \in Nat
          /\ f[x] \in Nat /\ g[x] \in Nat /\ h[x] = f[x] + g[x]
      BY <1>2
    <3>4. /\ Amount(T, f) = f[x] + Amount(T \ {x}, f)
          /\ Amount(T, g) = g[x] + Amount(T \ {x}, g)
          /\ Amount(T, h) = h[x] + Amount(T \ {x}, h)
      BY <1>2
    <3>5. Amount(T, h) = Amount(T, f) + Amount(T, g)
      BY <3>2, <3>3, <3>4
    <3> QED BY <3>5
  <2> QED BY <2>1, <2>2
<1>4. SUBSET S \subseteq Good
  <2> HIDE DEF Good
  <2> QED BY <1>3, FiniteSetInduction
<1> QED BY <1>4

\* The members may be given other names.
LEMMA AmountMoved ==
    ASSUME NEW S, IsFiniteSet(S), NEW T, NEW f, NEW g, \A x \in S : f[x] \in Nat,
           NEW m \in [S -> T], \A y \in T : \E x \in S : m[x] = y,
           \A x, y \in S : m[x] = m[y] => x = y, \A x \in S : g[m[x]] = f[x]
    PROVE  Amount(T, g) = Amount(S, f)
<1> DEFINE move == [p \in Coins(S, f) |-> <<m[p[1]], p[2]>>]
<1>1. \A p \in Coins(S, f) : p[1] \in S /\ p[2] \in 1..f[p[1]] /\ p = <<p[1], p[2]>>
  BY CoinsAre, Zenon
<1>2. move \in [Coins(S, f) -> Coins(T, g)]
  <2> SUFFICES ASSUME NEW p \in Coins(S, f)  PROVE <<m[p[1]], p[2]>> \in Coins(T, g)
    OBVIOUS
  <2>1. m[p[1]] \in T /\ p[2] \in 1..g[m[p[1]]]
    BY <1>1
  <2> QED BY <2>1, CoinsAre, Zenon
<1>3. ASSUME NEW t \in Coins(T, g)  PROVE \E p \in Coins(S, f) : move[p] = t
  <2>1. t[1] \in T /\ t[2] \in 1..g[t[1]] /\ t = <<t[1], t[2]>>
    BY CoinsAre, Zenon
  <2>2. PICK x \in S : m[x] = t[1]
    BY <2>1
  <2>3. <<x, t[2]>> \in Coins(S, f)
    BY <2>1, <2>2, CoinsAre
  <2>4. move[<<x, t[2]>>] = t
    BY <2>1, <2>2, <2>3
  <2> QED BY <2>3, <2>4
<1>4. ASSUME NEW p \in Coins(S, f), NEW r \in Coins(S, f), move[p] = move[r]
      PROVE  p = r
  <2>1. m[p[1]] = m[r[1]] /\ p[2] = r[2]
    BY <1>4
  <2> QED BY <1>1, <2>1
<1> HIDE DEF move
<1>5. move \in Surjection(Coins(S, f), Coins(T, g)) /\ move \in Injection(Coins(S, f), Coins(T, g))
  <2>1. \A t \in Coins(T, g) : \E p \in Coins(S, f) : move[p] = t
    BY <1>3
  <2>2. \A p, r \in Coins(S, f) : move[p] = move[r] => p = r
    BY <1>4
  <2>3. move \in Surjection(Coins(S, f), Coins(T, g))
    BY <1>2, <2>1 DEF Surjection
  <2>4. move \in Injection(Coins(S, f), Coins(T, g))
    BY <1>2, <2>2 DEF Injection, IsInjective
  <2> QED BY <2>3, <2>4
<1>6. IsFiniteSet(Coins(S, f))
  <2>1. \A U \in SUBSET S : IsFiniteSet(Coins(U, f))
    BY AmountIsNatural
  <2> QED BY <2>1
<1> QED BY <1>5, <1>6, FS_Surjection DEF Amount

\* The positions of s that are kept, one after the other.
KeptAt(I) == InOrder(I, Upward(I))

LEMMA KeptPositions ==
    ASSUME NEW s, IsSequence(s), NEW I \in SUBSET DOMAIN s
    PROVE  /\ Len(Kept(s, I)) \in Nat /\ DOMAIN Kept(s, I) = 1..Len(Kept(s, I))
           /\ IsSequence(Kept(s, I))
           /\ KeptAt(I) \in [DOMAIN Kept(s, I) -> I]
           /\ \A i \in I : \E k \in DOMAIN Kept(s, I) : KeptAt(I)[k] = i
           /\ \A j, k \in DOMAIN Kept(s, I) : KeptAt(I)[j] = KeptAt(I)[k] => j = k
           /\ \A k \in DOMAIN Kept(s, I) : Kept(s, I)[k] = s[KeptAt(I)[k]]
<1> DEFINE q == KeptAt(I)
           n == Cardinality(I)
<1>1. Climbs(q, I) /\ DOMAIN q = 1..n /\ n \in Nat
  <2>1. Climbs(q, I) /\ DOMAIN q = 1..n /\ n \in 0..Len(s)
    BY FilteredRows DEF KeptAt
  <2>2. Len(s) \in Nat
    BY SequenceShape
  <2> QED BY <2>1, <2>2
<1>2. IsSequence(Kept(s, I)) /\ Kept(s, I) = At(s, q)
  BY KeptHasTheRows DEF Kept, KeptAt
<1>3. /\ q \in [1..n -> I] /\ \A i \in I : \E k \in 1..n : q[k] = i
      /\ \A j, k \in 1..n : j < k <=> q[j] < q[k]
  BY <1>1 DEF Climbs
<1> HIDE DEF q, n
<1>4. /\ Len(Kept(s, I)) \in Nat /\ DOMAIN Kept(s, I) = 1..Len(Kept(s, I))
      /\ DOMAIN Kept(s, I) = 1..n /\ \A k \in 1..n : Kept(s, I)[k] = s[q[k]]
  BY <1>1, <1>2, SequenceShape DEF At
<1>5. ASSUME NEW j \in 1..n, NEW k \in 1..n, q[j] = q[k]  PROVE j = k
  <2>1. q[j] \in Int
    BY <1>3, SequenceShape
  <2>2. ~(q[j] < q[k]) /\ ~(q[k] < q[j])
    BY <1>5, <2>1
  <2>3. ~(j < k) /\ ~(k < j)
    BY <1>3, <2>2
  <2> QED BY <1>1, <2>3
<1> QED BY <1>2, <1>3, <1>4, <1>5 DEF q

LEMMA AmountsKept ==
    ASSUME NEW s, IsSequence(s), NEW I \in SUBSET DOMAIN s, NEW field
    PROVE  /\ IsSequence(AmountsOf(Kept(s, I), field))
           /\ DOMAIN AmountsOf(Kept(s, I), field) = DOMAIN Kept(s, I)
           /\ \A k \in DOMAIN Kept(s, I) :
                 AmountsOf(Kept(s, I), field)[k] = AmountsOf(s, field)[KeptAt(I)[k]]
<1> DEFINE amounts == AmountsOf(Kept(s, I), field)
<1>1. /\ DOMAIN amounts = DOMAIN Kept(s, I) /\ amounts = [k \in DOMAIN Kept(s, I) |-> amounts[k]]
      /\ \A k \in DOMAIN Kept(s, I) : amounts[k] = Kept(s, I)[k][field]
      /\ \A i \in DOMAIN s : AmountsOf(s, field)[i] = s[i][field]
  BY DEF AmountsOf
<1> HIDE DEF amounts
<1>2. IsSequence(amounts)
  BY <1>1, KeptPositions, MappedIsSequence
<1>3. ASSUME NEW k \in DOMAIN Kept(s, I)  PROVE amounts[k] = AmountsOf(s, field)[KeptAt(I)[k]]
  <2>1. Kept(s, I)[k] = s[KeptAt(I)[k]] /\ KeptAt(I)[k] \in DOMAIN s
    BY KeptPositions
  <2> QED BY <1>1, <2>1
<1> QED BY <1>1, <1>2, <1>3 DEF amounts

\* A sum over some of the kept rows is one over the rows they were.
LEMMA AmountOfKept ==
    ASSUME NEW s, IsSequence(s), NEW I \in SUBSET DOMAIN s, NEW field, NEW K \in SUBSET I,
           \A i \in K : s[i][field] \in Nat
    PROVE  Amount({k \in DOMAIN Kept(s, I) : KeptAt(I)[k] \in K}, AmountsOf(Kept(s, I), field))
             = Amount(K, AmountsOf(s, field))
<1> DEFINE J == {k \in DOMAIN Kept(s, I) : KeptAt(I)[k] \in K}
           m == [k \in J |-> KeptAt(I)[k]]
           f == AmountsOf(Kept(s, I), field)
           g == AmountsOf(s, field)
<1>1. IsFiniteSet(J)
  <2>1. DOMAIN Kept(s, I) = 1..Len(Kept(s, I)) /\ Len(Kept(s, I)) \in Nat
    BY KeptPositions
  <2>2. IsFiniteSet(1..Len(Kept(s, I)))
    BY <2>1, FS_Interval
  <2>3. J \subseteq 1..Len(Kept(s, I))
    BY <2>1
  <2> HIDE DEF J
  <2> QED BY <2>2, <2>3, FS_Subset
<1>2. /\ m \in [J -> K] /\ \A i \in K : \E k \in J : m[k] = i
      /\ \A j, k \in J : m[j] = m[k] => j = k
  BY KeptPositions
<1>3. \A i \in K : g[i] \in Nat
  BY DEF AmountsOf
<1>4. \A k \in J : g[m[k]] = f[k]
  BY AmountsKept
<1>5. \A k \in J : f[k] \in Nat
  BY <1>2, <1>3, <1>4
<1> HIDE DEF J, m, f, g
<1>6. Amount(K, g) = Amount(J, f)
  BY <1>1, <1>2, <1>4, <1>5, AmountMoved
<1> QED BY <1>6 DEF J, f, g

LEMMA SumOfField ==
    ASSUME NEW s, IsSequence(s), NEW I \in SUBSET DOMAIN s, NEW field,
           \A i \in I : s[i][field] \in Nat
    PROVE  SumKnown(AmountsOf(Kept(s, I), field)) = Amount(I, AmountsOf(s, field))
<1> DEFINE n == Len(Kept(s, I))
           f == AmountsOf(Kept(s, I), field)
<1>1. n \in Nat /\ DOMAIN Kept(s, I) = 1..n /\ DOMAIN f = 1..n
  BY KeptPositions, AmountsKept
<1>2. \A k \in 1..n : KeptAt(I)[k] \in I
  BY <1>1, KeptPositions
<1>3. \A k \in 1..n : f[k] \in Nat
  <2>1. \A i \in I : AmountsOf(s, field)[i] \in Nat
    BY DEF AmountsOf
  <2> QED BY <1>1, <1>2, <2>1, AmountsKept
<1>4. SumKnown(f) = Amount(1..n, f)
  <2> HIDE DEF n, f
  <2> QED BY <1>1, <1>3, SumKnownIsAmount
<1>5. {k \in DOMAIN Kept(s, I) : KeptAt(I)[k] \in I} = 1..n
  BY <1>1, <1>2
<1>6. Amount({k \in DOMAIN Kept(s, I) : KeptAt(I)[k] \in I}, f) = Amount(I, AmountsOf(s, field))
  BY AmountOfKept
<1> QED BY <1>4, <1>5, <1>6

-----------------------------------------------------------------------------
(* The order of a request.                                                 *)

OrderIsOfTheRequest ==
    /\ request # Null => projection # Null /\ projection.state = "projected"
    /\ order # Null =>
          /\ projection # Null /\ projection.state = "projected"
          /\ order = CalculateStoreCalcOrder(projection.configuration, request)

THEOREM OrderIsOfTheRequestHolds == Spec => []OrderIsOfTheRequest
<1>1. Init => OrderIsOfTheRequest
  BY DEF Init, OrderIsOfTheRequest
<1>2. OrderIsOfTheRequest /\ [Next]_vars => OrderIsOfTheRequest'
  <2> SUFFICES ASSUME OrderIsOfTheRequest, [Next]_vars
               PROVE  OrderIsOfTheRequest'
    OBVIOUS
  <2>1. CASE SealDraft
    BY <2>1 DEF SealDraft, OrderIsOfTheRequest
  <2>2. CASE Project
    BY <2>2 DEF Project, OrderIsOfTheRequest
  <2>3. ASSUME NEW asked, Answer(asked), projection # Null, projection.state = "projected"
        PROVE  OrderIsOfTheRequest'
    BY <2>3 DEF Answer, OrderIsOfTheRequest
  <2>4. ASSUME NEW funds \in Funds, OpenOrder(funds)  PROVE OrderIsOfTheRequest'
    <3>1. /\ projection # Null /\ projection.state = "projected"
          /\ \E asked : Answer(asked)
      BY <2>4, Zenon DEF OpenOrder
    <3> QED BY <2>3, <3>1
  <2>5. ASSUME NEW item \in KeysOf(draft.items), AddOne(item)  PROVE OrderIsOfTheRequest'
    <3>1. request # Null /\ \E asked : Answer(asked)
      BY <2>5, Zenon DEF AddOne
    <3>2. projection # Null /\ projection.state = "projected"
      BY <3>1 DEF OrderIsOfTheRequest
    <3> QED BY <2>3, <3>1, <3>2
  <2>6. CASE UNCHANGED vars
    BY <2>6 DEF vars, OrderIsOfTheRequest
  <2> QED BY <2>1, <2>2, <2>4, <2>5, <2>6 DEF Next
<1> QED BY <1>1, <1>2, PTL DEF Spec

\* Of the rules that can apply to an item the one that wins is the rule that
\* the draft gives it.
LEMMA TheRuleOfAnItem ==
    ASSUME NEW body, NEW item, ToSet(body.taxRules) = Rows(draft.taxRules),
           NEW rule, WinningTaxRules(body, item) = {rule}
    PROVE  RuleOf(item) = rule
<1> DEFINE inScope(scope) == {r \in Rows(draft.taxRules) :
                             /\ r.scope = scope
                             /\ scope = "item" => r.item = item.key
                             /\ scope = "category" => r.category = item.category}
           first(rules) == CHOOSE r \in rules : \A other \in rules : other.priority <= r.priority
           A == ApplicableTaxRules(body, item)
<1>1. /\ inScope("item") = ItemRules(body.taxRules, item)
      /\ inScope("category") = CategoryRules(body.taxRules, item)
      /\ inScope("template") = TemplateRules(body.taxRules)
  BY DEF ItemRules, CategoryRules, TemplateRules
<1>2. RuleOf(item) = IF inScope("item") # {} THEN first(inScope("item"))
                     ELSE IF inScope("category") # {} THEN first(inScope("category"))
                     ELSE IF inScope("template") # {} THEN first(inScope("template"))
                     ELSE Null
  BY Zenon DEF RuleOf
<1>3. A = IF inScope("item") # {} THEN inScope("item")
          ELSE IF inScope("category") # {} THEN inScope("category") ELSE inScope("template")
  BY <1>1, ApplicableByScope
<1>4. {r \in A : \A other \in A : other.priority <= r.priority} = {rule}
  BY Zenon DEF WinningTaxRules
<1>5. first(A) = rule /\ A # {}
  BY <1>4
<1> HIDE DEF inScope, first, A
<1>6. RuleOf(item) = first(A)
  BY <1>2, <1>3, <1>5
<1> QED BY <1>5, <1>6

\* row is an item of the draft as the engine has it, with the tax rule that
\* the draft gives it.
EngineItem(item, row) ==
    /\ row.key = item.key
    /\ row.priceState = item.priceState /\ row.price = item.price
    /\ row.minimum = item.minimum /\ row.maximum = item.maximum /\ row.step = item.step
    /\ row.availability = item.availability
    /\ RuleOf(item) \in Rows(draft.taxRules)
    /\ row.tax = [state |-> RuleOf(item).state, rate |-> RuleOf(item).rate,
                  inclusive |-> RuleOf(item).inclusive, rounding |-> RuleOf(item).rounding]
    /\ IsSequence(row.memberships)
    /\ ToSet(row.memberships) =
          {MembershipRow(m) : m \in {m \in Rows(draft.memberships) : m.item = item.key}}
    /\ ToSet(row.warnings) = {WarningRow(w) : w \in {w \in Rows(draft.warnings) : w.item = item.key}}

\* conf has the rows of the draft, in some order.
EngineHasTheDraft(conf) ==
    /\ IsSequence(conf.items) /\ IsSequence(conf.buckets) /\ IsSequence(conf.constraints)
    /\ \A row \in ToSet(conf.items) : \E item \in Rows(draft.items) : EngineItem(item, row)
    /\ \A item \in Rows(draft.items) : \E row \in ToSet(conf.items) : EngineItem(item, row)
    /\ \A i, j \in DOMAIN conf.items : conf.items[i].key = conf.items[j].key => i = j
    /\ ToSet(conf.buckets) = {BucketRow(bucket) : bucket \in Rows(draft.buckets)}
    /\ ToSet(conf.constraints) = {ConstraintRow(constraint) : constraint \in Rows(draft.constraints)}
    /\ ToSet(conf.warnings) =
          {WarningRow(w) : w \in {w \in Rows(draft.warnings) : w.scope = "template"}}

LEMMA EngineItemIs ==
    ASSUME NEW d, NEW body, ReorderedCatalog(draft, d), BodyOf(d, body),
           NEW item, ApplicableTaxRules(body, item) # {}, NEW row, ShowsItem(d, body, item, row)
    PROVE  EngineItem(item, row)
<1>1. /\ ToSet(d.memberships) = Rows(draft.memberships) /\ ToSet(d.warnings) = Rows(draft.warnings)
      /\ ToSet(d.taxRules) = Rows(draft.taxRules) /\ body.taxRules = d.taxRules
  BY TablesOfReordered DEF CatalogTables, Rows, BodyOf
<1>2. PICK i \in DOMAIN d.taxRules : WinningTaxRules(body, item) = {d.taxRules[i]}
  BY OneTaxRuleWins
<1>3. RuleOf(item) = d.taxRules[i]
  BY <1>1, <1>2, TheRuleOfAnItem
<1>4. RuleOf(item) \in Rows(draft.taxRules)
  BY <1>1, <1>3 DEF ToSet
<1>5. (CHOOSE winner \in WinningTaxRules(body, item) : TRUE) = RuleOf(item)
  BY <1>2, <1>3
<1>6. ResolveTaxTreatment(body, item) =
        [state |-> RuleOf(item).state, rate |-> RuleOf(item).rate,
         inclusive |-> RuleOf(item).inclusive, rounding |-> RuleOf(item).rounding]
  BY <1>5, Zenon DEF ResolveTaxTreatment
<1>7. /\ row.key = item.key
      /\ row.priceState = item.priceState /\ row.price = item.price
      /\ row.minimum = item.minimum /\ row.maximum = item.maximum /\ row.step = item.step
      /\ row.availability = item.availability
      /\ row.tax = ResolveTaxTreatment(body, item)
      /\ IsSequence(row.memberships)
      /\ ToSet(row.memberships) = {MembershipRow(m) : m \in {m \in ToSet(d.memberships) : m.item = item.key}}
      /\ ToSet(row.warnings) = {WarningRow(w) : w \in {w \in ToSet(d.warnings) : w.item = item.key}}
  BY Zenon DEF ShowsItem
<1> QED BY <1>1, <1>4, <1>6, <1>7, Zenon DEF EngineItem

LEMMA EngineHasTheRows ==
    ASSUME NEW d, NEW body, ReorderedCatalog(draft, d), BodyOf(d, body),
           \A item \in Rows(draft.items) : ApplicableTaxRules(body, item) # {},
           NEW conf, ConfigurationOf(d, body, conf)
    PROVE  EngineHasTheDraft(conf)
<1>1. /\ ToSet(d.items) = Rows(draft.items) /\ ToSet(d.buckets) = Rows(draft.buckets)
      /\ ToSet(d.constraints) = Rows(draft.constraints) /\ ToSet(d.warnings) = Rows(draft.warnings)
  BY TablesOfReordered DEF CatalogTables, Rows
<1>2. /\ \A row \in ToSet(conf.items) : \E item \in ToSet(d.items) : ShowsItem(d, body, item, row)
      /\ \A item \in ToSet(d.items) : \E row \in ToSet(conf.items) : ShowsItem(d, body, item, row)
      /\ \A i, j \in DOMAIN conf.items : conf.items[i].key = conf.items[j].key => i = j
      /\ ToSet(conf.buckets) = {BucketRow(bucket) : bucket \in ToSet(d.buckets)}
      /\ ToSet(conf.constraints) = {ConstraintRow(constraint) : constraint \in ToSet(d.constraints)}
      /\ ToSet(conf.warnings) = {WarningRow(w) : w \in {w \in ToSet(d.warnings) : w.scope = "template"}}
  BY Zenon DEF ConfigurationOf
<1>3. IsSequence(conf.items) /\ IsSequence(conf.buckets) /\ IsSequence(conf.constraints)
  BY DEF ConfigurationOf
<1>4. \A item \in Rows(draft.items) : \A row : ShowsItem(d, body, item, row) => EngineItem(item, row)
  BY EngineItemIs
<1>5. /\ \A row \in ToSet(conf.items) : \E item \in Rows(draft.items) : EngineItem(item, row)
      /\ \A item \in Rows(draft.items) : \E row \in ToSet(conf.items) : EngineItem(item, row)
  BY <1>1, <1>2, <1>4
<1> QED BY <1>1, <1>2, <1>3, <1>5, Zenon DEF EngineHasTheDraft

\* What the engine calculates with, and what it selects for the request.
Engine == projection.configuration.body

Lines == SelectedLines(Engine, request)

Validations == OrderValidations(Engine, Lines, AvailableFunds(request.funds, ComputeTotals(Lines)))

AnswerIsOfTheDraft ==
    /\ WellFormedCatalog(draft) /\ AcceptedCatalog(draft) /\ EngineHasTheDraft(Engine)
    /\ AcceptedConfiguration(Engine) /\ CanonicalConfiguration(Engine) = Engine
    /\ AcceptedRequest(Engine, request)
    /\ ~OrderOverflows(Engine, Lines)
    /\ order.lines = Lines
    /\ order.totals = ComputeTotals(Lines)
    /\ order.buckets = [i \in DOMAIN Engine.buckets |->
                          [key |-> Engine.buckets[i].key, result |-> BucketResult(Engine.buckets[i], Lines)]]
    /\ order.verdict = Verdict({v.severity : v \in Validations}, OrderWarnings(Engine, Lines), ComputeTotals(Lines))

LEMMA WhatIsProjected ==
    ASSUME NEW body, NEW outcome, outcome = ProjectCatalogVersionContent(body),
           outcome.state = "projected"
    PROVE  LET canonical == CanonicalConfiguration(ProjectedConfiguration(body))
           IN /\ outcome.configuration = [body |-> canonical, contentHash |-> Hash(canonical)]
              /\ \A item \in ToSet(body.items) : ApplicableTaxRules(body, item) # {}
<1> DEFINE winners == {Cardinality(WinningTaxRules(body, item)) : item \in ToSet(body.items)}
           conf == ProjectedConfiguration(body)
           projected == [state |-> "projected", configuration |-> SealResolvedConfiguration(conf)]
<1>1. \A code : ProjectionFails(code).state # "projected"
  BY DEF ProjectionFails
<1>2. outcome = IF ~(body.capabilities \subseteq EngineCapabilities)
                THEN ProjectionFails("CATALOG_CAPABILITY_UNSUPPORTED")
                ELSE IF 0 \in winners THEN ProjectionFails("CATALOG_TAX_TREATMENT_MISSING")
                ELSE IF winners # {1} THEN ProjectionFails("CATALOG_TAX_TREATMENT_AMBIGUOUS")
                ELSE IF ~AcceptedConfiguration(conf)
                THEN ProjectionFails("RESOLVED_CONFIGURATION_INVALID")
                ELSE projected
  BY Zenon DEF ProjectCatalogVersionContent
<1>3. \A item \in ToSet(body.items) : Cardinality(WinningTaxRules(body, item)) \in winners
  OBVIOUS
<1> HIDE DEF winners, conf, projected
<1>4. 0 \notin winners /\ AcceptedConfiguration(conf) /\ outcome = projected
  BY <1>1, <1>2
<1>5. outcome.configuration = [body |-> CanonicalConfiguration(conf), contentHash |-> Hash(CanonicalConfiguration(conf))]
  BY <1>4 DEF projected, SealResolvedConfiguration
<1>6. ASSUME NEW item \in ToSet(body.items)  PROVE ApplicableTaxRules(body, item) # {}
  <2>1. WinningTaxRules(body, item) # {}
    BY <1>3, <1>4, FS_EmptySet
  <2> QED BY <2>1 DEF WinningTaxRules
<1> QED BY <1>5, <1>6 DEF conf

LEMMA WhatIsCalculated ==
    ASSUME SealedIsTheDraft, ProjectionIsOfTheDraft, OrderIsOfTheRequest, Calculated
    PROVE  AnswerIsOfTheDraft
<1> DEFINE body == CanonicalCatalog(draft)
           conf == ProjectedConfiguration(body)
           sealed == projection.configuration
<1>1. /\ projection.state = "projected" /\ projection = ProjectCatalogVersionContent(body)
      /\ order = CalculateStoreCalcOrder(sealed, request) /\ order.state = "calculated"
      /\ WellFormedCatalog(draft) /\ AcceptedCatalog(draft)
  BY DraftsAssumption
     DEF SealedIsTheDraft, ProjectionIsOfTheDraft, OrderIsOfTheRequest, Calculated
<1>2. PICK d : ReorderedCatalog(draft, d) /\ BodyOf(d, body)
  BY <1>1, CanonicalBody
<1> HIDE DEF body
<1>3. /\ sealed = [body |-> CanonicalConfiguration(conf), contentHash |-> Hash(CanonicalConfiguration(conf))]
      /\ \A item \in ToSet(body.items) : ApplicableTaxRules(body, item) # {}
  BY <1>1, WhatIsProjected
<1> HIDE DEF conf, sealed
<1>4. sealed.body = CanonicalConfiguration(conf) /\ sealed.contentHash = Hash(CanonicalConfiguration(conf))
  BY <1>3
<1>5. \A code : Rejected(code).state # "calculated"
  BY DEF Rejected
<1>6. /\ VerifiedConfiguration(sealed) /\ AcceptedConfiguration(sealed.body)
      /\ AcceptedRequest(sealed.body, request)
      /\ ~OrderOverflows(sealed.body, SelectedLines(sealed.body, request))
      /\ order = CalculatedOrder(sealed, request)
  BY <1>1, <1>5, Zenon DEF CalculateStoreCalcOrder, VerifiedConfiguration
<1>7. CanonicalConfiguration(sealed.body) = sealed.body
  BY <1>4, <1>6 DEF VerifiedConfiguration, Hash
<1>8. sealed.body = Engine
  BY DEF sealed, Engine
<1>9. EngineHasTheDraft(Engine)
  <2>1. ConfigurationOf(d, body, conf)
    BY <1>2, ProjectedConfigurationIs DEF conf
  <2>2. ConfigurationOf(d, body, Engine)
    BY <1>2, <1>4, <1>8, <2>1, CanonicalConfigurationIs DEF BodyOf
  <2>3. \A item \in Rows(draft.items) : ApplicableTaxRules(body, item) # {}
    <3>1. ToSet(d.items) = Rows(draft.items) /\ body.items = d.items
      BY <1>2, TablesOfReordered DEF CatalogTables, Rows, BodyOf
    <3> QED BY <1>3, <3>1
  <2> QED BY <1>2, <2>2, <2>3, EngineHasTheRows
<1>10. order = [state |-> "calculated", configurationHash |-> sealed.contentHash, lines |-> Lines,
                totals |-> ComputeTotals(Lines), funds |-> AvailableFunds(request.funds, ComputeTotals(Lines)),
                validations |-> Validations, warnings |-> OrderWarnings(Engine, Lines),
                buckets |-> [i \in DOMAIN Engine.buckets |->
                               [key |-> Engine.buckets[i].key, result |-> BucketResult(Engine.buckets[i], Lines)]],
                constraints |-> [i \in DOMAIN Engine.constraints |->
                                   [key |-> Engine.constraints[i].key,
                                    result |-> ConstraintResult(Engine.constraints[i], Lines)]],
                verdict |-> Verdict({v.severity : v \in Validations}, OrderWarnings(Engine, Lines),
                                    ComputeTotals(Lines))]
  BY <1>6, <1>7, <1>8, Zenon DEF CalculatedOrder, Lines, Validations
<1>11. /\ order.lines = Lines
       /\ order.totals = ComputeTotals(Lines)
       /\ order.buckets = [i \in DOMAIN Engine.buckets |->
                             [key |-> Engine.buckets[i].key, result |-> BucketResult(Engine.buckets[i], Lines)]]
       /\ order.verdict = Verdict({v.severity : v \in Validations}, OrderWarnings(Engine, Lines), ComputeTotals(Lines))
  BY <1>10
<1> QED BY <1>1, <1>6, <1>7, <1>8, <1>9, <1>11, Zenon DEF AnswerIsOfTheDraft, Lines

-----------------------------------------------------------------------------
(* The lines of an order.                                                  *)

\* The entries of a request for an item, and what they ask for together.
Entries(key) == {i \in DOMAIN request.quantities : request.quantities[i].item = key}

QuantitiesOf(key) == [i \in Entries(key) |-> request.quantities[i].quantity]

LEMMA AskedIsAmount ==
    ASSUME NEW item, IsFiniteSet(Entries(item.key)),
           \A i \in Entries(item.key) : request.quantities[i].quantity \in Nat
    PROVE  Asked(item) = Amount(Entries(item.key), QuantitiesOf(item.key))
<1>1. Asked(item) = SumFunction(QuantitiesOf(item.key))
  BY Zenon DEF Asked, Entries, QuantitiesOf
<1>2. /\ DOMAIN QuantitiesOf(item.key) = Entries(item.key)
      /\ \A i \in Entries(item.key) : QuantitiesOf(item.key)[i] \in Nat
  BY DEF QuantitiesOf
<1> QED BY <1>1, <1>2, SumFunctionIsAmount

LEMMA AskedIsQuantity ==
    ASSUME AcceptedRequest(Engine, request), NEW item, NEW row, row.key = item.key
    PROVE  Asked(item) = QuantityOf(request, row) /\ Asked(item) \in Nat
<1> DEFINE S == Entries(item.key)
           g == QuantitiesOf(item.key)
<1>1. UniqueOn(request.quantities, LAMBDA entry : entry.item)
  BY Zenon DEF AcceptedRequest
<1>2. \A i, j \in DOMAIN request.quantities :
         request.quantities[i].item = request.quantities[j].item => i = j
  BY <1>1, Zenon DEF UniqueOn
<1>3. \A i \in DOMAIN request.quantities : request.quantities[i].quantity \in Nat
  BY CalculationAssumption DEF AcceptedRequest
<1>4. QuantityOf(request, row) = IF S = {} THEN 0 ELSE request.quantities[CHOOSE i \in S : TRUE].quantity
  <2>1. QuantityOf(request, row) = IF Entries(row.key) = {} THEN 0
                                   ELSE request.quantities[CHOOSE i \in Entries(row.key) : TRUE].quantity
    BY Zenon DEF QuantityOf, Entries
  <2> QED BY <2>1
<1>5. \A i \in S : g[i] = request.quantities[i].quantity /\ g[i] \in Nat
  BY <1>3 DEF QuantitiesOf, Entries
<1>6. CASE S = {}
  <2>1. Asked(item) = 0
    BY <1>6, AskedIsAmount, AmountOfNone, FS_EmptySet
  <2> QED BY <1>4, <1>6, <2>1
<1>7. CASE S # {}
  <2>1. PICK i \in S : TRUE
    BY <1>7
  <2>2. S = {i}
    BY <1>2, <2>1 DEF Entries
  <2>3. IsFiniteSet(S)
    BY <2>2, FS_Singleton
  <2>4. Asked(item) = Amount(S, g)
    BY <1>5, <2>3, AskedIsAmount
  <2> HIDE DEF S, g
  <2>5. Amount(S, g) = g[i] + Amount(S \ {i}, g)
    BY <1>5, <2>1, <2>3, AmountIsNatural
  <2>6. Amount(S \ {i}, g) = 0
    <3>1. S \ {i} = {}
      BY <2>2
    <3> QED BY <3>1, AmountOfNone
  <2>7. (CHOOSE x \in S : TRUE) = i
    BY <2>2
  <2>8. Amount(S, g) = g[i]
    BY <1>5, <2>1, <2>5, <2>6
  <2> QED BY <1>4, <1>5, <1>7, <2>1, <2>4, <2>7, <2>8
<1> QED BY <1>6, <1>7

\* line is what the engine computes for an item of the draft.
LineFor(item, line) ==
    \E row \in ToSet(Engine.items) : EngineItem(item, row) /\ line = ComputeLine(row, Asked(item))

LEMMA LineHasItsItem ==
    ASSUME NEW item, NEW row, NEW quantity
    PROVE  ComputeLine(row, quantity).item = row /\ ComputeLine(row, quantity).quantity = quantity
<1> DEFINE line(listed, amounts, taxState, unknownState) ==
              [item |-> row, quantity |-> quantity, listed |-> listed,
               subtotal |-> amounts.subtotal, tax |-> amounts.tax, total |-> amounts.total,
               taxState |-> taxState, unknownState |-> unknownState]
<1>1. \A l, a, t, u : line(l, a, t, u).item = row /\ line(l, a, t, u).quantity = quantity
  OBVIOUS
<1>2. \E l, a, t, u : ComputeLine(row, quantity) = line(l, a, t, u)
  BY DEF ComputeLine
<1> QED BY <1>1, <1>2

\* What every item of a configuration contributes, and the items asked for.
LinesAt(conf, req) ==
    [i \in DOMAIN conf.items |-> ComputeLine(conf.items[i], QuantityOf(req, conf.items[i]))]

Picked(conf, req) == {i \in DOMAIN conf.items : QuantityOf(req, conf.items[i]) # 0}

LEMMA SelectedAreKept ==
    ASSUME NEW conf, NEW req, IsSequence(conf.items)
    PROVE  /\ IsSequence(LinesAt(conf, req)) /\ DOMAIN LinesAt(conf, req) = DOMAIN conf.items
           /\ SelectedLines(conf, req) = Kept(LinesAt(conf, req), Picked(conf, req))
<1> DEFINE rows == conf.items
           picked == Picked(conf, req)
           selected == Kept(rows, picked)
           lines == LinesAt(conf, req)
<1>1. Filter(rows, LAMBDA item : QuantityOf(req, item) # 0) = selected
  BY Zenon DEF Filter, Kept, At, Upward, Picked
<1>2. picked \in SUBSET DOMAIN rows
  BY DEF Picked
<1>3. DOMAIN lines = DOMAIN rows /\ lines = [i \in DOMAIN rows |-> lines[i]]
      /\ \A i \in DOMAIN rows : lines[i] = ComputeLine(rows[i], QuantityOf(req, rows[i]))
  BY DEF LinesAt
<1> HIDE DEF picked, selected, lines
<1>4. IsSequence(lines)
  BY <1>3, MappedIsSequence
<1>5. SelectedLines(conf, req) =
        [k \in DOMAIN selected |-> ComputeLine(selected[k], QuantityOf(req, selected[k]))]
  BY <1>1, Zenon DEF SelectedLines
<1>6. /\ DOMAIN selected = DOMAIN KeptAt(picked)
      /\ \A k \in DOMAIN selected : selected[k] = rows[KeptAt(picked)[k]] /\ KeptAt(picked)[k] \in DOMAIN rows
  <2>1. /\ KeptAt(picked) \in [DOMAIN selected -> picked]
        /\ \A k \in DOMAIN selected : selected[k] = rows[KeptAt(picked)[k]]
    BY <1>2, KeptPositions DEF selected
  <2> QED BY <1>2, <2>1
<1>7. Kept(lines, picked) = [k \in DOMAIN selected |-> lines[KeptAt(picked)[k]]]
  BY <1>6 DEF Kept, At, KeptAt
<1>8. \A k \in DOMAIN selected :
         ComputeLine(selected[k], QuantityOf(req, selected[k])) = lines[KeptAt(picked)[k]]
  BY <1>3, <1>6
<1>9. SelectedLines(conf, req) = Kept(lines, picked)
  BY <1>5, <1>7, <1>8, Zenon
<1> QED BY <1>3, <1>4, <1>9 DEF lines, picked

LEMMA PickedAreTheChosen ==
    ASSUME AnswerIsOfTheDraft
    PROVE  LET lines == LinesAt(Engine, request)
               picked == Picked(Engine, request)
           IN /\ IsSequence(Engine.items) /\ picked \in SUBSET DOMAIN Engine.items
              /\ \A i \in picked : \E item \in Chosen : LineFor(item, lines[i])
              /\ \A item \in Chosen : \E i \in picked : LineFor(item, lines[i])
              /\ \A i, j \in picked : lines[i].item.key = lines[j].item.key => i = j
<1> DEFINE rows == Engine.items
           lines == LinesAt(Engine, request)
           picked == Picked(Engine, request)
<1>1. /\ IsSequence(rows) /\ AcceptedRequest(Engine, request)
      /\ \A row \in ToSet(rows) : \E item \in Rows(draft.items) : EngineItem(item, row)
      /\ \A item \in Rows(draft.items) : \E row \in ToSet(rows) : EngineItem(item, row)
      /\ \A i, j \in DOMAIN rows : rows[i].key = rows[j].key => i = j
  BY Zenon DEF AnswerIsOfTheDraft, EngineHasTheDraft
<1>2. \A i \in DOMAIN rows :
         lines[i] = ComputeLine(rows[i], QuantityOf(request, rows[i])) /\ lines[i].item = rows[i]
  BY LineHasItsItem DEF LinesAt
<1>3. \A item : \A row \in ToSet(rows) :
         EngineItem(item, row) => Asked(item) = QuantityOf(request, row) /\ Asked(item) \in Nat
  <2> SUFFICES ASSUME NEW item, NEW row \in ToSet(rows), EngineItem(item, row)
               PROVE  Asked(item) = QuantityOf(request, row) /\ Asked(item) \in Nat
    OBVIOUS
  <2>1. row.key = item.key
    BY Zenon DEF EngineItem
  <2> QED BY <1>1, <2>1, AskedIsQuantity
<1>4. picked \in SUBSET DOMAIN rows /\ \A i \in DOMAIN rows : i \in picked <=> QuantityOf(request, rows[i]) # 0
  BY DEF Picked
<1> HIDE DEF lines, picked
<1>5. ASSUME NEW i \in picked  PROVE \E item \in Chosen : LineFor(item, lines[i])
  <2>1. rows[i] \in ToSet(rows)
    BY <1>4 DEF ToSet
  <2>2. PICK item \in Rows(draft.items) : EngineItem(item, rows[i])
    BY <1>1, <2>1
  <2>3. Asked(item) = QuantityOf(request, rows[i]) /\ Asked(item) \in Nat
    BY <1>3, <2>1, <2>2
  <2>4. item \in Chosen
    BY <1>4, <2>3 DEF Chosen
  <2>5. LineFor(item, lines[i])
    BY <1>2, <1>4, <2>1, <2>2, <2>3 DEF LineFor
  <2> QED BY <2>4, <2>5
<1>6. ASSUME NEW item \in Chosen  PROVE \E i \in picked : LineFor(item, lines[i])
  <2>1. PICK row \in ToSet(rows) : EngineItem(item, row)
    BY <1>1 DEF Chosen
  <2>2. Asked(item) = QuantityOf(request, row) /\ Asked(item) > 0
    BY <1>3, <2>1 DEF Chosen
  <2>3. PICK i \in DOMAIN rows : row = rows[i]
    BY DEF ToSet
  <2>4. i \in picked
    BY <1>4, <2>2, <2>3
  <2>5. LineFor(item, lines[i])
    BY <1>2, <2>1, <2>2, <2>3 DEF LineFor
  <2> QED BY <2>4, <2>5
<1>7. \A i, j \in picked : lines[i].item.key = lines[j].item.key => i = j
  BY <1>1, <1>2, <1>4
<1> QED BY <1>1, <1>4, <1>5, <1>6, <1>7 DEF lines, picked

LEMMA LinesAreOfTheChosen ==
    ASSUME AnswerIsOfTheDraft
    PROVE  /\ \A i \in DOMAIN Lines : \E item \in Chosen : LineFor(item, Lines[i])
           /\ \A item \in Chosen : \E i \in DOMAIN Lines : LineFor(item, Lines[i])
           /\ \A i, j \in DOMAIN Lines : Lines[i].item.key = Lines[j].item.key => i = j
<1> DEFINE lines == LinesAt(Engine, request)
           picked == Picked(Engine, request)
<1>1. /\ Lines = Kept(lines, picked) /\ IsSequence(lines) /\ picked \in SUBSET DOMAIN lines
      /\ \A i \in picked : \E item \in Chosen : LineFor(item, lines[i])
      /\ \A item \in Chosen : \E i \in picked : LineFor(item, lines[i])
      /\ \A i, j \in picked : lines[i].item.key = lines[j].item.key => i = j
  BY PickedAreTheChosen, SelectedAreKept DEF Lines
<1> HIDE DEF lines, picked
<1>2. /\ KeptAt(picked) \in [DOMAIN Lines -> picked]
      /\ \A i \in picked : \E k \in DOMAIN Lines : KeptAt(picked)[k] = i
      /\ \A j, k \in DOMAIN Lines : KeptAt(picked)[j] = KeptAt(picked)[k] => j = k
      /\ \A k \in DOMAIN Lines : Lines[k] = lines[KeptAt(picked)[k]]
  BY <1>1, KeptPositions
<1>3. \A item \in Chosen : \E k \in DOMAIN Lines : LineFor(item, Lines[k])
  BY <1>1, <1>2
<1>4. \A j, k \in DOMAIN Lines : Lines[j].item.key = Lines[k].item.key => j = k
  BY <1>1, <1>2
<1>5. \A k \in DOMAIN Lines : \E item \in Chosen : LineFor(item, Lines[k])
  BY <1>1, <1>2
<1> QED BY <1>3, <1>4, <1>5

LEMMA CompleteMeans ==
    ASSUME AnswerIsOfTheDraft, order.verdict.calculation = "complete"
    PROVE  /\ \A v \in Validations : v.severity \notin {"hard_error", "warning"}
           /\ \A w \in OrderWarnings(Engine, Lines) : w.severity # "warning"
           /\ \A i \in DOMAIN Lines : Lines[i].total # Null
           /\ order.totals.final.state = "known"
<1> DEFINE severities == {v.severity : v \in Validations}
           totals == ComputeTotals(Lines)
           warned == OrderWarnings(Engine, Lines)
           uncertain == \/ "warning" \in severities
                        \/ \E w \in warned : w.severity = "warning"
                        \/ totals.final.state # "known"
<1>1. order.verdict = Verdict(severities, warned, totals)
  BY Zenon DEF AnswerIsOfTheDraft
<1>2. Verdict(severities, warned, totals).calculation =
        IF "hard_error" \in severities THEN "invalid" ELSE IF uncertain THEN "incomplete" ELSE "complete"
  <2> HIDE DEF severities, totals, warned
  <2> QED BY DEF Verdict
<1>3. "hard_error" \notin severities /\ ~uncertain
  <2> HIDE DEF severities, uncertain
  <2> QED BY <1>1, <1>2
<1>4. \A v \in Validations : v.severity \notin {"hard_error", "warning"}
  BY <1>3
<1>5. \A w \in warned : w.severity # "warning"
  BY <1>3
<1>6. totals.final = IF AllKnown(AmountsOf(Lines, "total"))
                     THEN [state |-> "known", amount |-> SumKnown(AmountsOf(Lines, "total"))]
                     ELSE [state |-> IF \E i \in DOMAIN Lines : Lines[i].unknownState = "unsupported"
                                     THEN "unsupported" ELSE "unknown",
                           amount |-> Null]
  BY DEF ComputeTotals
<1>7. AllKnown(AmountsOf(Lines, "total"))
  <2>1. totals.final.state = "known"
    BY <1>3
  <2> HIDE DEF totals
  <2> QED BY <1>6, <2>1
<1>8. \A i \in DOMAIN Lines : Lines[i].total # Null
  BY <1>7 DEF AllKnown, AmountsOf
<1>9. order.totals.final.state = "known"
  <2>1. order.totals = totals
    BY Zenon DEF AnswerIsOfTheDraft
  <2> QED BY <1>3, <2>1
<1> QED BY <1>4, <1>5, <1>8, <1>9

LEMMA RowsOfTheDraft ==
    ASSUME AnswerIsOfTheDraft
    PROVE  /\ \A item \in Rows(draft.items) :
                 /\ item.availability \in {"available", "unavailable", "unknown"}
                 /\ item.minimum \in Nat /\ item.maximum \in Nat
                 /\ item.priceState = "known" => item.price \in Nat
           /\ \A w \in Rows(draft.warnings) : w.scope \in {"template", "item"}
<1>1. WellFormedCatalog(draft) /\ AcceptedCatalog(draft)
  BY Zenon DEF AnswerIsOfTheDraft
<1>2. \A i \in DOMAIN draft.items :
         /\ draft.items[i].availability \in {"available", "unavailable", "unknown"}
         /\ draft.items[i].minimum \in Nat /\ draft.items[i].maximum \in Nat
         /\ draft.items[i].priceState = "known" => draft.items[i].price \in Nat
  BY <1>1, CalculationAssumption
     DEF WellFormedCatalog, AcceptedCatalog, AcceptedRows, AcceptedCatalogItem, KnownAmount
<1>3. \A i \in DOMAIN draft.warnings : draft.warnings[i].scope \in {"template", "item"}
  BY <1>1 DEF WellFormedCatalog
<1> QED BY <1>2, <1>3 DEF Rows, ToSet

\* core.js:1585: an order is complete only when nothing about it is open:
\* prices, taxes and availability of the chosen items, the limits of the
\* catalog, and no warning of the catalog or of a chosen item.
THEOREM CompleteMeansNothingIsOpenHolds == Spec => []CompleteMeansNothingIsOpen
<1>1. ASSUME AnswerIsOfTheDraft, order.verdict.calculation = "complete", NEW item \in Chosen
      PROVE  /\ item.priceState = "known"
             /\ item.availability = "available"
             /\ RuleOf(item).state \in {"known", "not_applicable"}
             /\ Asked(item) \in {q \in item.minimum..item.maximum :
                                 (q - item.minimum) % item.step = 0}
             /\ \A w \in Rows(draft.warnings) : w.severity = "warning" => w.item # item.key
  <2>1. PICK i \in DOMAIN Lines : LineFor(item, Lines[i])
    BY <1>1, LinesAreOfTheChosen
  <2>2. PICK row \in ToSet(Engine.items) : EngineItem(item, row) /\ Lines[i] = ComputeLine(row, Asked(item))
    BY <2>1 DEF LineFor
  <2>3. Lines[i].item = row /\ Lines[i].quantity = Asked(item) /\ Lines[i].total # Null
    BY <1>1, <2>2, LineHasItsItem, CompleteMeans
  <2>4. LineValidations(row, Asked(item)) \subseteq Validations
    BY <2>3 DEF Validations, OrderValidations
  <2>5. \A v \in LineValidations(row, Asked(item)) : v.severity \notin {"hard_error", "warning"}
    BY <1>1, <2>4, CompleteMeans
  <2>6. /\ row.priceState = item.priceState /\ row.availability = item.availability
        /\ row.minimum = item.minimum /\ row.maximum = item.maximum /\ row.step = item.step
        /\ row.tax.state = RuleOf(item).state /\ row.key = item.key
    BY <2>2 DEF EngineItem
  <2>7. /\ item.availability \in {"available", "unavailable", "unknown"}
        /\ item.minimum \in Nat /\ item.maximum \in Nat /\ Asked(item) \in Nat
    <3>1. item \in Rows(draft.items)
      BY DEF Chosen
    <3>2. AcceptedRequest(Engine, request)
      BY <1>1, Zenon DEF AnswerIsOfTheDraft
    <3> QED BY <1>1, <2>6, <3>1, <3>2, RowsOfTheDraft, AskedIsQuantity
  <2>8. \A severity, code, target : Validation(severity, code, target).severity = severity
    BY DEF Validation
  <2>9. row.priceState = "known"
    <3>1. row.priceState # "known" => Validation("hard_error", "price_not_known", row.key) \in LineValidations(row, Asked(item))
      BY DEF LineValidations, PriceValidations
    <3> QED BY <2>5, <2>8, <3>1
  <2>10. row.availability = "available"
    <3>1. row.availability = "unavailable" =>
             Validation("hard_error", "unavailable", row.key) \in LineValidations(row, Asked(item))
      BY DEF LineValidations, AvailabilityValidations
    <3>2. row.availability = "unknown" =>
             Validation("warning", "availability_unknown", row.key) \in LineValidations(row, Asked(item))
      BY DEF LineValidations, AvailabilityValidations
    <3> QED BY <2>5, <2>6, <2>7, <2>8, <3>1, <3>2
  <2>11. row.tax.state \in {"known", "not_applicable"}
    BY <2>2, <2>3, <2>9 DEF ComputeLine
  <2>12. Asked(item) \in {q \in item.minimum..item.maximum : (q - item.minimum) % item.step = 0}
    <3>1. Asked(item) < row.minimum =>
             Validation("hard_error", "below_minimum", row.key) \in LineValidations(row, Asked(item))
      BY DEF LineValidations, QuantityValidations
    <3>2. Asked(item) > row.maximum =>
             Validation("hard_error", "above_maximum", row.key) \in LineValidations(row, Asked(item))
      BY DEF LineValidations, QuantityValidations
    <3>3. Asked(item) >= row.minimum /\ (Asked(item) - row.minimum) % row.step # 0 =>
             Validation("hard_error", "step_mismatch", row.key) \in LineValidations(row, Asked(item))
      BY DEF LineValidations, QuantityValidations
    <3>4. ~(Asked(item) < row.minimum) /\ ~(Asked(item) > row.maximum)
      BY <2>5, <2>8, <3>1, <3>2
    <3>5. Asked(item) >= row.minimum
      BY <2>6, <2>7, <3>4
    <3>6. (Asked(item) - row.minimum) % row.step = 0
      BY <2>5, <2>8, <3>3, <3>5
    <3> QED BY <2>6, <2>7, <3>4, <3>6
  <2>13. ASSUME NEW w \in Rows(draft.warnings), w.severity = "warning"  PROVE w.item # item.key
    <3>1. w.item = item.key => WarningRow(w) \in ToSet(row.warnings)
      BY <2>2 DEF EngineItem
    <3>2. WarningRow(w) \in ToSet(row.warnings) => WarningRow(w) \in OrderWarnings(Engine, Lines)
      BY <2>3 DEF OrderWarnings
    <3>3. WarningRow(w).severity = "warning"
      BY <2>13 DEF WarningRow
    <3> QED BY <1>1, <3>1, <3>2, <3>3, CompleteMeans
  <2> QED BY <2>6, <2>9, <2>10, <2>11, <2>12, <2>13
<1>2. ASSUME AnswerIsOfTheDraft, order.verdict.calculation = "complete",
             NEW limited \in Rows(draft.buckets) \union Rows(draft.constraints)
      PROVE  limited.limitState \notin {"unknown", "unsupported"}
  <2>1. \A v \in Validations : v.severity \notin {"hard_error", "warning"}
    BY <1>2, CompleteMeans
  <2>2. /\ ToSet(Engine.buckets) = {BucketRow(bucket) : bucket \in Rows(draft.buckets)}
        /\ ToSet(Engine.constraints) = {ConstraintRow(constraint) : constraint \in Rows(draft.constraints)}
    BY <1>2, Zenon DEF AnswerIsOfTheDraft, EngineHasTheDraft
  <2>3. \A severity, code, target : Validation(severity, code, target).severity = severity
    BY DEF Validation
  <2>4. CASE limited \in Rows(draft.buckets)
    <3>1. PICK i \in DOMAIN Engine.buckets : Engine.buckets[i] = BucketRow(limited)
      BY <2>2, <2>4 DEF ToSet
    <3>2. Engine.buckets[i].limitState = limited.limitState
      BY <3>1 DEF BucketRow
    <3>3. BucketValidations(Engine.buckets[i], Lines) \subseteq Validations
      BY DEF Validations, OrderValidations
    <3>4. limited.limitState = "unsupported" =>
             Validation("hard_error", "bucket_limit_unsupported", Engine.buckets[i].key) \in Validations
      BY <3>2, <3>3 DEF BucketValidations
    <3>5. limited.limitState = "unknown" =>
             Validation("warning", "bucket_limit_unknown", Engine.buckets[i].key) \in Validations
      BY <3>2, <3>3 DEF BucketValidations
    <3> QED BY <2>1, <2>3, <3>4, <3>5
  <2>5. CASE limited \in Rows(draft.constraints)
    <3>1. PICK i \in DOMAIN Engine.constraints : Engine.constraints[i] = ConstraintRow(limited)
      BY <2>2, <2>5 DEF ToSet
    <3>2. Engine.constraints[i].limitState = limited.limitState
      BY <3>1 DEF ConstraintRow
    <3>3. ConstraintValidations(Engine.constraints[i], Lines) \subseteq Validations
      BY DEF Validations, OrderValidations
    <3>4. limited.limitState # "known" => ConstraintResult(Engine.constraints[i], Lines) = limited.limitState
      BY <3>2 DEF ConstraintResult
    <3>5. limited.limitState = "unsupported" =>
             Validation("hard_error", "constraint_unsupported", Engine.constraints[i].key) \in Validations
      BY <3>3, <3>4 DEF ConstraintValidations
    <3>6. limited.limitState = "unknown" =>
             Validation("warning", "constraint_unknown", Engine.constraints[i].key) \in Validations
      BY <3>3, <3>4 DEF ConstraintValidations
    <3> QED BY <2>1, <2>3, <3>5, <3>6
  <2> QED BY <2>4, <2>5
<1>3. ASSUME AnswerIsOfTheDraft, order.verdict.calculation = "complete",
             NEW w \in Rows(draft.warnings), w.severity = "warning"
      PROVE  w.scope = "item" /\ w.item \notin {i.key : i \in Chosen}
  <2>1. w.item \notin {i.key : i \in Chosen}
    BY <1>1, <1>3
  <2>2. w.scope = "template" => WarningRow(w) \in OrderWarnings(Engine, Lines)
    <3>1. ToSet(Engine.warnings) = {WarningRow(v) : v \in {v \in Rows(draft.warnings) : v.scope = "template"}}
      BY <1>3, Zenon DEF AnswerIsOfTheDraft, EngineHasTheDraft
    <3>2. w.scope = "template" => WarningRow(w) \in ToSet(Engine.warnings)
      BY <3>1
    <3> QED BY <3>2 DEF OrderWarnings
  <2>3. WarningRow(w).severity = "warning"
    BY <1>3 DEF WarningRow
  <2>4. w.scope \in {"template", "item"}
    BY <1>3, RowsOfTheDraft
  <2> QED BY <1>3, <2>1, <2>2, <2>3, <2>4, CompleteMeans
<1>4. AnswerIsOfTheDraft /\ order.verdict.calculation = "complete" => CompleteMeansNothingIsOpen
  BY <1>1, <1>2, <1>3, Zenon DEF CompleteMeansNothingIsOpen
<1>5. SealedIsTheDraft /\ ProjectionIsOfTheDraft /\ OrderIsOfTheRequest => CompleteMeansNothingIsOpen
  <2>1. ~(Calculated /\ order.verdict.calculation = "complete") => CompleteMeansNothingIsOpen
    BY Zenon DEF CompleteMeansNothingIsOpen
  <2> QED BY <1>4, <2>1, WhatIsCalculated
<1> QED BY <1>5, SealedIsTheDraftHolds, ProjectionIsOfTheDraftHolds, OrderIsOfTheRequestHolds, PTL

-----------------------------------------------------------------------------
(* The amounts of a line.                                                  *)

LEMMA DivisionIs ==
    ASSUME NEW n \in Nat, NEW d \in Nat, d > 0
    PROVE  /\ n \div d \in Nat /\ n % d \in Nat /\ n % d < d
           /\ n = d * (n \div d) + (n % d)
<1>1. n \div d \in Int /\ n \div d >= 0
  OBVIOUS
<1>2. n % d \in Int /\ n % d >= 0
  OBVIOUS
<1>3. n % d < d
  OBVIOUS
<1>4. n = d * (n \div d) + (n % d)
  OBVIOUS
<1>5. n \div d \in Nat /\ n % d \in Nat
  BY <1>1, <1>2
<1> QED BY <1>3, <1>4, <1>5, Zenon

LEMMA RoundedIs ==
    ASSUME NEW n \in Nat, NEW d \in Nat, d > 0, NEW mode \in {"half_up", "floor", "ceiling"}
    PROVE  /\ DivideRounded(n, d, mode) \in Nat
           /\ IsRounded(DivideRounded(n, d, mode), n, d, mode)
<1> DEFINE q == n \div d
           r == n % d
           up == mode = "ceiling" \/ (mode = "half_up" /\ 2 * r >= d)
           m == DivideRounded(n, d, mode)
<1>1. q \in Nat /\ r \in Nat /\ r < d /\ n = d * q + r
  BY DivisionIs
<1>2. m = IF r # 0 /\ up THEN q + 1 ELSE q
  BY DEF DivideRounded
<1>3. /\ mode = "floor" => (IsRounded(m, n, d, mode) <=> m * d <= n /\ n < (m + 1) * d)
      /\ mode = "ceiling" => (IsRounded(m, n, d, mode) <=> m * d >= n /\ n > (m - 1) * d)
      /\ mode = "half_up" =>
            (IsRounded(m, n, d, mode) <=> 2 * m * d <= 2 * n + d /\ 2 * n < (2 * m + 1) * d)
  BY DEF IsRounded
<1> HIDE DEF q, r, m
<1>4. PICK x \in Int : x = d * q
  BY <1>1
<1>5. n = x + r /\ q \in Nat /\ r \in Nat /\ r < d
  BY <1>1, <1>4
<1>6. CASE r # 0 /\ up
  <2>1. m = q + 1
    BY <1>2, <1>6
  <2>2. m \in Nat
    BY <1>5, <2>1
  <2>3. /\ m * d = x + d /\ (m + 1) * d = x + 2 * d /\ (m - 1) * d = x
        /\ 2 * m * d = 2 * x + 2 * d /\ (2 * m + 1) * d = 2 * x + 3 * d
    BY <1>4, <1>5, <2>1
  <2>4. CASE mode = "ceiling"
    <3>1. x + d >= n /\ n > x
      BY <1>5, <1>6
    <3>2. (m * d >= n /\ n > (m - 1) * d)
      BY <2>3, <3>1
    <3>3. IsRounded(m, n, d, mode) <=> (m * d >= n /\ n > (m - 1) * d)
      BY <1>3, <2>4, Zenon
    <3> QED BY <2>2, <3>2, <3>3, Zenon DEF m
  <2>5. CASE mode = "half_up"
    <3>1. 2 * x + 2 * d <= 2 * n + d /\ 2 * n < 2 * x + 3 * d
      BY <1>5, <1>6, <2>5
    <3>2. (2 * m * d <= 2 * n + d /\ 2 * n < (2 * m + 1) * d)
      BY <2>3, <3>1
    <3>3. IsRounded(m, n, d, mode) <=> (2 * m * d <= 2 * n + d /\ 2 * n < (2 * m + 1) * d)
      BY <1>3, <2>5, Zenon
    <3> QED BY <2>2, <3>2, <3>3, Zenon DEF m
  <2> QED BY <1>6, <2>4, <2>5
<1>7. CASE ~(r # 0 /\ up)
  <2>1. m = q
    BY <1>2, <1>7
  <2>2. m \in Nat
    BY <1>5, <2>1
  <2>3. /\ m * d = x /\ (m + 1) * d = x + d /\ (m - 1) * d = x - d
        /\ 2 * m * d = 2 * x /\ (2 * m + 1) * d = 2 * x + d
    BY <1>4, <1>5, <2>1
  <2>4. CASE mode = "floor"
    <3>1. x <= n /\ n < x + d
      BY <1>5
    <3>2. (m * d <= n /\ n < (m + 1) * d)
      BY <2>3, <3>1
    <3>3. IsRounded(m, n, d, mode) <=> (m * d <= n /\ n < (m + 1) * d)
      BY <1>3, <2>4, Zenon
    <3> QED BY <2>2, <3>2, <3>3, Zenon DEF m
  <2>5. CASE mode = "ceiling"
    <3>1. x >= n /\ n > x - d
      BY <1>5, <1>7, <2>5
    <3>2. (m * d >= n /\ n > (m - 1) * d)
      BY <2>3, <3>1
    <3>3. IsRounded(m, n, d, mode) <=> (m * d >= n /\ n > (m - 1) * d)
      BY <1>3, <2>5, Zenon
    <3> QED BY <2>2, <3>2, <3>3, Zenon DEF m
  <2>6. CASE mode = "half_up"
    <3>1. 2 * x <= 2 * n + d /\ 2 * n < 2 * x + d
      BY <1>5, <1>7, <2>6
    <3>2. (2 * m * d <= 2 * n + d /\ 2 * n < (2 * m + 1) * d)
      BY <2>3, <3>1
    <3>3. IsRounded(m, n, d, mode) <=> (2 * m * d <= 2 * n + d /\ 2 * n < (2 * m + 1) * d)
      BY <1>3, <2>6, Zenon
    <3> QED BY <2>2, <3>2, <3>3, Zenon DEF m
  <2> QED BY <2>4, <2>5, <2>6
<1> QED BY <1>6, <1>7 DEF m

\* A part of a whole, rounded, is not more than the whole.
LEMMA RoundedIsWithin ==
    ASSUME NEW n \in Nat, NEW d \in Nat, d > 0, NEW whole \in Nat, n <= d * whole, NEW mode
    PROVE  DivideRounded(n, d, mode) <= whole
<1> DEFINE q == n \div d
           r == n % d
           m == DivideRounded(n, d, mode)
<1>1. q \in Nat /\ r \in Nat /\ n = d * q + r
  BY DivisionIs
<1>2. m = q \/ (m = q + 1 /\ r # 0)
  BY DEF DivideRounded
<1> HIDE DEF q, r, m
<1>3. q <= whole
  <2> SUFFICES ASSUME q >= whole + 1  PROVE FALSE
    BY <1>1
  <2>1. PICK k \in Nat : q = whole + 1 + k
    <3>1. q - whole - 1 \in Nat /\ q = whole + 1 + (q - whole - 1)
      BY <1>1
    <3> QED BY <3>1
  <2>2. d * q = d * whole + d + d * k /\ d * k \in Nat /\ d * whole \in Nat
    BY <1>1, <2>1
  <2> QED BY <1>1, <2>2
<1>4. r # 0 => q # whole
  <2>1. d * whole \in Nat
    OBVIOUS
  <2> QED BY <1>1, <2>1
<1>5. m <= whole
  BY <1>1, <1>2, <1>3, <1>4
<1> QED BY <1>5 DEF m

\* The tax on an amount, as a rule of the draft or as the engine has it.
IsTaxOn(tax, listed, rule) ==
    IsRounded(tax, listed * rule.rate,
              IF rule.inclusive THEN PpmDenominator + rule.rate ELSE PpmDenominator, rule.rounding)

\* The amounts of a line whose price and tax are known.
AddsToTotal(line) ==
    /\ {line.listed, line.subtotal, line.total, OrZero(line.tax)} \subseteq Nat
    /\ line.total = line.subtotal + OrZero(line.tax)
    /\ line.listed <= line.total
    /\ line.tax # Null <=> line.taxState = "known"
    /\ line.tax = Null => line.taxState = "not_applicable"

LEMMA KnownTaxIs ==
    ASSUME NEW tax, AcceptedTax(tax), tax.state = "known", NEW listed \in Nat
    PROVE  LET known == KnownTax(listed, tax)
           IN /\ known.tax \in Nat /\ known.subtotal \in Nat /\ known.total \in Nat
              /\ known.total = known.subtotal + known.tax /\ listed <= known.total
              /\ known.subtotal = IF tax.inclusive THEN listed - known.tax ELSE listed
              /\ IsTaxOn(known.tax, listed, tax)
<1>1. tax.rate \in Nat /\ tax.inclusive \in BOOLEAN /\ tax.rounding \in {"half_up", "floor", "ceiling"}
  BY CalculationAssumption DEF AcceptedTax
<1>2. PpmDenominator \in Nat /\ PpmDenominator > 0
  BY CalculationAssumption
<1>3. listed * tax.rate \in Nat /\ PpmDenominator + tax.rate \in Nat /\ PpmDenominator + tax.rate > 0
  BY <1>1, <1>2
<1>4. CASE tax.inclusive = TRUE
  <2> DEFINE m == DivideRounded(listed * tax.rate, PpmDenominator + tax.rate, tax.rounding)
  <2>1. m \in Nat /\ IsRounded(m, listed * tax.rate, PpmDenominator + tax.rate, tax.rounding)
    BY <1>1, <1>3, RoundedIs
  <2>2. m <= listed
    <3>1. listed * tax.rate <= (PpmDenominator + tax.rate) * listed
      <4>1. PICK x \in Nat : x = listed * tax.rate
        BY <1>3
      <4>2. PICK y \in Nat : y = PpmDenominator * listed
        BY <1>2
      <4>3. (PpmDenominator + tax.rate) * listed = y + x
        BY <1>1, <1>2, <4>1, <4>2
      <4> QED BY <4>1, <4>3
    <3> QED BY <1>3, <3>1, RoundedIsWithin
  <2>3. KnownTax(listed, tax) = [subtotal |-> listed - m, tax |-> m, total |-> listed]
    BY <1>4, Zenon DEF KnownTax
  <2>4. IsTaxOn(m, listed, tax)
    BY <1>4, <2>1, Zenon DEF IsTaxOn
  <2>5. (IF tax.inclusive THEN listed - m ELSE listed) = listed - m
    BY <1>4, Zenon
  <2> HIDE DEF m
  <2>6. /\ KnownTax(listed, tax).tax = m /\ KnownTax(listed, tax).subtotal = listed - m
        /\ KnownTax(listed, tax).total = listed
    BY <2>3
  <2>7. listed - m \in Nat /\ listed = (listed - m) + m
    BY <2>1, <2>2
  <2> QED BY <2>1, <2>4, <2>5, <2>6, <2>7
<1>5. CASE tax.inclusive = FALSE
  <2> DEFINE m == DivideRounded(listed * tax.rate, PpmDenominator, tax.rounding)
  <2>1. m \in Nat /\ IsRounded(m, listed * tax.rate, PpmDenominator, tax.rounding)
    BY <1>1, <1>2, <1>3, RoundedIs
  <2>3. KnownTax(listed, tax) = [subtotal |-> listed, tax |-> m, total |-> listed + m]
    BY <1>5, Zenon DEF KnownTax
  <2>4. IsTaxOn(m, listed, tax)
    BY <1>5, <2>1, Zenon DEF IsTaxOn
  <2>5. (IF tax.inclusive THEN listed - m ELSE listed) = listed
    BY <1>5, Zenon
  <2> HIDE DEF m
  <2>6. /\ KnownTax(listed, tax).tax = m /\ KnownTax(listed, tax).subtotal = listed
        /\ KnownTax(listed, tax).total = listed + m
    BY <2>3
  <2> QED BY <2>1, <2>4, <2>5, <2>6
<1> QED BY <1>1, <1>4, <1>5

LEMMA LineAmounts ==
    ASSUME NEW row, AcceptedItem(row), NEW quantity \in Nat
    PROVE  LET line == ComputeLine(row, quantity)
               listed == row.price * quantity
           IN /\ row.priceState = "known" => row.price \in Nat
              /\ line.subtotal = Null => line.total = Null /\ line.tax = Null
              /\ line.subtotal # Null =>
                    /\ row.priceState = "known" /\ row.tax.state \in {"known", "not_applicable"}
                    /\ AddsToTotal(line) /\ line.listed = listed
                    /\ line.subtotal = IF row.tax.state = "known" /\ row.tax.inclusive
                                       THEN listed - line.tax ELSE listed
              /\ row.priceState = "known" /\ row.tax.state \in {"known", "not_applicable"} =>
                    line.subtotal # Null
              /\ row.priceState = "known" /\ row.tax.state = "known" =>
                    line.tax \in Nat /\ IsTaxOn(line.tax, listed, row.tax)
<1> DEFINE line == ComputeLine(row, quantity)
           listed == row.price * quantity
           known == KnownTax(listed, row.tax)
<1>1. AcceptedTax(row.tax)
  BY DEF AcceptedItem
<1>2. row.priceState = "known" => row.price \in Nat /\ listed \in Nat
  BY CalculationAssumption DEF AcceptedItem, KnownAmount
<1>3. Null \notin Nat
  BY CalculationAssumption
<1>4. CASE row.priceState # "known"
  <2>1. line.subtotal = Null /\ line.total = Null /\ line.tax = Null
    BY <1>4 DEF ComputeLine
  <2> QED BY <1>4, <2>1
<1>5. CASE row.priceState = "known" /\ row.tax.state = "known"
  <2>1. /\ known.tax \in Nat /\ known.subtotal \in Nat /\ known.total \in Nat
        /\ known.total = known.subtotal + known.tax /\ listed <= known.total
        /\ known.subtotal = IF row.tax.inclusive THEN listed - known.tax ELSE listed
        /\ IsTaxOn(known.tax, listed, row.tax)
    BY <1>1, <1>2, <1>5, KnownTaxIs
  <2>2. /\ line.subtotal = known.subtotal /\ line.total = known.total /\ line.tax = known.tax
        /\ line.listed = listed /\ line.taxState = "known"
    <3> HIDE DEF known
    <3>1. line = [item |-> row, quantity |-> quantity, listed |-> listed,
                  subtotal |-> known.subtotal, tax |-> known.tax, total |-> known.total,
                  taxState |-> "known", unknownState |-> Null]
      BY <1>5 DEF ComputeLine, known
    <3> HIDE DEF line
    <3> QED BY <3>1
  <2> HIDE DEF known, line
  <2>3. line.subtotal # Null /\ line.tax # Null /\ OrZero(line.tax) = known.tax
    BY <1>3, <2>1, <2>2 DEF OrZero
  <2>4. AddsToTotal(line)
    BY <1>2, <1>5, <2>1, <2>2, <2>3 DEF AddsToTotal
  <2>5. line.subtotal = IF row.tax.state = "known" /\ row.tax.inclusive THEN listed - line.tax ELSE listed
    BY <1>5, <2>1, <2>2, Zenon
  <2> QED BY <1>2, <1>5, <2>1, <2>2, <2>3, <2>4, <2>5, Zenon DEF line
<1>6. CASE row.priceState = "known" /\ row.tax.state = "not_applicable"
  <2>1. /\ line.subtotal = listed /\ line.total = listed /\ line.tax = Null
        /\ line.listed = listed /\ line.taxState = "not_applicable"
    BY <1>6 DEF ComputeLine
  <2> HIDE DEF line
  <2>2. OrZero(line.tax) = 0
    BY <2>1 DEF OrZero
  <2>3. AddsToTotal(line)
    BY <1>2, <1>6, <2>1, <2>2 DEF AddsToTotal
  <2>4. row.tax.state # "known" /\ line.subtotal # Null
    BY <1>2, <1>3, <1>6, <2>1
  <2>5. line.subtotal = IF row.tax.state = "known" /\ row.tax.inclusive THEN listed - line.tax ELSE listed
    BY <2>1, <2>4, Zenon
  <2> QED BY <1>2, <1>6, <2>1, <2>3, <2>4, <2>5, Zenon DEF line
<1>7. CASE row.priceState = "known" /\ row.tax.state \notin {"known", "not_applicable"}
  <2>1. line.subtotal = Null /\ line.total = Null /\ line.tax = Null
    BY <1>7 DEF ComputeLine
  <2> QED BY <1>2, <1>7, <2>1
<1> QED BY <1>4, <1>5, <1>6, <1>7

\* The line that an order has for an item.
LEMMA LineOfTheItem ==
    ASSUME AnswerIsOfTheDraft, NEW item \in Chosen
    PROVE  LineFor(item, LineOf(item)) /\ \E i \in DOMAIN Lines : LineOf(item) = Lines[i]
<1>1. PICK i \in DOMAIN Lines : LineFor(item, Lines[i])
  BY LinesAreOfTheChosen
<1>2. \A line : LineFor(item, line) => line.item.key = item.key
  BY LineHasItsItem DEF LineFor, EngineItem
<1>3. order.lines = Lines
  BY Zenon DEF AnswerIsOfTheDraft
<1>4. \A line \in Rows(order.lines) : line.item.key = item.key => line = Lines[i]
  BY <1>1, <1>2, <1>3, LinesAreOfTheChosen DEF Rows, ToSet
<1>5. Lines[i] \in Rows(order.lines) /\ Lines[i].item.key = item.key
  BY <1>1, <1>2, <1>3 DEF Rows, ToSet
<1>6. LineOf(item) = Lines[i]
  BY <1>4, <1>5 DEF LineOf
<1> QED BY <1>1, <1>6

\* What the engine computes for an item, by the rows of the draft.
LEMMA AmountsOfTheItem ==
    ASSUME AnswerIsOfTheDraft, NEW item \in Chosen, NEW line, LineFor(item, line)
    PROVE  LET listed == item.price * Asked(item)
               rule == RuleOf(item)
           IN /\ Asked(item) \in Nat /\ line.quantity = Asked(item)
              /\ item.priceState = "known" => item.price \in Nat
              /\ line.subtotal = Null => line.total = Null /\ line.tax = Null
              /\ line.subtotal # Null =>
                    /\ item.priceState = "known" /\ rule.state \in {"known", "not_applicable"}
                    /\ AddsToTotal(line) /\ line.listed = listed
                    /\ line.subtotal = IF rule.state = "known" /\ rule.inclusive
                                       THEN listed - line.tax ELSE listed
              /\ item.priceState = "known" /\ rule.state \in {"known", "not_applicable"} =>
                    line.subtotal # Null
              /\ item.priceState = "known" /\ rule.state = "known" => IsTaxOn(line.tax, listed, rule)
<1>1. PICK row \in ToSet(Engine.items) : EngineItem(item, row) /\ line = ComputeLine(row, Asked(item))
  BY DEF LineFor
<1>2. /\ row.key = item.key /\ row.priceState = item.priceState /\ row.price = item.price
      /\ row.tax = [state |-> RuleOf(item).state, rate |-> RuleOf(item).rate,
                    inclusive |-> RuleOf(item).inclusive, rounding |-> RuleOf(item).rounding]
  BY <1>1, Zenon DEF EngineItem
<1>3. /\ row.tax.state = RuleOf(item).state /\ row.tax.rate = RuleOf(item).rate
      /\ row.tax.inclusive = RuleOf(item).inclusive /\ row.tax.rounding = RuleOf(item).rounding
  BY <1>2
<1>4. AcceptedItem(row)
  <2>1. \A i \in DOMAIN Engine.items : AcceptedItem(Engine.items[i])
    BY Zenon DEF AnswerIsOfTheDraft, AcceptedConfiguration
  <2> QED BY <2>1 DEF ToSet
<1>5. Asked(item) \in Nat
  <2>1. AcceptedRequest(Engine, request)
    BY Zenon DEF AnswerIsOfTheDraft
  <2> QED BY <1>2, <2>1, AskedIsQuantity
<1>6. line.quantity = Asked(item)
  BY <1>1, LineHasItsItem
<1>7. IsTaxOn(line.tax, item.price * Asked(item), row.tax) <=> IsTaxOn(line.tax, item.price * Asked(item), RuleOf(item))
  BY <1>3, Zenon DEF IsTaxOn
<1>8. \A listed : (IF row.tax.state = "known" /\ row.tax.inclusive THEN listed - line.tax ELSE listed)
                    = IF RuleOf(item).state = "known" /\ RuleOf(item).inclusive
                      THEN listed - line.tax ELSE listed
  BY <1>3, Zenon
<1>9. LET listed == row.price * Asked(item)
      IN /\ row.priceState = "known" => row.price \in Nat
         /\ line.subtotal = Null => line.total = Null /\ line.tax = Null
         /\ line.subtotal # Null =>
               /\ row.priceState = "known" /\ row.tax.state \in {"known", "not_applicable"}
               /\ AddsToTotal(line) /\ line.listed = listed
               /\ line.subtotal = IF row.tax.state = "known" /\ row.tax.inclusive
                                  THEN listed - line.tax ELSE listed
         /\ row.priceState = "known" /\ row.tax.state \in {"known", "not_applicable"} =>
               line.subtotal # Null
         /\ row.priceState = "known" /\ row.tax.state = "known" => IsTaxOn(line.tax, listed, row.tax)
  BY <1>1, <1>4, <1>5, LineAmounts, Zenon
<1> QED BY <1>2, <1>3, <1>5, <1>6, <1>7, <1>8, <1>9, Zenon

\* A total whose state is known adds up its field over all lines.
LEMMA AllLinesAddToTotal ==
    ASSUME AnswerIsOfTheDraft, order.totals.final.state = "known"
    PROVE  \A i \in DOMAIN Lines : AddsToTotal(Lines[i])
<1>1. \A i \in DOMAIN Lines : Lines[i].total # Null
  <2>1. ComputeTotals(Lines).final.state = "known"
    BY Zenon DEF AnswerIsOfTheDraft
  <2>2. ComputeTotals(Lines).final.state = "known" => AllKnown(AmountsOf(Lines, "total"))
    BY DEF ComputeTotals
  <2> QED BY <2>1, <2>2 DEF AllKnown, AmountsOf
<1>2. ASSUME NEW i \in DOMAIN Lines  PROVE AddsToTotal(Lines[i])
  <2>1. PICK item \in Chosen : LineFor(item, Lines[i])
    BY LinesAreOfTheChosen
  <2> QED BY <1>1, <2>1, AmountsOfTheItem, Zenon
<1> QED BY <1>2

LEMMA SequenceOfLines ==
    ASSUME AnswerIsOfTheDraft
    PROVE  Len(Lines) \in Nat /\ DOMAIN Lines = 1..Len(Lines) /\ IsSequence(Lines)
<1>1. /\ Lines = Kept(LinesAt(Engine, request), Picked(Engine, request))
      /\ IsSequence(LinesAt(Engine, request))
      /\ Picked(Engine, request) \in SUBSET DOMAIN LinesAt(Engine, request)
  BY PickedAreTheChosen, SelectedAreKept DEF Lines
<1> QED BY <1>1, KeptPositions

LEMMA TotalsAreOfTheLines ==
    ASSUME AnswerIsOfTheDraft, order.totals.final.state = "known"
    PROVE  LET tax == OrZero(order.totals.tax.amount)
           IN /\ order.totals.final.amount = order.totals.subtotal.amount + tax
              /\ order.totals.final.amount \in order.totals.listed.amount..MaxMoneyMinor
              /\ order.totals.subtotal.amount >= 0
<1> DEFINE n == Len(Lines)
           totals == ComputeTotals(Lines)
           listed == AmountsOf(Lines, "listed")
           subtotals == AmountsOf(Lines, "subtotal")
           finals == AmountsOf(Lines, "total")
           taxes == [i \in DOMAIN Lines |-> OrZero(Lines[i].tax)]
           taxed == \E i \in DOMAIN Lines : Lines[i].taxState = "known"
           taxKnown == \A i \in DOMAIN Lines : Lines[i].tax # Null \/ Lines[i].taxState = "not_applicable"
           open == IF \E i \in DOMAIN Lines : Lines[i].unknownState = "unsupported"
                   THEN "unsupported" ELSE "unknown"
           total(amounts) == IF AllKnown(amounts) THEN [state |-> "known", amount |-> SumKnown(amounts)]
                             ELSE [state |-> open, amount |-> Null]
<1>1. n \in Nat /\ DOMAIN Lines = 1..n /\ IsFiniteSet(1..n)
  BY SequenceOfLines, FS_Interval
<1>2. \A i \in 1..n : AddsToTotal(Lines[i])
  BY <1>1, AllLinesAddToTotal
<1>3. /\ DOMAIN listed = 1..n /\ DOMAIN subtotals = 1..n /\ DOMAIN finals = 1..n /\ DOMAIN taxes = 1..n
      /\ \A i \in 1..n : /\ listed[i] = Lines[i].listed /\ subtotals[i] = Lines[i].subtotal
                         /\ finals[i] = Lines[i].total /\ taxes[i] = OrZero(Lines[i].tax)
  BY <1>1 DEF AmountsOf
<1>4. /\ totals.listed = total(listed) /\ totals.subtotal = total(subtotals)
      /\ totals.final = total(finals)
      /\ totals.tax = IF ~taxKnown THEN [state |-> open, amount |-> Null]
                      ELSE IF taxed THEN [state |-> "known", amount |-> SumKnown(taxes)]
                      ELSE [state |-> "not_applicable", amount |-> Null]
      /\ {"listed", "subtotal", "final", "tax"} \subseteq DOMAIN totals
  BY DEF ComputeTotals
<1>5. taxKnown
  BY <1>1, <1>2 DEF AddsToTotal
<1>6. ~taxed => \A i \in 1..n : Lines[i].tax = Null
  BY <1>1, <1>2 DEF AddsToTotal
<1>7. order.totals = totals /\ ~OrderOverflows(Engine, Lines)
  BY Zenon DEF AnswerIsOfTheDraft
<1>8. \A field \in DOMAIN totals : ~(totals[field].amount # Null /\ totals[field].amount > MaxMoneyMinor)
  BY <1>7, Zenon DEF OrderOverflows
<1> HIDE DEF n, totals, listed, subtotals, finals, taxes, open, taxKnown, taxed
<1>9. /\ \A i \in 1..n : /\ listed[i] \in Nat /\ subtotals[i] \in Nat /\ finals[i] \in Nat /\ taxes[i] \in Nat
                         /\ finals[i] = subtotals[i] + taxes[i] /\ listed[i] <= finals[i]
      /\ Null \notin Nat
  BY <1>2, <1>3, CalculationAssumption DEF AddsToTotal
<1>10. AllKnown(listed) /\ AllKnown(subtotals) /\ AllKnown(finals)
  BY <1>3, <1>9 DEF AllKnown
<1>11. /\ SumKnown(listed) = Amount(1..n, listed) /\ SumKnown(subtotals) = Amount(1..n, subtotals)
       /\ SumKnown(finals) = Amount(1..n, finals) /\ SumKnown(taxes) = Amount(1..n, taxes)
  BY <1>1, <1>3, <1>9, SumKnownIsAmount
<1> DEFINE S == 1..n
<1>12. IsFiniteSet(S)
  BY <1>1
<1>13. \A i \in S : /\ listed[i] \in Nat /\ subtotals[i] \in Nat /\ finals[i] \in Nat /\ taxes[i] \in Nat
                    /\ finals[i] = subtotals[i] + taxes[i] /\ listed[i] <= finals[i]
  BY <1>9
<1>14. S \in SUBSET S
  OBVIOUS
<1> HIDE DEF S
<1>15. /\ Amount(S, listed) \in Nat /\ Amount(S, subtotals) \in Nat
       /\ Amount(S, finals) \in Nat /\ Amount(S, taxes) \in Nat
  BY <1>12, <1>13, <1>14, AmountIsNatural
<1>16. Amount(S, finals) = Amount(S, subtotals) + Amount(S, taxes)
  BY <1>12, <1>13, AmountAdds
<1>17. Amount(S, listed) <= Amount(S, finals)
  BY <1>12, <1>13, <1>14, AmountGrows
<1>18. OrZero(totals.tax.amount) = Amount(S, taxes)
  <2>1. CASE taxed
    <3>1. totals.tax.amount = Amount(S, taxes)
      BY <1>4, <1>5, <1>11, <2>1 DEF S
    <3> QED BY <1>9, <1>15, <3>1 DEF OrZero
  <2>2. CASE ~taxed
    <3>1. totals.tax.amount = Null
      BY <1>4, <1>5, <2>2
    <3>2. \A i \in S : taxes[i] = 0
      BY <1>3, <1>6, <2>2 DEF OrZero, S
    <3>3. Coins(S, taxes) = {}
      <4> SUFFICES ASSUME NEW p \in Coins(S, taxes)  PROVE FALSE
        OBVIOUS
      <4>1. p[1] \in S /\ p[2] \in 1..taxes[p[1]]
        BY CoinsAre, Zenon
      <4> QED BY <3>2, <4>1
    <3> QED BY <3>1, <3>3, FS_EmptySet DEF OrZero, Amount
  <2> QED BY <2>1, <2>2
<1>19. /\ totals.listed.amount = Amount(S, listed) /\ totals.subtotal.amount = Amount(S, subtotals)
       /\ totals.final.amount = Amount(S, finals)
  BY <1>4, <1>10, <1>11 DEF S
<1>20. totals.final.amount <= MaxMoneyMinor
  BY <1>4, <1>8, <1>9, <1>15, <1>19, CalculationAssumption
<1> QED BY <1>7, <1>15, <1>16, <1>17, <1>18, <1>19, <1>20, CalculationAssumption

\* core.js:960: the tax of every line is the exact one rounded as the rule
\* the draft gives the item says; subtotal and tax make up the final total,
\* every amount is within the bound, and an included tax never exceeds the
\* listed amount.
THEOREM TotalsAreExactHolds == Spec => []TotalsAreExact
<1>1. ASSUME AnswerIsOfTheDraft, NEW item \in Chosen, item.priceState = "known", RuleOf(item).state = "known"
      PROVE  IsTaxOf(item, LineOf(item).tax)
  <2>1. IsTaxOn(LineOf(item).tax, item.price * Asked(item), RuleOf(item))
    BY <1>1, LineOfTheItem, AmountsOfTheItem, Zenon
  <2> QED BY <2>1, Zenon DEF IsTaxOn, IsTaxOf
<1>2. AnswerIsOfTheDraft => TotalsAreExact
  BY <1>1, TotalsAreOfTheLines, Zenon DEF TotalsAreExact
<1>3. SealedIsTheDraft /\ ProjectionIsOfTheDraft /\ OrderIsOfTheRequest => TotalsAreExact
  <2>1. ~Calculated => TotalsAreExact
    BY Zenon DEF TotalsAreExact
  <2> QED BY <1>2, <2>1, WhatIsCalculated
<1> QED BY <1>3, SealedIsTheDraftHolds, ProjectionIsOfTheDraftHolds, OrderIsOfTheRequestHolds, PTL

-----------------------------------------------------------------------------
(* The limits of an order.                                                 *)

\* The lines that count toward a bucket.
Toward(bucket, lines) == {i \in DOMAIN lines : CountsToward(lines[i], bucket)}

LEMMA BucketLinesAreKept ==
    ASSUME NEW lines, IsSequence(lines), NEW bucket
    PROVE  /\ BucketLines(bucket, lines) = Kept(lines, Toward(bucket, lines))
           /\ Toward(bucket, lines) \in SUBSET DOMAIN lines
           /\ ToSet(BucketLines(bucket, lines)) = {lines[i] : i \in Toward(bucket, lines)}
<1> DEFINE I == Toward(bucket, lines)
<1>1. BucketLines(bucket, lines) = Kept(lines, I)
  BY Zenon DEF BucketLines, Filter, Kept, At, Upward, Toward
<1>2. I \in SUBSET DOMAIN lines
  BY DEF Toward
<1> HIDE DEF I
<1>3. /\ KeptAt(I) \in [DOMAIN Kept(lines, I) -> I]
      /\ \A i \in I : \E k \in DOMAIN Kept(lines, I) : KeptAt(I)[k] = i
      /\ \A k \in DOMAIN Kept(lines, I) : Kept(lines, I)[k] = lines[KeptAt(I)[k]]
  BY <1>2, KeptPositions
<1>4. ToSet(Kept(lines, I)) = {lines[i] : i \in I}
  BY <1>3 DEF ToSet
<1> QED BY <1>1, <1>2, <1>4 DEF I

\* Every amount of a sequence is kept.
LEMMA SumOfAllKept ==
    ASSUME NEW s, IsSequence(s), \A i \in DOMAIN s : s[i] \in Nat
    PROVE  SumKnown(Kept(s, DOMAIN s)) = Amount(DOMAIN s, s)
<1> DEFINE D == DOMAIN s
           t == Kept(s, D)
           n == Len(t)
<1>1. /\ n \in Nat /\ DOMAIN t = 1..n
      /\ KeptAt(D) \in [1..n -> D] /\ \A i \in D : \E k \in 1..n : KeptAt(D)[k] = i
      /\ \A j, k \in 1..n : KeptAt(D)[j] = KeptAt(D)[k] => j = k
      /\ \A k \in 1..n : t[k] = s[KeptAt(D)[k]]
  <2>1. D \in SUBSET DOMAIN s
    OBVIOUS
  <2> HIDE DEF D
  <2> QED BY <2>1, KeptPositions
<1>2. \A k \in 1..n : t[k] \in Nat
  BY <1>1
<1>3. IsFiniteSet(1..n)
  BY <1>1, FS_Interval
<1> HIDE DEF D, t, n
<1>4. SumKnown(t) = Amount(1..n, t)
  BY <1>1, <1>2, SumKnownIsAmount
<1> DEFINE S == 1..n
<1>5. /\ IsFiniteSet(S) /\ KeptAt(D) \in [S -> D] /\ \A i \in D : \E k \in S : KeptAt(D)[k] = i
      /\ \A j, k \in S : KeptAt(D)[j] = KeptAt(D)[k] => j = k
      /\ \A k \in S : t[k] \in Nat /\ s[KeptAt(D)[k]] = t[k]
  BY <1>1, <1>2, <1>3
<1> HIDE DEF S
<1>6. Amount(D, s) = Amount(S, t)
  BY <1>5, AmountMoved
<1> QED BY <1>4, <1>6 DEF D, S, t

LEMMA BucketAmountIs ==
    ASSUME NEW lines, IsSequence(lines), NEW bucket,
           \A i \in DOMAIN lines : lines[i].subtotal \in Nat \union {Null},
           BucketAmountState(bucket, lines) = "known"
    PROVE  /\ \A i \in Toward(bucket, lines) : lines[i].subtotal \in Nat
           /\ BucketAmount(bucket, lines) =
                 Amount(Toward(bucket, lines), AmountsOf(lines, "subtotal"))
<1> DEFINE I == Toward(bucket, lines)
           rows == BucketLines(bucket, lines)
           amounts == AmountsOf(rows, "subtotal")
<1>1. rows = Kept(lines, I) /\ I \in SUBSET DOMAIN lines /\ ToSet(rows) = {lines[i] : i \in I}
  BY BucketLinesAreKept
<1>2. \A line \in ToSet(rows) : line.subtotal # Null
  BY DEF BucketAmountState
<1>3. BucketAmount(bucket, lines) = SumKnown(Filter(amounts, LAMBDA amount : amount # Null))
  BY Zenon DEF BucketAmount
<1> HIDE DEF I, rows
<1>4. \A i \in I : lines[i].subtotal \in Nat
  BY <1>1, <1>2
<1>5. /\ IsSequence(amounts) /\ DOMAIN amounts = DOMAIN rows
      /\ \A k \in DOMAIN rows : amounts[k] = AmountsOf(lines, "subtotal")[KeptAt(I)[k]]
      /\ KeptAt(I) \in [DOMAIN rows -> I]
  BY <1>1, AmountsKept, KeptPositions
<1>6. \A i \in I : AmountsOf(lines, "subtotal")[i] \in Nat
  BY <1>1, <1>4 DEF AmountsOf
<1> HIDE DEF amounts
<1>7. \A k \in DOMAIN amounts : amounts[k] \in Nat /\ amounts[k] # Null
  BY <1>5, <1>6, CalculationAssumption
<1>8. {k \in DOMAIN amounts : amounts[k] # Null} = DOMAIN amounts
  BY <1>7
<1>9. Filter(amounts, LAMBDA amount : amount # Null) = Kept(amounts, DOMAIN amounts)
  BY <1>8, Zenon DEF Filter, Kept, At, Upward
<1>10. SumKnown(Kept(amounts, DOMAIN amounts)) = Amount(DOMAIN amounts, amounts)
  BY <1>5, <1>7, SumOfAllKept
<1>11. {k \in DOMAIN rows : KeptAt(I)[k] \in I} = DOMAIN amounts
  BY <1>5
<1>12. Amount({k \in DOMAIN Kept(lines, I) : KeptAt(I)[k] \in I}, AmountsOf(Kept(lines, I), "subtotal"))
         = Amount(I, AmountsOf(lines, "subtotal"))
  BY <1>1, <1>4, AmountOfKept
<1>13. Amount(DOMAIN amounts, amounts) = Amount(I, AmountsOf(lines, "subtotal"))
  BY <1>1, <1>11, <1>12, Zenon DEF amounts
<1> QED BY <1>3, <1>4, <1>9, <1>10, <1>13, Zenon DEF I

\* Sums over lines are sums over the items they are of.
LEMMA AmountByItem ==
    ASSUME AnswerIsOfTheDraft, NEW M \in SUBSET Chosen, NEW K \in SUBSET DOMAIN Lines,
           \A k \in K : \E item \in M : LineFor(item, Lines[k]),
           \A item \in M : \E k \in K : LineFor(item, Lines[k]),
           NEW f, NEW g, \A k \in K : f[k] \in Nat,
           \A k \in K : \A item \in M : LineFor(item, Lines[k]) => g[item] = f[k]
    PROVE  /\ IsFiniteSet(M) /\ Cardinality(M) = Cardinality(K)
           /\ \A item \in M : g[item] \in Nat
           /\ Amount(M, g) = Amount(K, f)
<1> DEFINE m == [k \in K |-> CHOOSE item \in M : LineFor(item, Lines[k])]
<1>1. \A k \in K : m[k] \in M /\ LineFor(m[k], Lines[k])
  OBVIOUS
<1>2. m \in [K -> M]
  BY <1>1
<1>3. \A item, line : LineFor(item, line) => line.item.key = item.key
  BY LineHasItsItem DEF LineFor, EngineItem
<1>4. \A x, y \in Rows(draft.items) : x.key = y.key => x = y
  <2>1. UniqueOn(draft.items, KeyOf)
    BY Zenon DEF AnswerIsOfTheDraft, AcceptedCatalog, RowsAreUnique
  <2>2. \A i, j \in DOMAIN draft.items : draft.items[i].key = draft.items[j].key => i = j
    BY <2>1, Zenon DEF UniqueOn, KeyOf
  <2> QED BY <2>2 DEF Rows, ToSet
<1>5. M \subseteq Rows(draft.items)
  BY DEF Chosen
<1> HIDE DEF m
<1>6. \A item \in M : \A k \in K : LineFor(item, Lines[k]) => m[k] = item
  BY <1>1, <1>3, <1>4, <1>5
<1>7. \A item \in M : \E k \in K : m[k] = item
  BY <1>6
<1>8. \A j, k \in K : m[j] = m[k] => j = k
  BY <1>1, <1>3, LinesAreOfTheChosen
<1>9. IsFiniteSet(K)
  <2>1. IsFiniteSet(DOMAIN Lines)
    BY SequenceOfLines, FS_Interval
  <2> QED BY <2>1, FS_Subset
<1>10. m \in Surjection(K, M) /\ m \in Injection(K, M)
  BY <1>2, <1>7, <1>8 DEF Surjection, Injection, IsInjective
<1>11. IsFiniteSet(M) /\ Cardinality(M) = Cardinality(K)
  BY <1>9, <1>10, FS_Surjection
<1>12. \A k \in K : g[m[k]] = f[k]
  BY <1>1
<1>13. Amount(M, g) = Amount(K, f)
  BY <1>2, <1>7, <1>8, <1>9, <1>12, AmountMoved
<1>14. \A item \in M : g[item] \in Nat
  BY <1>7, <1>12
<1> QED BY <1>11, <1>13, <1>14

LEMMA LineOfIs ==
    ASSUME AnswerIsOfTheDraft, NEW item \in Chosen, NEW k \in DOMAIN Lines, LineFor(item, Lines[k])
    PROVE  LineOf(item) = Lines[k]
<1>1. PICK i \in DOMAIN Lines : LineOf(item) = Lines[i] /\ LineFor(item, Lines[i])
  BY LineOfTheItem
<1>2. \A line : LineFor(item, line) => line.item.key = item.key
  BY LineHasItsItem DEF LineFor, EngineItem
<1> QED BY <1>1, <1>2, LinesAreOfTheChosen

LEMMA CountsTowardIs ==
    ASSUME NEW item \in Chosen, NEW line, LineFor(item, line), NEW bucket
    PROVE  CountsToward(line, BucketRow(bucket)) <=> item \in MembersOf(bucket)
<1>1. PICK row : EngineItem(item, row) /\ line.item = row
  BY LineHasItsItem DEF LineFor
<1>2. /\ IsSequence(row.memberships)
      /\ ToSet(row.memberships) = {MembershipRow(m) : m \in {m \in Rows(draft.memberships) : m.item = item.key}}
  BY <1>1, Zenon DEF EngineItem
<1>3. BucketRow(bucket).key = bucket.key
  BY DEF BucketRow
<1>4. CountsToward(line, BucketRow(bucket)) <=>
        \E shown \in ToSet(row.memberships) : shown.bucket = bucket.key /\ shown.type = "counts_toward"
  BY <1>1, <1>3 DEF CountsToward, ToSet
<1>5. \A m : MembershipRow(m).bucket = m.bucket /\ MembershipRow(m).type = m.type
  BY DEF MembershipRow
<1>6. (\E shown \in ToSet(row.memberships) : shown.bucket = bucket.key /\ shown.type = "counts_toward")
        <=> \E m \in Rows(draft.memberships) :
               m.item = item.key /\ m.bucket = bucket.key /\ m.type = "counts_toward"
  BY <1>2, <1>5
<1> QED BY <1>4, <1>6 DEF MembersOf

LEMMA BucketOfTheDraft ==
    ASSUME AnswerIsOfTheDraft, order.totals.final.state = "known", NEW bucket
    PROVE  /\ BucketAmountState(BucketRow(bucket), Lines) = "known"
           /\ BucketAmount(BucketRow(bucket), Lines) =
                 SumFunction([item \in MembersOf(bucket) |-> PretaxOf(item)])
           /\ BucketAmount(BucketRow(bucket), Lines) \in Nat
<1> DEFINE row == BucketRow(bucket)
           M == MembersOf(bucket)
           K == Toward(row, Lines)
           f == AmountsOf(Lines, "subtotal")
           g == [item \in M |-> PretaxOf(item)]
<1>1. \A i \in DOMAIN Lines : AddsToTotal(Lines[i]) /\ Lines[i].subtotal \in Nat
  BY AllLinesAddToTotal DEF AddsToTotal
<1>2. IsSequence(Lines)
  BY SequenceOfLines
<1>3. /\ K \in SUBSET DOMAIN Lines
      /\ ToSet(BucketLines(row, Lines)) = {Lines[i] : i \in K}
  BY <1>2, BucketLinesAreKept
<1>4. BucketAmountState(row, Lines) = "known"
  <2>1. \A line \in ToSet(BucketLines(row, Lines)) : line.subtotal # Null
    BY <1>1, <1>3, CalculationAssumption
  <2> QED BY <2>1 DEF BucketAmountState
<1>5. BucketAmount(row, Lines) = Amount(K, f)
  BY <1>1, <1>2, <1>4, BucketAmountIs
<1>6. M \in SUBSET Chosen
  BY DEF MembersOf
<1>7. \A k \in DOMAIN Lines : k \in K <=> CountsToward(Lines[k], row)
  BY DEF Toward
<1>8. \A k \in K : f[k] = Lines[k].subtotal /\ f[k] \in Nat
  BY <1>1, <1>3 DEF AmountsOf
<1> HIDE DEF K, M
<1>9. \A k \in K : \E item \in M : LineFor(item, Lines[k])
  BY <1>3, <1>7, LinesAreOfTheChosen, CountsTowardIs DEF M
<1>10. \A item \in M : \E k \in K : LineFor(item, Lines[k])
  BY <1>6, <1>7, LinesAreOfTheChosen, CountsTowardIs DEF M
<1>11. ASSUME NEW k \in K, NEW item \in M, LineFor(item, Lines[k])
       PROVE  g[item] = f[k]
  <2>1. LineOf(item) = Lines[k] /\ item \in Chosen /\ Lines[k].subtotal # Null
    BY <1>1, <1>3, <1>6, <1>11, LineOfIs, CalculationAssumption
  <2>2. /\ Lines[k].subtotal = IF RuleOf(item).state = "known" /\ RuleOf(item).inclusive
                               THEN item.price * Asked(item) - Lines[k].tax
                               ELSE item.price * Asked(item)
    BY <1>11, <2>1, AmountsOfTheItem, Zenon
  <2>3. PretaxOf(item) = Lines[k].subtotal
    BY <2>1, <2>2, Zenon DEF PretaxOf
  <2> QED BY <1>8, <2>3
<1> HIDE DEF f
<1>12. DOMAIN g = M
  OBVIOUS
<1> HIDE DEF g
<1>13. /\ IsFiniteSet(M) /\ IsFiniteSet(K) /\ \A item \in M : g[item] \in Nat
       /\ Amount(M, g) = Amount(K, f)
  <2>1. IsFiniteSet(K)
    <3>1. IsFiniteSet(DOMAIN Lines)
      BY SequenceOfLines, FS_Interval
    <3> QED BY <1>3, <3>1, FS_Subset
  <2>2. \A k \in K : f[k] \in Nat
    BY <1>8
  <2>3. \A k \in K : \A item \in M : LineFor(item, Lines[k]) => g[item] = f[k]
    BY <1>11
  <2> QED BY <1>3, <1>6, <1>9, <1>10, <2>1, <2>2, <2>3, AmountByItem
<1>14. SumFunction(g) = Amount(M, g)
  BY <1>12, <1>13, SumFunctionIsAmount
<1>15. Amount(M, g) \in Nat
  <2>1. M \in SUBSET M
    OBVIOUS
  <2> QED BY <1>13, <2>1, AmountIsNatural
<1>16. BucketAmount(row, Lines) = SumFunction(g) /\ BucketAmount(row, Lines) \in Nat
  BY <1>5, <1>13, <1>14, <1>15
<1> QED BY <1>4, <1>16 DEF g, M

\* The quantities, the number of lines and the final total, by item.
LEMMA TotalOverTheChosen ==
    ASSUME AnswerIsOfTheDraft, NEW f, NEW g, DOMAIN f = DOMAIN Lines, DOMAIN g = Chosen,
           \A k \in DOMAIN Lines : f[k] \in Nat,
           \A k \in DOMAIN Lines : \A item \in Chosen : LineFor(item, Lines[k]) => g[item] = f[k]
    PROVE  /\ SumKnown(f) = SumFunction(g) /\ SumKnown(f) \in Nat
           /\ Len(Lines) = Cardinality(Chosen)
<1> DEFINE K == DOMAIN Lines
           M == Chosen
<1>1. Len(Lines) \in Nat /\ K = 1..Len(Lines)
  BY SequenceOfLines
<1>2. IsFiniteSet(K) /\ Cardinality(K) = Len(Lines)
  <2>1. Cardinality(1..Len(Lines)) = IF 1 > Len(Lines) THEN 0 ELSE Len(Lines) - 1 + 1
    BY <1>1, FS_Interval
  <2>2. IsFiniteSet(1..Len(Lines))
    BY <1>1, FS_Interval
  <2> HIDE DEF K
  <2> QED BY <1>1, <2>1, <2>2
<1>3. /\ M \in SUBSET Chosen /\ K \in SUBSET DOMAIN Lines /\ DOMAIN g = M
      /\ \A k \in K : f[k] \in Nat
      /\ \A k \in K : \A item \in M : LineFor(item, Lines[k]) => g[item] = f[k]
      /\ K \in SUBSET K
  OBVIOUS
<1>4. SumKnown(f) = Amount(1..Len(Lines), f)
  BY <1>1, SumKnownIsAmount
<1>8. /\ \A k \in K : \E item \in M : LineFor(item, Lines[k])
      /\ \A item \in M : \E k \in K : LineFor(item, Lines[k])
  BY LinesAreOfTheChosen, Zenon
<1> HIDE DEF K, M
<1>5. /\ IsFiniteSet(M) /\ Cardinality(M) = Cardinality(K)
      /\ \A item \in M : g[item] \in Nat
      /\ Amount(M, g) = Amount(K, f)
  BY <1>3, <1>8, AmountByItem
<1>6. SumFunction(g) = Amount(M, g)
  BY <1>3, <1>5, SumFunctionIsAmount
<1>7. Amount(K, f) \in Nat
  BY <1>2, <1>3, AmountIsNatural
<1> QED BY <1>1, <1>2, <1>4, <1>5, <1>6, <1>7 DEF M

LEMMA MeasuresOfTheDraft ==
    ASSUME AnswerIsOfTheDraft
    PROVE  /\ TotalQuantity(Lines) = SumFunction([item \in Chosen |-> Asked(item)])
           /\ TotalQuantity(Lines) \in Nat
           /\ Len(Lines) = Cardinality(Chosen) /\ Len(Lines) \in Nat
<1> DEFINE f == AmountsOf(Lines, "quantity")
           g == [item \in Chosen |-> Asked(item)]
<1>1. ASSUME NEW k \in DOMAIN Lines, NEW item \in Chosen, LineFor(item, Lines[k])
      PROVE  Lines[k].quantity = Asked(item) /\ Asked(item) \in Nat
  BY <1>1, AmountsOfTheItem, Zenon
<1>2. DOMAIN f = DOMAIN Lines /\ \A k \in DOMAIN Lines : f[k] = Lines[k].quantity
  BY DEF AmountsOf
<1>3. DOMAIN g = Chosen /\ \A item \in Chosen : g[item] = Asked(item)
  OBVIOUS
<1> HIDE DEF f, g
<1>4. \A k \in DOMAIN Lines : f[k] \in Nat
  BY <1>1, <1>2, LinesAreOfTheChosen
<1>5. \A k \in DOMAIN Lines : \A item \in Chosen : LineFor(item, Lines[k]) => g[item] = f[k]
  BY <1>1, <1>2, <1>3
<1>6. SumKnown(f) = SumFunction(g) /\ SumKnown(f) \in Nat /\ Len(Lines) = Cardinality(Chosen)
  BY <1>2, <1>3, <1>4, <1>5, TotalOverTheChosen
<1>7. TotalQuantity(Lines) = SumKnown(f)
  BY DEF TotalQuantity, f
<1> QED BY <1>6, <1>7, SequenceOfLines DEF g

LEMMA FinalOfTheDraft ==
    ASSUME AnswerIsOfTheDraft, order.totals.final.state = "known"
    PROVE  /\ order.totals.final.amount = SumFunction([item \in Chosen |-> LineOf(item).total])
           /\ order.totals.final.amount \in Nat
<1> DEFINE f == AmountsOf(Lines, "total")
           g == [item \in Chosen |-> LineOf(item).total]
<1>1. \A k \in DOMAIN Lines : \A item \in Chosen : LineFor(item, Lines[k]) => LineOf(item) = Lines[k]
  BY LineOfIs
<1>2. DOMAIN f = DOMAIN Lines /\ \A k \in DOMAIN Lines : f[k] = Lines[k].total
  BY DEF AmountsOf
<1>3. DOMAIN g = Chosen /\ \A item \in Chosen : g[item] = LineOf(item).total
  OBVIOUS
<1>4. \A k \in DOMAIN Lines : f[k] \in Nat
  BY <1>2, AllLinesAddToTotal DEF AddsToTotal
<1>5. order.totals.final.amount = SumKnown(f)
  <2>1. order.totals.final = ComputeTotals(Lines).final
    BY Zenon DEF AnswerIsOfTheDraft
  <2>2. AllKnown(f)
    <3>1. \A k \in DOMAIN f : f[k] # Null
      BY <1>2, <1>4, CalculationAssumption
    <3> QED BY <3>1 DEF AllKnown
  <2>3. AllKnown(f) => ComputeTotals(Lines).final.amount = SumKnown(f)
    BY DEF ComputeTotals
  <2> QED BY <2>1, <2>2, <2>3
<1> HIDE DEF f, g
<1>6. \A k \in DOMAIN Lines : \A item \in Chosen : LineFor(item, Lines[k]) => g[item] = f[k]
  BY <1>1, <1>2, <1>3
<1>7. SumKnown(f) = SumFunction(g) /\ SumKnown(f) \in Nat
  BY <1>2, <1>3, <1>4, <1>6, TotalOverTheChosen
<1> QED BY <1>5, <1>7 DEF g

\* What the compliance of an order says.
LEMMA PassesMeans ==
    ASSUME AnswerIsOfTheDraft
    PROVE  order.verdict.compliance = "passes_known_rules" <=>
              /\ order.verdict.calculation = "complete"
              /\ \A v \in Validations : v.severity # "over_limit"
<1> DEFINE severities == {v.severity : v \in Validations}
           totals == ComputeTotals(Lines)
           warned == OrderWarnings(Engine, Lines)
           uncertain == \/ "warning" \in severities
                        \/ \E w \in warned : w.severity = "warning"
                        \/ totals.final.state # "known"
<1>1. order.verdict = Verdict(severities, warned, totals)
  BY Zenon DEF AnswerIsOfTheDraft
<1>2. /\ Verdict(severities, warned, totals).calculation =
            IF "hard_error" \in severities THEN "invalid" ELSE IF uncertain THEN "incomplete" ELSE "complete"
      /\ Verdict(severities, warned, totals).compliance =
            IF severities \intersect {"hard_error", "over_limit"} # {} THEN "violations"
            ELSE IF uncertain THEN "unknown" ELSE "passes_known_rules"
  <2> HIDE DEF severities, totals, warned
  <2> QED BY DEF Verdict
<1>3. "over_limit" \in severities <=> \E v \in Validations : v.severity = "over_limit"
  OBVIOUS
<1> HIDE DEF severities, uncertain, totals, warned
<1> QED BY <1>1, <1>2, <1>3

LEMMA OverLimitMeans ==
    (\E v \in Validations : v.severity = "over_limit") <=>
        \/ \E i \in DOMAIN Engine.buckets : BucketResult(Engine.buckets[i], Lines) = "over_limit"
        \/ \E i \in DOMAIN Engine.constraints :
              ConstraintResult(Engine.constraints[i], Lines) = "over_limit"
        \/ AvailableFunds(request.funds, ComputeTotals(Lines)).result = "over_limit"
<1>1. \A severity, code, target : Validation(severity, code, target).severity = severity
  BY DEF Validation
<1>2. \A item, quantity : \A v \in LineValidations(item, quantity) : v.severity # "over_limit"
  BY <1>1 DEF LineValidations, AvailabilityValidations, QuantityValidations, PriceValidations
<1>3. \A bucket : (\E v \in BucketValidations(bucket, Lines) : v.severity = "over_limit")
                    <=> BucketResult(bucket, Lines) = "over_limit"
  BY <1>1 DEF BucketValidations
<1>4. \A constraint : (\E v \in ConstraintValidations(constraint, Lines) : v.severity = "over_limit")
                        <=> ConstraintResult(constraint, Lines) = "over_limit"
  BY <1>1 DEF ConstraintValidations
<1> DEFINE funds == AvailableFunds(request.funds, ComputeTotals(Lines))
           ofFunds == IF funds.result = "over_limit"
                      THEN {Validation("over_limit", "funds_exceeded", Null)} ELSE {}
<1>5. (\E v \in ofFunds : v.severity = "over_limit") <=> funds.result = "over_limit"
  <2> HIDE DEF funds
  <2> QED BY <1>1
<1>6. Validations =
        (UNION {LineValidations(Lines[i].item, Lines[i].quantity) : i \in DOMAIN Lines})
          \union (UNION {BucketValidations(Engine.buckets[i], Lines) : i \in DOMAIN Engine.buckets})
          \union (UNION {ConstraintValidations(Engine.constraints[i], Lines) :
                           i \in DOMAIN Engine.constraints})
          \union ofFunds
  BY Zenon DEF Validations, OrderValidations
<1> HIDE DEF ofFunds, funds
<1>7. (\E v \in Validations : v.severity = "over_limit") <=>
        \/ \E i \in DOMAIN Lines : \E v \in LineValidations(Lines[i].item, Lines[i].quantity) :
              v.severity = "over_limit"
        \/ \E i \in DOMAIN Engine.buckets : \E v \in BucketValidations(Engine.buckets[i], Lines) :
              v.severity = "over_limit"
        \/ \E i \in DOMAIN Engine.constraints :
              \E v \in ConstraintValidations(Engine.constraints[i], Lines) : v.severity = "over_limit"
        \/ \E v \in ofFunds : v.severity = "over_limit"
  BY <1>6
<1> QED BY <1>2, <1>3, <1>4, <1>5, <1>7 DEF funds

\* core.js:1604: an order about which nothing is open passes exactly when it
\* keeps every limit of the draft: each bucket over what counts toward it
\* before tax, each constraint over the quantity or the number of lines, and
\* the funds over the final total.  One with something open never passes.
THEOREM PassingKeepsEveryLimitHolds == Spec => []PassingKeepsEveryLimit
<1> DEFINE measured(constraint) ==
              IF constraint.measure = "total_quantity"
              THEN SumFunction([item \in Chosen |-> Asked(item)]) ELSE Cardinality(Chosen)
           bucketKept(bucket) ==
              bucket.limitState = "known" =>
                 SumFunction([item \in MembersOf(bucket) |-> PretaxOf(item)]) <= bucket.limit
           constraintKept(constraint) ==
              constraint.limitState = "known" =>
                 IF constraint.comparator = "at_most"
                 THEN measured(constraint) <= constraint.limit
                 ELSE measured(constraint) >= constraint.limit
           fundsKept ==
              request.funds # Null =>
                 SumFunction([item \in Chosen |-> LineOf(item).total]) <= request.funds
           Complete == AnswerIsOfTheDraft /\ Calculated /\ order.verdict.calculation = "complete"
<1>1. ASSUME Complete, NEW bucket \in Rows(draft.buckets)
      PROVE  bucketKept(bucket) <=> BucketResult(BucketRow(bucket), Lines) # "over_limit"
  <2> DEFINE row == BucketRow(bucket)
             sum == SumFunction([item \in MembersOf(bucket) |-> PretaxOf(item)])
  <2>1. order.totals.final.state = "known"
    BY <1>1, CompleteMeans
  <2>2. /\ BucketAmountState(row, Lines) = "known" /\ BucketAmount(row, Lines) = sum /\ sum \in Nat
    BY <1>1, <2>1, BucketOfTheDraft
  <2>3. row.limitState = bucket.limitState /\ row.limit = bucket.limit
    BY DEF BucketRow
  <2>4. bucket.limitState \in LimitStates /\ (bucket.limitState = "known" => bucket.limit \in Nat)
    <3>1. PICK i \in DOMAIN draft.buckets : bucket = draft.buckets[i]
      BY <1>1 DEF Rows, ToSet
    <3>2. WellFormedCatalog(draft) /\ AcceptedCatalog(draft)
      BY <1>1, Zenon DEF AnswerIsOfTheDraft
    <3>3. draft.buckets[i].limitState \in LimitStates
      BY <3>2 DEF WellFormedCatalog
    <3>4. AcceptedCatalogBucket(draft.buckets[i])
      BY <3>2 DEF AcceptedCatalog, AcceptedRows
    <3>5. draft.buckets[i].limitState = "known" => draft.buckets[i].limit \in Nat
      BY <3>4, CalculationAssumption DEF AcceptedCatalogBucket, KnownAmount
    <3> QED BY <3>1, <3>3, <3>5
  <2>5. BucketResult(row, Lines) = "over_limit" <=>
           bucket.limitState = "known" /\ ~(sum <= bucket.limit)
    <3> HIDE DEF row, sum
    <3> QED BY <2>2, <2>3, <2>4 DEF BucketResult, LimitStates
  <2> QED BY <2>5
<1>2. ASSUME Complete, NEW constraint \in Rows(draft.constraints)
      PROVE  constraintKept(constraint)
                <=> ConstraintResult(ConstraintRow(constraint), Lines) # "over_limit"
  <2> DEFINE row == ConstraintRow(constraint)
  <2>1. /\ row.limitState = constraint.limitState /\ row.limit = constraint.limit
        /\ row.measure = constraint.measure /\ row.comparator = constraint.comparator
    BY DEF ConstraintRow
  <2>2. constraint.limitState \in LimitStates
    <3>1. WellFormedCatalog(draft)
      BY <1>2, Zenon DEF AnswerIsOfTheDraft
    <3> QED BY <1>2, <3>1 DEF WellFormedCatalog, Rows, ToSet
  <2>3. MeasuredValue(row, Lines) = measured(constraint)
    BY <1>2, <2>1, MeasuresOfTheDraft, Zenon DEF MeasuredValue
  <2> HIDE DEF row, measured
  <2>4. ConstraintResult(row, Lines) = "over_limit" <=>
           constraint.limitState = "known" /\ ~ConstraintPasses(row, Lines)
    BY <2>1, <2>2 DEF ConstraintResult, LimitStates
  <2>5. ConstraintPasses(row, Lines) <=>
           IF constraint.comparator = "at_most"
           THEN measured(constraint) <= constraint.limit ELSE measured(constraint) >= constraint.limit
    BY <2>1, <2>3 DEF ConstraintPasses
  <2> QED BY <2>4, <2>5 DEF row
<1>3. ASSUME Complete
      PROVE  fundsKept <=> AvailableFunds(request.funds, ComputeTotals(Lines)).result # "over_limit"
  <2> DEFINE totals == ComputeTotals(Lines)
             sum == SumFunction([item \in Chosen |-> LineOf(item).total])
  <2>1. order.totals.final.state = "known" /\ order.totals = totals
    BY <1>3, CompleteMeans, Zenon DEF AnswerIsOfTheDraft
  <2>2. order.totals.final.amount = sum /\ sum \in Nat
    BY <1>3, <2>1, FinalOfTheDraft
  <2>3. request.funds # Null => request.funds \in Nat
    <3>1. AcceptedRequest(Engine, request)
      BY <1>3, Zenon DEF AnswerIsOfTheDraft
    <3> QED BY <3>1, CalculationAssumption DEF AcceptedRequest
  <2> HIDE DEF totals, sum
  <2>4. AvailableFunds(request.funds, totals).result = "over_limit" <=>
           request.funds # Null /\ request.funds < sum
    BY <2>1, <2>2 DEF AvailableFunds
  <2>5. (request.funds # Null => sum <= request.funds)
           <=> ~(request.funds # Null /\ request.funds < sum)
    BY <2>2, <2>3
  <2> QED BY <2>4, <2>5 DEF totals, sum
<1>4. ASSUME Complete
      PROVE  (\A v \in Validations : v.severity # "over_limit") <=>
                /\ \A bucket \in Rows(draft.buckets) : bucketKept(bucket)
                /\ \A constraint \in Rows(draft.constraints) : constraintKept(constraint)
                /\ fundsKept
  <2>1. /\ ToSet(Engine.buckets) = {BucketRow(bucket) : bucket \in Rows(draft.buckets)}
        /\ ToSet(Engine.constraints) = {ConstraintRow(constraint) : constraint \in Rows(draft.constraints)}
    BY <1>4, Zenon DEF AnswerIsOfTheDraft, EngineHasTheDraft
  <2> HIDE DEF measured, bucketKept, constraintKept, fundsKept
  <2>2. (\A i \in DOMAIN Engine.buckets : BucketResult(Engine.buckets[i], Lines) # "over_limit")
          <=> \A bucket \in Rows(draft.buckets) : bucketKept(bucket)
    <3>1. (\A i \in DOMAIN Engine.buckets : BucketResult(Engine.buckets[i], Lines) # "over_limit")
            <=> \A row \in ToSet(Engine.buckets) : BucketResult(row, Lines) # "over_limit"
      BY DEF ToSet
    <3>2. (\A row \in ToSet(Engine.buckets) : BucketResult(row, Lines) # "over_limit")
            <=> \A bucket \in Rows(draft.buckets) : BucketResult(BucketRow(bucket), Lines) # "over_limit"
      BY <2>1
    <3> QED BY <1>1, <1>4, <3>1, <3>2
  <2>3. (\A i \in DOMAIN Engine.constraints :
            ConstraintResult(Engine.constraints[i], Lines) # "over_limit")
          <=> \A constraint \in Rows(draft.constraints) : constraintKept(constraint)
    <3>1. (\A i \in DOMAIN Engine.constraints :
              ConstraintResult(Engine.constraints[i], Lines) # "over_limit")
            <=> \A row \in ToSet(Engine.constraints) : ConstraintResult(row, Lines) # "over_limit"
      BY DEF ToSet
    <3>2. (\A row \in ToSet(Engine.constraints) : ConstraintResult(row, Lines) # "over_limit")
            <=> \A constraint \in Rows(draft.constraints) :
                   ConstraintResult(ConstraintRow(constraint), Lines) # "over_limit"
      BY <2>1
    <3> QED BY <1>2, <1>4, <3>1, <3>2
  <2> QED BY <1>3, <1>4, <2>2, <2>3, OverLimitMeans
<1>5. AnswerIsOfTheDraft => PassingKeepsEveryLimit
  <2> SUFFICES ASSUME AnswerIsOfTheDraft, Calculated
               PROVE  order.verdict.compliance = "passes_known_rules" <=>
                         /\ order.verdict.calculation = "complete"
                         /\ \A bucket \in Rows(draft.buckets) : bucketKept(bucket)
                         /\ \A constraint \in Rows(draft.constraints) : constraintKept(constraint)
                         /\ fundsKept
    BY Zenon DEF PassingKeepsEveryLimit
  <2> HIDE DEF bucketKept, constraintKept, fundsKept
  <2> QED BY <1>4, PassesMeans
<1>6. SealedIsTheDraft /\ ProjectionIsOfTheDraft /\ OrderIsOfTheRequest => PassingKeepsEveryLimit
  <2>1. ~Calculated => PassingKeepsEveryLimit
    BY Zenon DEF PassingKeepsEveryLimit
  <2> QED BY <1>5, <2>1, WhatIsCalculated
<1> QED BY <1>6, SealedIsTheDraftHolds, ProjectionIsOfTheDraftHolds, OrderIsOfTheRequestHolds, PTL

-----------------------------------------------------------------------------
(* One more of an item.                                                    *)

\* What is rounded off does not grow faster than the whole.
LEMMA RoundedGrowsNoFaster ==
    ASSUME NEW d \in Nat, d > 0, NEW mode \in {"half_up", "floor", "ceiling"},
           NEW n \in Nat, NEW m \in Nat, IsRounded(m, n, d, mode),
           NEW nn \in Nat, NEW mm \in Nat, IsRounded(mm, nn, d, mode),
           NEW j \in Nat, nn <= n + j * d
    PROVE  mm <= m + j
<1> SUFFICES ASSUME mm >= m + j + 1  PROVE FALSE
  OBVIOUS
<1>1. PICK x \in Nat : x = m * d
  OBVIOUS
<1>2. PICK y \in Nat : y = j * d
  OBVIOUS
<1>3. PICK k \in Nat : mm = m + j + 1 + k
  <2>1. mm - (m + j + 1) \in Nat /\ mm = m + j + 1 + (mm - (m + j + 1))
    OBVIOUS
  <2> QED BY <2>1
<1>4. PICK z \in Nat : z = k * d
  OBVIOUS
<1>5. mm * d = x + y + d + z
  BY <1>1, <1>2, <1>3, <1>4
<1>6. CASE mode = "floor"
  <2>1. n < (m + 1) * d /\ mm * d <= nn
    BY <1>6 DEF IsRounded
  <2>2. (m + 1) * d = x + d
    BY <1>1
  <2> QED BY <1>2, <1>5, <2>1, <2>2
<1>7. CASE mode = "ceiling"
  <2>1. m * d >= n /\ nn > (mm - 1) * d
    BY <1>7 DEF IsRounded
  <2>2. (mm - 1) * d = x + y + z
    BY <1>1, <1>2, <1>3, <1>4
  <2> QED BY <1>1, <1>2, <2>1, <2>2
<1>8. CASE mode = "half_up"
  <2>1. 2 * n < (2 * m + 1) * d /\ 2 * mm * d <= 2 * nn + d
    BY <1>8 DEF IsRounded
  <2>2. (2 * m + 1) * d = 2 * x + d
    BY <1>1
  <2>3. 2 * mm * d = 2 * x + 2 * y + 2 * d + 2 * z
    BY <1>1, <1>2, <1>3, <1>4
  <2> QED BY <1>2, <2>1, <2>2, <2>3
<1> QED BY <1>6, <1>7, <1>8

LEMMA SubtotalGrows ==
    ASSUME NEW row, AcceptedItem(row), NEW few \in Nat, NEW more \in Nat, few <= more,
           ComputeLine(row, few).subtotal # Null, ComputeLine(row, more).subtotal # Null
    PROVE  ComputeLine(row, few).subtotal <= ComputeLine(row, more).subtotal
<1> DEFINE a == ComputeLine(row, few)
           b == ComputeLine(row, more)
           included == row.tax.state = "known" /\ row.tax.inclusive
<1>1. /\ row.priceState = "known" /\ row.price \in Nat
      /\ a.subtotal = IF included THEN row.price * few - a.tax ELSE row.price * few
      /\ b.subtotal = IF included THEN row.price * more - b.tax ELSE row.price * more
      /\ included =>
            /\ a.tax \in Nat /\ IsTaxOn(a.tax, row.price * few, row.tax)
            /\ b.tax \in Nat /\ IsTaxOn(b.tax, row.price * more, row.tax)
  BY LineAmounts, Zenon
<1> HIDE DEF a, b
<1>2. PICK extra \in Nat : more = few + extra
  <2>1. more - few \in Nat /\ more = few + (more - few)
    OBVIOUS
  <2> QED BY <2>1
<1>3. PICK u \in Nat : u = row.price * few
  BY <1>1
<1>4. PICK v \in Nat : v = row.price * extra
  BY <1>1, <1>2
<1>5. row.price * more = u + v
  BY <1>1, <1>2, <1>3, <1>4
<1>6. CASE included
  <2> DEFINE rate == row.tax.rate
             d == PpmDenominator + rate
  <2>1. /\ rate \in Nat /\ row.tax.rounding \in {"half_up", "floor", "ceiling"}
        /\ row.tax.inclusive = TRUE
    <3>1. AcceptedTax(row.tax) /\ row.tax.state = "known" /\ row.tax.inclusive
      BY <1>6, Zenon DEF AcceptedItem
    <3>2. rate \in Nat /\ row.tax.rounding \in {"half_up", "floor", "ceiling"}
      BY <3>1, CalculationAssumption DEF AcceptedTax
    <3>3. row.tax.inclusive \in BOOLEAN
      BY <3>1, Zenon DEF AcceptedTax
    <3>4. row.tax.inclusive = TRUE
      BY <3>1, <3>3, Zenon
    <3> QED BY <3>2, <3>4
  <2>2. d \in Nat /\ d > 0
    BY <2>1, CalculationAssumption
  <2>3. (IF row.tax.inclusive THEN PpmDenominator + row.tax.rate ELSE PpmDenominator) = d
    BY <2>1, Zenon
  <2>4. /\ IsRounded(a.tax, u * rate, d, row.tax.rounding)
        /\ IsRounded(b.tax, (u + v) * rate, d, row.tax.rounding)
    BY <1>1, <1>3, <1>5, <1>6, <2>3, Zenon DEF IsTaxOn
  <2>5. u * rate \in Nat /\ (u + v) * rate \in Nat /\ (u + v) * rate <= u * rate + v * d
    <3>1. PICK p \in Nat : p = u * rate
      BY <2>1
    <3>2. PICK q \in Nat : q = v * rate
      BY <2>1
    <3>3. PICK s \in Nat : s = v * PpmDenominator
      BY CalculationAssumption
    <3>4. (u + v) * rate = p + q /\ v * d = s + q
      BY <2>1, <3>1, <3>2, <3>3, CalculationAssumption
    <3> QED BY <3>1, <3>4
  <2>6. a.tax \in Nat /\ b.tax \in Nat
    BY <1>1, <1>6
  <2> HIDE DEF rate, d
  <2>7. b.tax <= a.tax + v
    <3> DEFINE before == u * rate
               after == (u + v) * rate
               mode == row.tax.rounding
    <3>1. /\ before \in Nat /\ after \in Nat /\ after <= before + v * d
          /\ IsRounded(a.tax, before, d, mode) /\ IsRounded(b.tax, after, d, mode)
          /\ mode \in {"half_up", "floor", "ceiling"}
      BY <2>1, <2>4, <2>5
    <3> HIDE DEF before, after, mode
    <3> QED BY <2>2, <2>6, <3>1, RoundedGrowsNoFaster
  <2>8. a.subtotal = u - a.tax /\ b.subtotal = (u + v) - b.tax
    BY <1>1, <1>3, <1>5, <1>6
  <2>9. a.subtotal <= b.subtotal
    BY <2>6, <2>7, <2>8
  <2> QED BY <2>9 DEF a, b
<1>7. CASE ~included
  <2>1. a.subtotal = u /\ b.subtotal = u + v
    BY <1>1, <1>3, <1>5, <1>7
  <2>2. a.subtotal <= b.subtotal
    BY <2>1
  <2> QED BY <2>2 DEF a, b
<1> QED BY <1>6, <1>7

\* What an item contributes to a bucket, by the positions of the items.
Contributing(conf, req, bucket) ==
    {i \in Picked(conf, req) : CountsToward(LinesAt(conf, req)[i], bucket)}

LEMMA QuantityIsNatural ==
    ASSUME NEW conf, NEW req, AcceptedRequest(conf, req), NEW row
    PROVE  /\ QuantityOf(req, row) \in Nat
           /\ \A i \in DOMAIN req.quantities : req.quantities[i].item = row.key =>
                 QuantityOf(req, row) = req.quantities[i].quantity
           /\ (\A i \in DOMAIN req.quantities : req.quantities[i].item # row.key) =>
                 QuantityOf(req, row) = 0
<1> DEFINE S == {i \in DOMAIN req.quantities : req.quantities[i].item = row.key}
<1>1. UniqueOn(req.quantities, LAMBDA entry : entry.item)
  BY Zenon DEF AcceptedRequest
<1>2. \A i, j \in DOMAIN req.quantities : req.quantities[i].item = req.quantities[j].item => i = j
  BY <1>1, Zenon DEF UniqueOn
<1>3. \A i \in DOMAIN req.quantities : req.quantities[i].quantity \in Nat
  BY CalculationAssumption DEF AcceptedRequest
<1>4. QuantityOf(req, row) = IF S = {} THEN 0 ELSE req.quantities[CHOOSE i \in S : TRUE].quantity
  BY Zenon DEF QuantityOf
<1>5. ASSUME NEW i \in DOMAIN req.quantities, req.quantities[i].item = row.key
      PROVE  QuantityOf(req, row) = req.quantities[i].quantity
  <2>1. S = {i}
    BY <1>2, <1>5
  <2> HIDE DEF S
  <2> QED BY <1>4, <2>1
<1>6. (\A i \in DOMAIN req.quantities : req.quantities[i].item # row.key) => QuantityOf(req, row) = 0
  BY <1>4
<1>7. QuantityOf(req, row) \in Nat
  BY <1>3, <1>5, <1>6
<1> QED BY <1>5, <1>6, <1>7

LEMMA BucketAmountByItem ==
    ASSUME NEW conf, IsSequence(conf.items), AcceptedConfiguration(conf),
           NEW req, AcceptedRequest(conf, req), NEW bucket,
           BucketAmountState(bucket, SelectedLines(conf, req)) = "known"
    PROVE  LET lines == LinesAt(conf, req)
               counted == Contributing(conf, req, bucket)
           IN /\ \A i \in counted : lines[i].subtotal \in Nat
              /\ BucketAmount(bucket, SelectedLines(conf, req)) = Amount(counted, AmountsOf(lines, "subtotal"))
<1> DEFINE lines == LinesAt(conf, req)
           picked == Picked(conf, req)
           counted == Contributing(conf, req, bucket)
           selected == SelectedLines(conf, req)
<1>1. /\ IsSequence(lines) /\ DOMAIN lines = DOMAIN conf.items
      /\ selected = Kept(lines, picked)
  BY SelectedAreKept
<1>2. picked \in SUBSET DOMAIN lines /\ counted \in SUBSET picked
  BY <1>1 DEF Picked, Contributing
<1>3. \A i \in DOMAIN lines : lines[i].subtotal \in Nat \union {Null}
  <2> SUFFICES ASSUME NEW i \in DOMAIN lines  PROVE lines[i].subtotal \in Nat \union {Null}
    OBVIOUS
  <2>1. AcceptedItem(conf.items[i])
    BY <1>1, Zenon DEF AcceptedConfiguration
  <2>2. QuantityOf(req, conf.items[i]) \in Nat
    BY QuantityIsNatural
  <2>3. lines[i] = ComputeLine(conf.items[i], QuantityOf(req, conf.items[i]))
    BY <1>1 DEF LinesAt
  <2>4. lines[i].subtotal # Null => AddsToTotal(lines[i])
    BY <2>1, <2>2, <2>3, LineAmounts, Zenon
  <2> HIDE DEF lines
  <2> QED BY <2>4 DEF AddsToTotal
<1>4. \A i \in picked : i \in counted <=> CountsToward(lines[i], bucket)
  BY DEF Contributing
<1> HIDE DEF lines, picked, counted, selected
<1>5. /\ KeptAt(picked) \in [DOMAIN selected -> picked]
      /\ \A i \in picked : \E k \in DOMAIN selected : KeptAt(picked)[k] = i
      /\ \A k \in DOMAIN selected : selected[k] = lines[KeptAt(picked)[k]]
      /\ IsSequence(selected)
  BY <1>1, <1>2, KeptPositions
<1>6. \A k \in DOMAIN selected : selected[k].subtotal \in Nat \union {Null}
  BY <1>2, <1>3, <1>5
<1>7. /\ \A k \in Toward(bucket, selected) : selected[k].subtotal \in Nat
      /\ BucketAmount(bucket, selected) = Amount(Toward(bucket, selected), AmountsOf(selected, "subtotal"))
  BY <1>5, <1>6, BucketAmountIs DEF selected
<1>8. Toward(bucket, selected) = {k \in DOMAIN selected : KeptAt(picked)[k] \in counted}
  BY <1>4, <1>5 DEF Toward
<1>9. \A i \in counted : lines[i].subtotal \in Nat
  BY <1>2, <1>5, <1>7, <1>8
<1>10. Amount({k \in DOMAIN Kept(lines, picked) : KeptAt(picked)[k] \in counted},
              AmountsOf(Kept(lines, picked), "subtotal"))
         = Amount(counted, AmountsOf(lines, "subtotal"))
  BY <1>1, <1>2, <1>9, AmountOfKept
<1>11. BucketAmount(bucket, selected) = Amount(counted, AmountsOf(lines, "subtotal"))
  BY <1>1, <1>7, <1>8, <1>10
<1> QED BY <1>9, <1>11 DEF lines, counted, selected

\* What was asked for is asked for again, at least as often.
AsksAtLeast(old, new) ==
    \A i \in DOMAIN old.quantities : \E j \in DOMAIN new.quantities :
        /\ new.quantities[j].item = old.quantities[i].item
        /\ old.quantities[i].quantity <= new.quantities[j].quantity

LEMMA BucketAmountGrows ==
    ASSUME NEW conf, IsSequence(conf.items), AcceptedConfiguration(conf),
           NEW old, AcceptedRequest(conf, old), NEW new, AcceptedRequest(conf, new),
           AsksAtLeast(old, new), NEW bucket,
           BucketAmountState(bucket, SelectedLines(conf, old)) = "known",
           BucketAmountState(bucket, SelectedLines(conf, new)) = "known"
    PROVE  /\ BucketAmount(bucket, SelectedLines(conf, old)) \in Nat
           /\ BucketAmount(bucket, SelectedLines(conf, new)) \in Nat
           /\ BucketAmount(bucket, SelectedLines(conf, old))
                 <= BucketAmount(bucket, SelectedLines(conf, new))
<1> DEFINE S == Contributing(conf, old, bucket)
           T == Contributing(conf, new, bucket)
           before == LinesAt(conf, old)
           after == LinesAt(conf, new)
           f == AmountsOf(before, "subtotal")
           g == AmountsOf(after, "subtotal")
<1>1. /\ \A i \in S : before[i].subtotal \in Nat
      /\ BucketAmount(bucket, SelectedLines(conf, old)) = Amount(S, f)
      /\ \A i \in T : after[i].subtotal \in Nat
      /\ BucketAmount(bucket, SelectedLines(conf, new)) = Amount(T, g)
  BY BucketAmountByItem
<1>2. \A row : /\ QuantityOf(old, row) \in Nat /\ QuantityOf(new, row) \in Nat
               /\ QuantityOf(old, row) <= QuantityOf(new, row)
  <2> SUFFICES ASSUME NEW row
               PROVE  /\ QuantityOf(old, row) \in Nat /\ QuantityOf(new, row) \in Nat
                      /\ QuantityOf(old, row) <= QuantityOf(new, row)
    OBVIOUS
  <2>1. QuantityOf(old, row) \in Nat /\ QuantityOf(new, row) \in Nat
    BY QuantityIsNatural
  <2>2. CASE \A i \in DOMAIN old.quantities : old.quantities[i].item # row.key
    BY <2>1, <2>2, QuantityIsNatural
  <2>3. ASSUME NEW i \in DOMAIN old.quantities, old.quantities[i].item = row.key
        PROVE  QuantityOf(old, row) <= QuantityOf(new, row)
    <3>1. PICK j \in DOMAIN new.quantities :
             /\ new.quantities[j].item = old.quantities[i].item
             /\ old.quantities[i].quantity <= new.quantities[j].quantity
      BY DEF AsksAtLeast
    <3>2. QuantityOf(old, row) = old.quantities[i].quantity
      BY <2>3, QuantityIsNatural
    <3>3. QuantityOf(new, row) = new.quantities[j].quantity
      BY <2>3, <3>1, QuantityIsNatural
    <3> QED BY <3>1, <3>2, <3>3
  <2> QED BY <2>1, <2>2, <2>3
<1>3. /\ DOMAIN before = DOMAIN conf.items /\ DOMAIN after = DOMAIN conf.items
      /\ \A i \in DOMAIN conf.items :
            /\ before[i] = ComputeLine(conf.items[i], QuantityOf(old, conf.items[i]))
            /\ after[i] = ComputeLine(conf.items[i], QuantityOf(new, conf.items[i]))
            /\ before[i].item = conf.items[i] /\ after[i].item = conf.items[i]
  BY LineHasItsItem DEF LinesAt
<1>4. \A i \in S : i \in DOMAIN conf.items /\ i \in T
  <2> SUFFICES ASSUME NEW i \in S  PROVE i \in DOMAIN conf.items /\ i \in T
    OBVIOUS
  <2>1. /\ i \in DOMAIN conf.items /\ QuantityOf(old, conf.items[i]) # 0
        /\ CountsToward(before[i], bucket)
    BY DEF Contributing, Picked
  <2>2. QuantityOf(new, conf.items[i]) # 0
    BY <1>2, <2>1
  <2>3. CountsToward(after[i], bucket)
    BY <1>3, <2>1 DEF CountsToward
  <2> QED BY <2>1, <2>2, <2>3 DEF Contributing, Picked
<1>5. \A i \in T : i \in DOMAIN conf.items
  BY DEF Contributing, Picked
<1>6. \A i \in DOMAIN conf.items : f[i] = before[i].subtotal /\ g[i] = after[i].subtotal
  BY <1>3 DEF AmountsOf
<1> HIDE DEF S, T, before, after, f, g
<1>7. \A i \in T : g[i] \in Nat
  BY <1>1, <1>5, <1>6
<1>8. \A i \in S : f[i] \in Nat /\ f[i] <= g[i]
  <2> SUFFICES ASSUME NEW i \in S  PROVE f[i] \in Nat /\ f[i] <= g[i]
    OBVIOUS
  <2> DEFINE row == conf.items[i]
             few == QuantityOf(old, row)
             more == QuantityOf(new, row)
  <2>1. i \in DOMAIN conf.items /\ i \in T
    BY <1>4
  <2>2. AcceptedItem(row)
    BY <2>1, Zenon DEF AcceptedConfiguration
  <2>3. few \in Nat /\ more \in Nat /\ few <= more
    BY <1>2
  <2>4. before[i] = ComputeLine(row, few) /\ after[i] = ComputeLine(row, more)
    BY <1>3, <2>1
  <2>5. ComputeLine(row, few).subtotal # Null /\ ComputeLine(row, more).subtotal # Null
    BY <1>1, <2>1, <2>4, CalculationAssumption
  <2>6. f[i] \in Nat /\ f[i] = ComputeLine(row, few).subtotal /\ g[i] = ComputeLine(row, more).subtotal
    BY <1>1, <1>6, <2>1, <2>4
  <2> HIDE DEF row, few, more
  <2>7. ComputeLine(row, few).subtotal <= ComputeLine(row, more).subtotal
    BY <2>2, <2>3, <2>5, SubtotalGrows
  <2> QED BY <2>6, <2>7
<1>9. IsFiniteSet(S) /\ IsFiniteSet(T) /\ S \in SUBSET T
  <2>1. IsFiniteSet(DOMAIN conf.items)
    BY FiniteRows
  <2>2. S \subseteq DOMAIN conf.items /\ T \subseteq DOMAIN conf.items /\ S \in SUBSET T
    BY <1>4, <1>5
  <2> QED BY <2>1, <2>2, FS_Subset
<1>10. Amount(S, f) <= Amount(T, g)
  BY <1>7, <1>8, <1>9, AmountGrows
<1>11. Amount(S, f) \in Nat /\ Amount(T, g) \in Nat
  <2>1. S \in SUBSET S /\ T \in SUBSET T
    OBVIOUS
  <2>2. Amount(S, f) \in Nat
    BY <1>8, <1>9, <2>1, AmountIsNatural
  <2>3. Amount(T, g) \in Nat
    BY <1>7, <1>9, <2>1, AmountIsNatural
  <2> QED BY <2>2, <2>3
<1> QED BY <1>1, <1>10, <1>11

\* What a visitor asks for is a list of items and quantities.
AskedAsAList ==
    request # Null =>
        /\ "quantities" \in DOMAIN request
        /\ IsSequence(request.quantities)
        /\ \A i \in DOMAIN request.quantities : request.quantities[i].quantity \in Nat

LEMMA OneMoreIsAsked ==
    ASSUME AskedAsAList, NEW item, AddOne(item)
    PROVE  AskedAsAList' /\ AsksAtLeast(request, request')
<1> DEFINE old == request.quantities
           asked == {i \in DOMAIN old : old[i].item = item}
           raised == [i \in DOMAIN old |->
                        [item |-> old[i].item,
                         quantity |-> old[i].quantity + (IF i \in asked THEN 1 ELSE 0)]]
           new == IF asked = {} THEN <<[item |-> item, quantity |-> 1]>> \o old ELSE raised
<1>1. /\ request # Null /\ "quantities" \in DOMAIN request /\ IsSequence(old)
      /\ \A i \in DOMAIN old : old[i].quantity \in Nat
  BY DEF AddOne, AskedAsAList
<1>2. request' = [request EXCEPT !.quantities = new]
  BY Zenon DEF AddOne, Answer
<1>3. Len(old) \in Nat /\ DOMAIN old = 1..Len(old)
  BY <1>1, SequenceShape
<1>4. /\ IsSequence(new)
      /\ \A j \in DOMAIN new : new[j].quantity \in Nat
      /\ \A i \in DOMAIN old : \E j \in DOMAIN new :
            new[j].item = old[i].item /\ old[i].quantity <= new[j].quantity
  <2>1. CASE asked = {}
    <3> DEFINE one == [item |-> item, quantity |-> 1]
    <3>1. new = <<one>> \o old
      BY <2>1
    <3>2. one.quantity = 1
      OBVIOUS
    <3> HIDE DEF new, one
    <3>3. old \in Seq(ToSet(old)) /\ <<one>> \in Seq({one})
      BY <1>1 DEF IsSequence
    <3>4. new \in Seq(ToSet(old) \union {one})
      BY <3>1, <3>3
    <3>5. /\ DOMAIN new = 1..(Len(old) + 1) /\ new[1] = one
          /\ \A i \in 1..Len(old) : new[i + 1] = old[i]
      BY <1>3, <3>1, <3>3
    <3>6. IsSequence(new)
      BY <3>4 DEF IsSequence, ToSet
    <3>7. \A j \in DOMAIN new : new[j].quantity \in Nat
      <4> SUFFICES ASSUME NEW j \in DOMAIN new  PROVE new[j].quantity \in Nat
        OBVIOUS
      <4>1. CASE j = 1
        BY <3>2, <3>5, <4>1
      <4>2. CASE j # 1
        <5>1. j - 1 \in 1..Len(old) /\ j = (j - 1) + 1
          BY <1>3, <3>5, <4>2
        <5>2. new[j] = old[j - 1]
          BY <3>5, <5>1
        <5> QED BY <1>1, <1>3, <5>1, <5>2
      <4> QED BY <4>1, <4>2
    <3>8. \A i \in DOMAIN old : \E j \in DOMAIN new :
             new[j].item = old[i].item /\ old[i].quantity <= new[j].quantity
      <4> SUFFICES ASSUME NEW i \in DOMAIN old
                   PROVE  \E j \in DOMAIN new :
                             new[j].item = old[i].item /\ old[i].quantity <= new[j].quantity
        OBVIOUS
      <4>1. i + 1 \in DOMAIN new /\ new[i + 1] = old[i] /\ old[i].quantity <= old[i].quantity
        BY <1>1, <1>3, <3>5
      <4> QED BY <4>1
    <3> QED BY <3>6, <3>7, <3>8
  <2>2. CASE asked # {}
    <3>1. new = raised
      BY <2>2
    <3>2. DOMAIN raised = DOMAIN old /\ raised = [i \in DOMAIN old |-> raised[i]]
      OBVIOUS
    <3>3. \A i \in DOMAIN old : /\ raised[i].item = old[i].item /\ raised[i].quantity \in Nat
                                /\ old[i].quantity <= raised[i].quantity
      BY <1>1
    <3> HIDE DEF raised, new
    <3>4. IsSequence(raised)
      BY <1>1, <3>2, MappedIsSequence
    <3> QED BY <3>1, <3>2, <3>3, <3>4
  <2> QED BY <2>1, <2>2
<1> HIDE DEF new
<1>5. request'.quantities = new /\ "quantities" \in DOMAIN request'
  BY <1>1, <1>2
<1>6. AskedAsAList'
  BY <1>4, <1>5 DEF AskedAsAList
<1>7. AsksAtLeast(request, request')
  BY <1>4, <1>5 DEF AsksAtLeast
<1> QED BY <1>6, <1>7

THEOREM AskedAsAListHolds == Spec => []AskedAsAList
<1>1. Init => AskedAsAList
  BY DEF Init, AskedAsAList
<1>2. AskedAsAList /\ [Next]_vars => AskedAsAList'
  <2> SUFFICES ASSUME AskedAsAList, [Next]_vars
               PROVE  AskedAsAList'
    OBVIOUS
  <2>1. CASE SealDraft
    BY <2>1 DEF SealDraft, AskedAsAList
  <2>2. CASE Project
    BY <2>2 DEF Project, AskedAsAList
  <2>3. ASSUME NEW funds \in Funds, OpenOrder(funds)  PROVE AskedAsAList'
    <3>1. request' = [quantities |-> <<>>, funds |-> funds, capabilities |-> EngineCapabilities]
      BY <2>3, Zenon DEF OpenOrder, Answer
    <3>2. request'.quantities = <<>> /\ "quantities" \in DOMAIN request'
      BY <3>1
    <3>3. IsSequence(<<>>)
      BY DEF IsSequence
    <3> QED BY <3>2, <3>3 DEF AskedAsAList
  <2>4. ASSUME NEW item \in KeysOf(draft.items), AddOne(item)  PROVE AskedAsAList'
    BY <2>4, OneMoreIsAsked
  <2>5. CASE UNCHANGED vars
    BY <2>5 DEF vars, AskedAsAList
  <2> QED BY <2>1, <2>2, <2>3, <2>4, <2>5 DEF Next
<1> QED BY <1>1, <1>2, PTL DEF Spec

\* What a calculation with a canonical configuration answers.
LEMMA CalculationMeans ==
    ASSUME NEW sealed, NEW asked, NEW answer, answer = CalculateStoreCalcOrder(sealed, asked),
           answer.state = "calculated", CanonicalConfiguration(sealed.body) = sealed.body
    PROVE  /\ AcceptedRequest(sealed.body, asked)
           /\ DOMAIN answer.buckets = DOMAIN sealed.body.buckets
           /\ \A i \in DOMAIN sealed.body.buckets :
                 answer.buckets[i].result =
                    BucketResult(sealed.body.buckets[i], SelectedLines(sealed.body, asked))
<1>1. \A code : Rejected(code).state # "calculated"
  BY DEF Rejected
<1>2. AcceptedRequest(sealed.body, asked) /\ answer = CalculatedOrder(sealed, asked)
  BY <1>1, Zenon DEF CalculateStoreCalcOrder
<1> DEFINE conf == sealed.body
           results == [i \in DOMAIN conf.buckets |->
                         [key |-> conf.buckets[i].key,
                          result |-> BucketResult(conf.buckets[i], SelectedLines(conf, asked))]]
<1>3. CalculatedOrder(sealed, asked).buckets = results
  BY DEF CalculatedOrder
<1> QED BY <1>2, <1>3

\* core.js:1172: adding to an order never brings an exceeded bucket back
\* within its limit, whatever the tax rounding and the unknown amounts do.
\* (It may become unknown, when what is added has no known amount.)
THEOREM ExceededStaysExceededHolds == Spec => ExceededStaysExceeded
<1> DEFINE Stays == Calculated /\ order'.state = "calculated" =>
                       \A bucket \in DOMAIN order.buckets :
                          order.buckets[bucket].result = "over_limit" =>
                             order'.buckets[bucket].result \in {"over_limit", "unknown", "unsupported"}
           Inv == SealedIsTheDraft /\ ProjectionIsOfTheDraft /\ OrderIsOfTheRequest /\ AskedAsAList
<1>1. ASSUME Inv, Calculated, NEW item, AddOne(item), order'.state = "calculated",
             NEW b \in DOMAIN order.buckets, order.buckets[b].result = "over_limit"
      PROVE  order'.buckets[b].result \in {"over_limit", "unknown", "unsupported"}
  <2> DEFINE sealed == projection.configuration
             row == Engine.buckets[b]
             before == SelectedLines(Engine, request)
             after == SelectedLines(Engine, request')
  <2>1. AnswerIsOfTheDraft
    BY <1>1, WhatIsCalculated
  <2>2. /\ AcceptedConfiguration(Engine) /\ CanonicalConfiguration(Engine) = Engine
        /\ IsSequence(Engine.items) /\ WellFormedCatalog(draft)
        /\ ToSet(Engine.buckets) = {BucketRow(bucket) : bucket \in Rows(draft.buckets)}
    BY <2>1, Zenon DEF AnswerIsOfTheDraft, EngineHasTheDraft
  <2>3. sealed.body = Engine
    BY DEF Engine
  <2>4. order = CalculateStoreCalcOrder(sealed, request) /\ order.state = "calculated"
    BY <1>1 DEF OrderIsOfTheRequest, Calculated
  <2>5. order' = CalculateStoreCalcOrder(sealed, request')
    BY <1>1, Zenon DEF AddOne, Answer
  <2> HIDE DEF sealed
  <2>6. /\ AcceptedRequest(Engine, request) /\ b \in DOMAIN Engine.buckets
        /\ BucketResult(row, before) = "over_limit"
    BY <1>1, <2>2, <2>3, <2>4, CalculationMeans
  <2>7. /\ AcceptedRequest(Engine, request')
        /\ order'.buckets[b].result = BucketResult(row, after)
    BY <1>1, <2>2, <2>3, <2>5, <2>6, CalculationMeans
  <2>8. AsksAtLeast(request, request')
    BY <1>1, OneMoreIsAsked
  <2>9. row.limitState \in LimitStates
    <3>1. PICK bucket \in Rows(draft.buckets) : row = BucketRow(bucket)
      BY <2>2, <2>6 DEF ToSet
    <3>2. bucket.limitState \in LimitStates
      BY <2>2 DEF WellFormedCatalog, Rows, ToSet
    <3> QED BY <3>1, <3>2 DEF BucketRow
  <2>10. /\ row.limitState = "known" => row.limit \in Nat
    <3>1. AcceptedBucket(row)
      BY <2>2, <2>6, Zenon DEF AcceptedConfiguration
    <3> QED BY <3>1, CalculationAssumption DEF AcceptedBucket, KnownAmount
  <2> HIDE DEF row, before, after
  <2>11. /\ row.limitState = "known" /\ BucketAmountState(row, before) = "known"
         /\ ~(BucketAmount(row, before) <= row.limit)
    BY <2>6, <2>9 DEF BucketResult, BucketAmountState, LimitStates
  <2>12. BucketAmountState(row, after) \in {"known", "unknown", "unsupported"}
    BY DEF BucketAmountState
  <2>13. CASE BucketAmountState(row, after) # "known"
    BY <2>7, <2>12, <2>13 DEF BucketResult
  <2>14. CASE BucketAmountState(row, after) = "known"
    <3>1. /\ BucketAmount(row, before) \in Nat /\ BucketAmount(row, after) \in Nat
          /\ BucketAmount(row, before) <= BucketAmount(row, after)
      BY <2>2, <2>6, <2>7, <2>8, <2>11, <2>14, BucketAmountGrows DEF before, after
    <3>2. ~(BucketAmount(row, after) <= row.limit)
      BY <2>10, <2>11, <3>1
    <3> QED BY <2>7, <2>11, <2>14, <3>2 DEF BucketResult
  <2> QED BY <2>13, <2>14
<1>2. ASSUME Inv, [Next]_vars
      PROVE  [Stays]_order
  <2>1. CASE SealDraft
    BY <2>1 DEF SealDraft
  <2>2. CASE Project
    BY <2>2 DEF Project
  <2>3. ASSUME NEW funds \in Funds, OpenOrder(funds)  PROVE Stays
    BY <2>3 DEF OpenOrder, Calculated
  <2>4. ASSUME NEW item \in KeysOf(draft.items), AddOne(item)  PROVE Stays
    BY <1>1, <1>2, <2>4
  <2>5. CASE UNCHANGED vars
    BY <2>5 DEF vars
  <2> QED BY <1>2, <2>1, <2>2, <2>3, <2>4, <2>5 DEF Next
<1>3. Inv /\ [Next]_vars => [Stays]_order
  BY <1>2
<1> QED
  BY <1>3, SealedIsTheDraftHolds, ProjectionIsOfTheDraftHolds, OrderIsOfTheRequestHolds,
     AskedAsAListHolds, PTL DEF Spec, ExceededStaysExceeded

=============================================================================
