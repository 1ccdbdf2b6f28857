-------------------------- MODULE StoreCalcContent --------------------------
(***************************************************************************)
(* The content of a catalog version, src/storecalc/catalog/content.js:     *)
(* which drafts may be sealed and the canonical form that is hashed, and   *)
(* its projection to the configuration the engine calculates with,         *)
(* src/storecalc/catalog/configurationProjector.js.                        *)
(*                                                                         *)
(* A catalog is a record of sequences of rows, in the order a caller or a  *)
(* query happened to deliver them.  Currency, dates, names and schema      *)
(* versions are left out: they are compared with constants.                *)
(***************************************************************************)
EXTENDS StoreCalcCalculation

KeysOf(rows) == {rows[i].key : i \in DOMAIN rows}

AtMostOne(rows, Test(_)) == Cardinality({i \in DOMAIN rows : Test(rows[i])}) <= 1

CatalogTables ==
    {"capabilities", "categories", "items", "buckets", "memberships", "taxRules", "constraints",
     "warnings", "evidence"}

-----------------------------------------------------------------------------
(* The rows of a catalog.                                                  *)

\* Mutant of AcceptedCatalogItem: the maximum may be below the minimum.
QuantityRuleUnchecked(item) ==
    /\ IsIdentityKey(item.key)
    /\ KnownAmount(item.priceState, item.price, MaxMoneyMinor)
    /\ {item.minimum, item.maximum, item.step} \subseteq 1..MaxQuantity
    /\ item.category # Null => IsIdentityKey(item.category)

AcceptedCatalogItem(item) ==
    /\ IsIdentityKey(item.key)
    /\ KnownAmount(item.priceState, item.price, MaxMoneyMinor)
    /\ {item.minimum, item.maximum, item.step} \subseteq 1..MaxQuantity
    /\ item.minimum <= item.maximum
    /\ item.category # Null => IsIdentityKey(item.category)

AcceptedCatalogBucket(bucket) ==
    /\ IsIdentityKey(bucket.key)
    /\ KnownAmount(bucket.limitState, bucket.limit, MaxMoneyMinor)

MembershipIdentity(m) == <<m.item, m.bucket>>

\* scopeType with its target keys: exactly the key the scope names is given.
ScopeMatchesTarget(row) ==
    /\ (row.category # Null) <=> (row.scope = "category")
    /\ (row.item # Null) <=> (row.scope = "item")

AcceptedTaxRule(rule) ==
    /\ ScopeMatchesTarget(rule)
    /\ AcceptedTax(rule)

ScopeOrder == [category |-> 0, item |-> 1, template |-> 2]

TaxRulePosition(rule) ==
    <<ScopeOrder[rule.scope], OrZero(rule.category), OrZero(rule.item), -rule.priority>>

AcceptedCatalogConstraint(constraint) ==
    /\ IsRuleKey(constraint.key)
    /\ ~(constraint.comparator = "at_least" /\ constraint.limitState = "unlimited")
    /\ KnownAmount(constraint.limitState, constraint.limit, MaxAggregateCount)

AcceptedCatalogWarning(warning) ==
    /\ warning.scope = "item" <=> warning.item # Null
    /\ IsRuleKey(warning.code)

CatalogWarningIdentity(w) ==
    <<ScopeOrder[w.scope], OrZero(w.item), SeverityOrder[w.severity], w.code>>

LimitStates == {"known", "unlimited", "not_applicable", "unknown", "unsupported"}

\* What normalizeEnum and the number patterns of the validators leave: nine
\* tables, with enumerated states, positions and fingerprints of their types.
WellFormedCatalog(c) ==
    /\ DOMAIN c = CatalogTables
    /\ \A table \in CatalogTables : c[table] \in Seq(ToSet(c[table]))
    /\ \A i \in DOMAIN c.items :
          /\ c.items[i].order \in Int
          /\ c.items[i].availability \in {"available", "unavailable", "unknown"}
    /\ \A i \in DOMAIN c.buckets :
          c.buckets[i].order \in Int /\ c.buckets[i].limitState \in LimitStates
    /\ \A i \in DOMAIN c.constraints :
          c.constraints[i].priority \in Int /\ c.constraints[i].limitState \in LimitStates
    /\ \A i \in DOMAIN c.taxRules :
          c.taxRules[i].scope \in DOMAIN ScopeOrder /\ c.taxRules[i].priority \in Int
    /\ \A i \in DOMAIN c.warnings :
          /\ c.warnings[i].scope \in {"template", "item"}
          /\ c.warnings[i].severity \in {"warning", "informational"}
    /\ \A i \in DOMAIN c.evidence : c.evidence[i].key \in Nat

-----------------------------------------------------------------------------
(* normalizeCatalog.                                                       *)

ReferencesResolve(c) ==
    LET items == KeysOf(c.items)
        categories == KeysOf(c.categories)
    IN /\ \A i \in DOMAIN c.items : c.items[i].category \in categories \union {Null}
       /\ \A i \in DOMAIN c.memberships :
             c.memberships[i].item \in items /\ c.memberships[i].bucket \in KeysOf(c.buckets)
       /\ \A i \in DOMAIN c.taxRules :
             /\ c.taxRules[i].category \in categories \union {Null}
             /\ c.taxRules[i].item \in items \union {Null}
       /\ \A i \in DOMAIN c.warnings : c.warnings[i].item \in items \union {Null}

RowsAreUnique(c) ==
    /\ UniqueOn(c.capabilities, LAMBDA capability : capability)
    /\ UniqueOn(c.categories, KeyOf)
    /\ UniqueOn(c.items, KeyOf)
    /\ UniqueOn(c.buckets, KeyOf)
    /\ UniqueOn(c.memberships, MembershipIdentity)
    /\ UniqueOn(c.taxRules, TaxRulePosition)
    /\ UniqueOn(c.constraints, KeyOf)
    /\ UniqueOn(c.warnings, CatalogWarningIdentity)
    /\ UniqueOn(c.evidence, KeyOf)

AcceptedRows(c) ==
    /\ \A i \in DOMAIN c.categories : IsIdentityKey(c.categories[i].key)
    /\ \A i \in DOMAIN c.items : AcceptedCatalogItem(c.items[i])
    /\ \A i \in DOMAIN c.buckets : AcceptedCatalogBucket(c.buckets[i])
    /\ \A i \in DOMAIN c.taxRules : AcceptedTaxRule(c.taxRules[i])
    /\ \A i \in DOMAIN c.constraints : AcceptedCatalogConstraint(c.constraints[i])
    /\ \A i \in DOMAIN c.warnings : AcceptedCatalogWarning(c.warnings[i])

\* CATALOG_CONTENT_BOUNDS: maxCategories, maxTaxRules and maxSourceEvidence
\* are MaxRows here too, memberships have the product of their tables.
WithinContentBounds(c) ==
    /\ Len(c.items) >= 1
    /\ Len(c.evidence) >= 1
    /\ Len(c.memberships) <= MaxRows * MaxRows
    /\ \A rows \in {c.categories, c.items, c.buckets, c.taxRules, c.constraints,
                    c.warnings, c.evidence} : Len(rows) <= MaxRows

DeclaresCapabilities(c) ==
    InferredCapabilities({c.taxRules[i].state : i \in DOMAIN c.taxRules},
                         c.buckets # <<>>, c.constraints # <<>>) \subseteq ToSet(c.capabilities)

AcceptedCatalog(c) ==
    /\ WithinContentBounds(c)
    /\ AcceptedRows(c)
    /\ RowsAreUnique(c)
    /\ ReferencesResolve(c)
    /\ AtMostOne(c.buckets, LAMBDA bucket : bucket.primary)
    /\ \A i \in DOMAIN c.items :
          AtMostOne(c.memberships, LAMBDA m : m.item = c.items[i].key /\ m.primary)
    /\ DeclaresCapabilities(c)

\* Mutant of CanonicalCatalog: the memberships keep the order they came in.
MembershipsUnsorted(c) ==
    [c EXCEPT !.capabilities = ToSet(@),
              !.categories = SortOn(@, LAMBDA row : <<row.key>>),
              !.items = SortOn(@, LAMBDA row : <<row.key>>),
              !.buckets = SortOn(@, LAMBDA row : <<row.key>>),
              !.taxRules = SortOn(@, TaxRulePosition),
              !.constraints = SortOn(@, LAMBDA row : <<row.key>>),
              !.warnings = SortOn(@, CatalogWarningIdentity),
              !.evidence = SortOn(@, LAMBDA row : <<row.key>>)]

\* The sorted capabilities of the code are the set of them: no two are equal.
CanonicalCatalog(c) ==
    [c EXCEPT !.capabilities = ToSet(@),
              !.categories = SortOn(@, LAMBDA row : <<row.key>>),
              !.items = SortOn(@, LAMBDA row : <<row.key>>),
              !.buckets = SortOn(@, LAMBDA row : <<row.key>>),
              !.memberships = SortOn(@, MembershipIdentity),
              !.taxRules = SortOn(@, TaxRulePosition),
              !.constraints = SortOn(@, LAMBDA row : <<row.key>>),
              !.warnings = SortOn(@, CatalogWarningIdentity),
              !.evidence = SortOn(@, LAMBDA row : <<row.key>>)]

\* sealCatalogVersionContent: Null where it throws.
SealCatalogVersionContent(c) ==
    IF AcceptedCatalog(c)
    THEN [body |-> CanonicalCatalog(c), contentHash |-> Hash(CanonicalCatalog(c))]
    ELSE Null

-----------------------------------------------------------------------------
(* configurationProjector.js: a sealed catalog as a configuration.         *)

ApplicableTaxRules(catalog, item) ==
    LET rules(Test(_)) == {rule \in ToSet(catalog.taxRules) : Test(rule)}
        ofItem == rules(LAMBDA rule : rule.scope = "item" /\ rule.item = item.key)
        ofCategory == rules(LAMBDA rule : rule.scope = "category" /\ rule.category = item.category)
    IN IF ofItem # {} THEN ofItem
       ELSE IF ofCategory # {} THEN ofCategory ELSE rules(LAMBDA rule : rule.scope = "template")

WinningTaxRules(catalog, item) ==
    LET rules == ApplicableTaxRules(catalog, item)
    IN {rule \in rules : \A other \in rules : other.priority <= rule.priority}

ResolveTaxTreatment(catalog, item) ==
    LET winner == CHOOSE rule \in WinningTaxRules(catalog, item) : TRUE
    IN [state |-> winner.state, rate |-> winner.rate,
        inclusive |-> winner.inclusive, rounding |-> winner.rounding]

ProjectItem(catalog, item) ==
    LET memberships == Filter(catalog.memberships, LAMBDA m : m.item = item.key)
        warnings == Filter(catalog.warnings, LAMBDA w : w.item = item.key)
    IN [key |-> item.key, order |-> item.order,
        priceState |-> item.priceState, price |-> item.price,
        minimum |-> item.minimum, maximum |-> item.maximum, step |-> item.step,
        availability |-> item.availability,
        tax |-> ResolveTaxTreatment(catalog, item),
        memberships |-> [i \in DOMAIN memberships |->
            [bucket |-> memberships[i].bucket, type |-> memberships[i].type,
             primary |-> memberships[i].primary]],
        warnings |-> [i \in DOMAIN warnings |->
            [code |-> warnings[i].code, severity |-> warnings[i].severity]]]

ProjectedConfiguration(catalog) ==
    LET warnings == Filter(catalog.warnings, LAMBDA w : w.scope = "template")
    IN [capabilities |-> catalog.capabilities,
        items |-> [i \in DOMAIN catalog.items |-> ProjectItem(catalog, catalog.items[i])],
        buckets |-> [i \in DOMAIN catalog.buckets |->
            [key |-> catalog.buckets[i].key, order |-> catalog.buckets[i].order,
             limitState |-> catalog.buckets[i].limitState, limit |-> catalog.buckets[i].limit]],
        constraints |-> [i \in DOMAIN catalog.constraints |->
            LET constraint == catalog.constraints[i]
            IN [key |-> constraint.key, order |-> constraint.priority,
                measure |-> constraint.measure, comparator |-> constraint.comparator,
                limitState |-> constraint.limitState, limit |-> constraint.limit]],
        warnings |-> [i \in DOMAIN warnings |->
            [code |-> warnings[i].code, severity |-> warnings[i].severity]]]

ProjectionFails(code) == [state |-> "failed", code |-> code]

\* projectCatalogVersionContent of content that verifies.
ProjectCatalogVersionContent(catalog) ==
    LET winners == {Cardinality(WinningTaxRules(catalog, item)) : item \in ToSet(catalog.items)}
        configuration == ProjectedConfiguration(catalog)
    IN IF ~(catalog.capabilities \subseteq EngineCapabilities)
       THEN ProjectionFails("CATALOG_CAPABILITY_UNSUPPORTED")
       ELSE IF 0 \in winners THEN ProjectionFails("CATALOG_TAX_TREATMENT_MISSING")
       ELSE IF winners # {1} THEN ProjectionFails("CATALOG_TAX_TREATMENT_AMBIGUOUS")
       ELSE IF ~AcceptedConfiguration(configuration)
       THEN ProjectionFails("RESOLVED_CONFIGURATION_INVALID")
       ELSE [state |-> "projected", configuration |-> SealResolvedConfiguration(configuration)]

=============================================================================
