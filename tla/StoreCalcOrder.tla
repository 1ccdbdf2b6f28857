--------------------------- MODULE StoreCalcOrder ---------------------------
(***************************************************************************)
(* From the rows of a draft to the order of a visitor: the draft is sealed *)
(* (content.js), the sealed catalog is projected (configurationProjector)  *)
(* and a visitor who adds one item after the other has every order         *)
(* calculated (core.js).                                                   *)
(*                                                                         *)
(* The properties are stated over the rows of the draft, with definitions  *)
(* of their own: what the three files do between the draft and the result  *)
(* is what they check.                                                     *)
(***************************************************************************)
EXTENDS StoreCalcContent

CONSTANTS
    Drafts,         \* the drafts that are considered
    Funds,          \* the funds a visitor may state, Null for none
    MaxAdded        \* bound: how often a visitor adds an item

ASSUME DraftsAssumption == \A d \in Drafts : WellFormedCatalog(d)

VARIABLES
    draft,          \* the rows as they were read
    catalog,        \* the sealed catalog, Null before it is sealed
    projection,     \* the outcome of the projection, Null before it
    request,        \* what the visitor asks for, Null before
    order           \* what the engine answered

vars == <<draft, catalog, projection, request, order>>

Init ==
    /\ draft \in Drafts
    /\ catalog = Null
    /\ projection = Null
    /\ request = Null
    /\ order = Null

SealDraft ==
    /\ catalog = Null
    /\ SealCatalogVersionContent(draft) # Null
    /\ catalog' = SealCatalogVersionContent(draft)
    /\ UNCHANGED <<draft, projection, request, order>>

Project ==
    /\ catalog # Null
    /\ projection = Null
    /\ projection' = ProjectCatalogVersionContent(catalog.body)
    /\ UNCHANGED <<draft, catalog, request, order>>

Answer(asked) ==
    /\ request' = asked
    /\ order' = CalculateStoreCalcOrder(projection.configuration, asked)
    /\ UNCHANGED <<draft, catalog, projection>>

OpenOrder(funds) ==
    /\ projection # Null
    /\ projection.state = "projected"
    /\ order = Null
    /\ Answer([quantities |-> <<>>, funds |-> funds, capabilities |-> EngineCapabilities])

\* One more of an item; an item not yet asked for goes to the front.
AddOne(item) ==
    /\ request # Null
    /\ SumKnown(AmountsOf(request.quantities, "quantity")) < MaxAdded
    /\ LET entries == request.quantities
           asked == {i \in DOMAIN entries : entries[i].item = item}
           more == IF asked = {} THEN <<[item |-> item, quantity |-> 1]>> \o entries
                   ELSE [i \in DOMAIN entries |->
                           [item |-> entries[i].item,
                            quantity |-> entries[i].quantity + (IF i \in asked THEN 1 ELSE 0)]]
       IN Answer([request EXCEPT !.quantities = more])

Next ==
    \/ SealDraft
    \/ Project
    \/ \E funds \in Funds : OpenOrder(funds)
    \/ \E item \in KeysOf(draft.items) : AddOne(item)

Spec == Init /\ [][Next]_vars

-----------------------------------------------------------------------------
(* What the rows of the draft mean, stated without the code's operators.   *)

Rows(table) == ToSet(table)

Asked(item) ==
    LET entries == {i \in DOMAIN request.quantities : request.quantities[i].item = item.key}
    IN SumFunction([i \in entries |-> request.quantities[i].quantity])

Chosen == {item \in Rows(draft.items) : Asked(item) > 0}

\* The tax rule of an item: of the narrowest scope that has one, the first.
RuleOf(item) ==
    LET inScope(scope) == {rule \in Rows(draft.taxRules) :
                             /\ rule.scope = scope
                             /\ scope = "item" => rule.item = item.key
                             /\ scope = "category" => rule.category = item.category}
        first(rules) == CHOOSE rule \in rules : \A other \in rules : other.priority <= rule.priority
    IN IF inScope("item") # {} THEN first(inScope("item"))
       ELSE IF inScope("category") # {} THEN first(inScope("category"))
       ELSE IF inScope("template") # {} THEN first(inScope("template"))
       ELSE Null

\* m is the tax on an amount at a rate of the whole, rounded as the rule says.
IsRounded(m, numerator, denominator, mode) ==
    CASE mode = "floor" -> m * denominator <= numerator /\ numerator < (m + 1) * denominator
      [] mode = "ceiling" -> m * denominator >= numerator /\ numerator > (m - 1) * denominator
      [] mode = "half_up" -> /\ 2 * m * denominator <= 2 * numerator + denominator
                             /\ 2 * numerator < (2 * m + 1) * denominator

IsTaxOf(item, tax) ==
    LET rule == RuleOf(item)
        listed == item.price * Asked(item)
    IN IsRounded(tax, listed * rule.rate,
                 IF rule.inclusive THEN PpmDenominator + rule.rate ELSE PpmDenominator,
                 rule.rounding)

Calculated == order # Null /\ order.state = "calculated"

LineOf(item) == CHOOSE line \in Rows(order.lines) : line.item.key = item.key

\* What an item contributes before tax: its amount without an included tax.
PretaxOf(item) ==
    LET listed == item.price * Asked(item)
        rule == RuleOf(item)
    IN IF rule.state = "known" /\ rule.inclusive THEN listed - LineOf(item).tax ELSE listed

MembersOf(bucket) ==
    {item \in Chosen : \E m \in Rows(draft.memberships) :
        m.item = item.key /\ m.bucket = bucket.key /\ m.type = "counts_toward"}

-----------------------------------------------------------------------------
(* Properties.                                                             *)

\* configurationProjector.js:196: two validators in two files agree.  Sealed
\* content fails to project only for a capability the engine lacks, an item
\* no tax rule applies to, or a key that the engine's narrower pattern
\* refuses; never because content.js let a row pass that core.js rejects.
SealedContentProjects ==
    projection # Null /\ projection.state = "failed" =>
        \/ Rows(draft.capabilities) \ EngineCapabilities # {}
        \/ \E item \in Rows(draft.items) : RuleOf(item) = Null
        \/ (KeysOf(draft.items) \union KeysOf(draft.buckets)) \intersect IdentityOnlyKeys # {}

\* content.js:776: neither the hash of a catalog nor anything projected from
\* it depends on the order in which the queries delivered the rows.
RowOrderIsIrrelevant ==
    catalog # Null =>
        \A reordered \in {[draft EXCEPT ![table] = Reverse(@)] : table \in DOMAIN draft} :
            SealCatalogVersionContent(reordered) = catalog

\* core.js:960: the tax of every line is the exact one rounded as the rule
\* the draft gives the item says; subtotal and tax make up the final total,
\* every amount is within the bound, and an included tax never exceeds the
\* listed amount.
TotalsAreExact ==
    Calculated =>
        /\ \A item \in Chosen :
              item.priceState = "known" /\ RuleOf(item).state = "known" =>
                  IsTaxOf(item, LineOf(item).tax)
        /\ order.totals.final.state = "known" =>
              LET tax == OrZero(order.totals.tax.amount)
              IN /\ order.totals.final.amount = order.totals.subtotal.amount + tax
                 /\ order.totals.final.amount \in order.totals.listed.amount..MaxMoneyMinor
                 /\ order.totals.subtotal.amount >= 0

\* core.js:1585: an order is complete only when nothing about it is open:
\* prices, taxes and availability of the chosen items, the limits of the
\* catalog, and no warning of the catalog or of a chosen item.
CompleteMeansNothingIsOpen ==
    Calculated /\ order.verdict.calculation = "complete" =>
        /\ \A item \in Chosen :
              /\ item.priceState = "known"
              /\ item.availability = "available"
              /\ RuleOf(item).state \in {"known", "not_applicable"}
              /\ Asked(item) \in {q \in item.minimum..item.maximum :
                                  (q - item.minimum) % item.step = 0}
        /\ \A limited \in Rows(draft.buckets) \union Rows(draft.constraints) :
              limited.limitState \notin {"unknown", "unsupported"}
        /\ \A w \in Rows(draft.warnings) :
              w.severity = "warning" => w.scope = "item" /\ w.item \notin {i.key : i \in Chosen}

\* core.js:1604: an order about which nothing is open passes exactly when it
\* keeps every limit of the draft: each bucket over what counts toward it
\* before tax, each constraint over the quantity or the number of lines, and
\* the funds over the final total.  One with something open never passes.
PassingKeepsEveryLimit ==
    LET measured(constraint) ==
            IF constraint.measure = "total_quantity" THEN SumFunction([item \in Chosen |-> Asked(item)])
            ELSE Cardinality(Chosen)
        kept ==
            /\ \A bucket \in Rows(draft.buckets) :
                  bucket.limitState = "known" =>
                      SumFunction([item \in MembersOf(bucket) |-> PretaxOf(item)]) <= bucket.limit
            /\ \A constraint \in Rows(draft.constraints) :
                  constraint.limitState = "known" =>
                      IF constraint.comparator = "at_most"
                      THEN measured(constraint) <= constraint.limit
                      ELSE measured(constraint) >= constraint.limit
            /\ request.funds # Null =>
                  SumFunction([item \in Chosen |-> LineOf(item).total]) <= request.funds
    IN Calculated =>
        (order.verdict.compliance = "passes_known_rules"
            <=> order.verdict.calculation = "complete" /\ kept)

\* core.js:1172: adding to an order never brings an exceeded bucket back
\* within its limit, whatever the tax rounding and the unknown amounts do.
\* (It may become unknown, when what is added has no known amount.)
ExceededStaysExceeded ==
    [][Calculated /\ order'.state = "calculated" =>
          \A bucket \in DOMAIN order.buckets :
              order.buckets[bucket].result = "over_limit" =>
                  order'.buckets[bucket].result \in {"over_limit", "unknown", "unsupported"}]_order

=============================================================================
