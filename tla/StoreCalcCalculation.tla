------------------------ MODULE StoreCalcCalculation ------------------------
(***************************************************************************)
(* The calculation engine of StoreCalc, src/storecalc/calculation/core.js: *)
(* which configurations it accepts, how it brings them into canonical      *)
(* form, and what it computes for an order.                                *)
(*                                                                         *)
(* Keys, codes and sort positions are naturals, ordered as the code orders *)
(* strings; 0 is the empty string.  Amounts are naturals; the bounds       *)
(* of CALCULATION_BOUNDS and the parts-per-million denominator are         *)
(* parameters, so that an instance reaches them.  Names and messages are   *)
(* left out.                                                               *)
(***************************************************************************)
EXTENDS Integers, Sequences, FiniteSets, SequencesExt

CONSTANTS
    Null,               \* JavaScript null
    IdentityOnlyKeys,   \* keys such as "a__b": an identity key, no rule key
    MaxMoneyMinor,      \* maxMoneyMinor
    MaxQuantity,        \* maxQuantity
    MaxAggregateCount,  \* maxAggregateCount
    PpmDenominator,     \* PPM_DENOMINATOR, also maxTaxRatePpm
    MaxRows             \* maxItems, maxBuckets, maxConstraints, maxSelectedLines
                        \* and maxWarnings, one bound for the five

ASSUME CalculationAssumption ==
    /\ Null \notin Int
    /\ IdentityOnlyKeys \subseteq Nat
    /\ {MaxMoneyMinor, MaxQuantity, MaxAggregateCount, MaxRows} \subseteq Nat
    /\ PpmDenominator \in Nat \ {0}

EngineCapabilities == {"money", "quantity", "tax", "buckets", "constraints"}

SeverityOrder == [hard_error |-> 0, over_limit |-> 1, warning |-> 2, informational |-> 3]

-----------------------------------------------------------------------------
(* Sorting and uniqueness, as compareCodeUnits chains and Set scans do it. *)

LexLess(a, b) ==
    \E i \in DOMAIN a : a[i] < b[i] /\ \A j \in 1..(i - 1) : a[j] = b[j]

\* The members of a finite set in an order that is total on it.
InOrder(S, before) ==
    [k \in 1..Cardinality(S) |->
        CHOOSE x \in S : Cardinality({y \in S : <<y, x>> \in before}) = k - 1]

\* Array.prototype.sort is stable: equal keys keep their order.
KeyOrder(keys) ==
    {p \in (DOMAIN keys) \X (DOMAIN keys) :
        \/ LexLess(keys[p[1]], keys[p[2]])
        \/ keys[p[1]] = keys[p[2]] /\ p[1] < p[2]}

SortOn(s, Key(_)) ==
    LET sorted == InOrder(DOMAIN s, KeyOrder([i \in DOMAIN s |-> Key(s[i])]))
    IN [k \in DOMAIN s |-> s[sorted[k]]]

\* Array.prototype.filter.
Filter(s, Test(_)) ==
    LET passing == {i \in DOMAIN s : Test(s[i])}
        kept == InOrder(passing, {p \in passing \X passing : p[1] < p[2]})
    IN [k \in DOMAIN kept |-> s[kept[k]]]

UniqueOn(s, Key(_)) ==
    \A i, j \in DOMAIN s : Key(s[i]) = Key(s[j]) => i = j

OrZero(key) == IF key = Null THEN 0 ELSE key

KeyOf(row) == row.key

PositionOf(row) == <<row.order, row.key>>

BucketOf(membership) == membership.bucket

WarningIdentity(w) == <<SeverityOrder[w.severity], w.code>>

IsIdentityKey(key) == key \in Nat \ {0}

IsRuleKey(key) == key \in Nat \ ({0} \union IdentityOnlyKeys)

KnownAmount(state, amount, max) ==
    IF state = "known" THEN amount \in 0..max ELSE amount = Null

-----------------------------------------------------------------------------
(* normalizeConfiguration and the row validators it calls.                 *)

AcceptedTax(t) ==
    IF t.state = "known"
    THEN /\ t.rate \in 0..PpmDenominator
         /\ t.inclusive \in BOOLEAN
         /\ t.rounding \in {"half_up", "floor", "ceiling"}
    ELSE {t.rate, t.inclusive, t.rounding} = {Null}

AcceptedItem(item) ==
    /\ IsRuleKey(item.key)
    /\ KnownAmount(item.priceState, item.price, MaxMoneyMinor)
    /\ {item.minimum, item.maximum, item.step} \subseteq 1..MaxQuantity
    /\ item.minimum <= item.maximum
    /\ \A i \in DOMAIN item.memberships : IsRuleKey(item.memberships[i].bucket)
    /\ UniqueOn(item.memberships, BucketOf)
    /\ Cardinality({i \in DOMAIN item.memberships : item.memberships[i].primary}) <= 1
    /\ UniqueOn(item.warnings, WarningIdentity)
    /\ AcceptedTax(item.tax)

AcceptedBucket(bucket) ==
    /\ IsRuleKey(bucket.key)
    /\ KnownAmount(bucket.limitState, bucket.limit, MaxMoneyMinor)

AcceptedConstraint(constraint) ==
    /\ IsRuleKey(constraint.key)
    /\ ~(constraint.comparator = "at_least" /\ constraint.limitState = "unlimited")
    /\ KnownAmount(constraint.limitState, constraint.limit, MaxAggregateCount)

InferredCapabilities(taxStates, hasBuckets, hasConstraints) ==
    {"money", "quantity"}
        \union (IF taxStates \subseteq {"not_applicable"} THEN {} ELSE {"tax"})
        \union (IF hasBuckets THEN {"buckets"} ELSE {})
        \union (IF hasConstraints THEN {"constraints"} ELSE {})

WarningCount(c) ==
    Len(c.warnings)
      + Cardinality(UNION {{i} \X (DOMAIN c.items[i].warnings) : i \in DOMAIN c.items})

AcceptedConfiguration(c) ==
    /\ Len(c.items) \in 1..MaxRows
    /\ \A i \in DOMAIN c.items : AcceptedItem(c.items[i])
    /\ UniqueOn(c.items, KeyOf)
    /\ Len(c.buckets) <= MaxRows
    /\ \A i \in DOMAIN c.buckets : AcceptedBucket(c.buckets[i])
    /\ UniqueOn(c.buckets, KeyOf)
    /\ \A i \in DOMAIN c.items : \A j \in DOMAIN c.items[i].memberships :
          \E b \in DOMAIN c.buckets : c.buckets[b].key = c.items[i].memberships[j].bucket
    /\ Len(c.constraints) <= MaxRows
    /\ \A i \in DOMAIN c.constraints : AcceptedConstraint(c.constraints[i])
    /\ UniqueOn(c.constraints, KeyOf)
    /\ UniqueOn(c.warnings, WarningIdentity)
    /\ WarningCount(c) <= MaxRows
    /\ InferredCapabilities({c.items[i].tax.state : i \in DOMAIN c.items},
                            c.buckets # <<>>, c.constraints # <<>>) \subseteq c.capabilities

CanonicalItem(item) ==
    [item EXCEPT !.memberships = SortOn(@, LAMBDA m : <<m.bucket>>),
                 !.warnings = SortOn(@, WarningIdentity)]

CanonicalConfiguration(c) ==
    [c EXCEPT !.items = SortOn([i \in DOMAIN @ |-> CanonicalItem(@[i])], PositionOf),
              !.buckets = SortOn(@, PositionOf),
              !.constraints = SortOn(@, PositionOf),
              !.warnings = SortOn(@, WarningIdentity)]

\* SHA-256 over the canonical JSON, taken as free of collisions.
Hash(canonical) == <<"sha256", canonical>>

SealResolvedConfiguration(c) ==
    IF AcceptedConfiguration(c)
    THEN [body |-> CanonicalConfiguration(c), contentHash |-> Hash(CanonicalConfiguration(c))]
    ELSE Null

VerifiedConfiguration(sealed) ==
    /\ AcceptedConfiguration(sealed.body)
    /\ sealed.contentHash = Hash(CanonicalConfiguration(sealed.body))

-----------------------------------------------------------------------------
(* One line of the order.                                                  *)

\* Mutant of DivideRounded: the remainder is compared with the denominator, not half of it.
RoundsWholeRemainder(numerator, denominator, mode) ==
    IF numerator % denominator = 0 \/ mode \in {"floor", "half_up"}
    THEN numerator \div denominator
    ELSE (numerator \div denominator) + 1

DivideRounded(numerator, denominator, mode) ==
    LET quotient == numerator \div denominator
        remainder == numerator % denominator
        up == mode = "ceiling" \/ (mode = "half_up" /\ 2 * remainder >= denominator)
    IN IF remainder # 0 /\ up THEN quotient + 1 ELSE quotient

\* calculateKnownTax without its overflow check, see LineOverflows.
KnownTax(listed, tax) ==
    IF tax.inclusive
    THEN LET amount == DivideRounded(listed * tax.rate, PpmDenominator + tax.rate, tax.rounding)
         IN [subtotal |-> listed - amount, tax |-> amount, total |-> listed]
    ELSE LET amount == DivideRounded(listed * tax.rate, PpmDenominator, tax.rounding)
         IN [subtotal |-> listed, tax |-> amount, total |-> listed + amount]

Validation(severity, code, target) == [severity |-> severity, code |-> code, target |-> target]

QuantityValidations(item, quantity) ==
    {Validation("hard_error", code, item.key) : code \in
        (IF quantity < item.minimum THEN {"below_minimum"} ELSE {})
        \union (IF quantity > item.maximum THEN {"above_maximum"} ELSE {})
        \union (IF quantity >= item.minimum /\ (quantity - item.minimum) % item.step # 0
                THEN {"step_mismatch"} ELSE {})}

AvailabilityValidations(item) ==
    CASE item.availability = "unavailable" -> {Validation("hard_error", "unavailable", item.key)}
      [] item.availability = "unknown" -> {Validation("warning", "availability_unknown", item.key)}
      [] OTHER -> {}

PriceValidations(item) ==
    IF item.priceState # "known" THEN {Validation("hard_error", "price_not_known", item.key)}
    ELSE CASE item.tax.state = "unknown" -> {Validation("warning", "tax_unknown", item.key)}
           [] item.tax.state = "unsupported" -> {Validation("hard_error", "tax_unsupported", item.key)}
           [] OTHER -> {}

LineValidations(item, quantity) ==
    AvailabilityValidations(item) \union QuantityValidations(item, quantity)
        \union PriceValidations(item)

\* computeLine: the amounts of one selected item, and the states they are in.
ComputeLine(item, quantity) ==
    LET line(listed, amounts, taxState, unknownState) ==
            [item |-> item, quantity |-> quantity, listed |-> listed,
             subtotal |-> amounts.subtotal, tax |-> amounts.tax, total |-> amounts.total,
             taxState |-> taxState, unknownState |-> unknownState]
        nothing == [subtotal |-> Null, tax |-> Null, total |-> Null]
        listed == item.price * quantity
    IN IF item.priceState # "known" THEN line(Null, nothing, "unknown", item.priceState)
       ELSE CASE item.tax.state = "known" ->
                   line(listed, KnownTax(listed, item.tax), "known", Null)
              [] item.tax.state = "not_applicable" ->
                   line(listed, [subtotal |-> listed, tax |-> Null, total |-> listed],
                        "not_applicable", Null)
              [] OTHER -> line(listed, nothing, item.tax.state, item.tax.state)

\* multiplyMoney and addMoney within computeLine throw CALCULATION_OVERFLOW.
LineOverflows(line) ==
    \/ line.listed # Null /\ line.listed > MaxMoneyMinor
    \/ line.total # Null /\ line.total > MaxMoneyMinor

-----------------------------------------------------------------------------
(* Buckets, constraints, totals and available funds over the lines.        *)

\* sumKnown without its overflow check: every partial sum of naturals is at
\* most the whole, so the check fires exactly when the whole is too large.
SumKnown(amounts) == FoldLeft(LAMBDA total, amount : total + amount, 0, amounts)

AmountsOf(lines, field) == [i \in DOMAIN lines |-> lines[i][field]]

AllKnown(amounts) == \A i \in DOMAIN amounts : amounts[i] # Null

CountsToward(line, bucket) ==
    \E i \in DOMAIN line.item.memberships :
        /\ line.item.memberships[i].bucket = bucket.key
        /\ line.item.memberships[i].type = "counts_toward"

BucketLines(bucket, lines) == Filter(lines, LAMBDA line : CountsToward(line, bucket))

BucketAmountState(bucket, lines) ==
    LET open == {line \in ToSet(BucketLines(bucket, lines)) : line.subtotal = Null}
    IN IF \E line \in open : line.unknownState = "unsupported" THEN "unsupported"
       ELSE IF open # {} THEN "unknown" ELSE "known"

BucketAmount(bucket, lines) ==
    SumKnown(Filter(AmountsOf(BucketLines(bucket, lines), "subtotal"),
                    LAMBDA amount : amount # Null))

\* Mutant of BucketResult: an unknown amount counts as within the limit.
UnknownAmountWithinLimit(bucket, lines) ==
    IF bucket.limitState # "known" THEN bucket.limitState
    ELSE IF BucketAmountState(bucket, lines) = "known" /\ BucketAmount(bucket, lines) > bucket.limit
         THEN "over_limit" ELSE "within_limit"

\* computeBuckets: what the limit of a bucket says about the order.
BucketResult(bucket, lines) ==
    LET states == {BucketAmountState(bucket, lines), bucket.limitState}
    IN IF "unsupported" \in states THEN "unsupported"
       ELSE IF "unknown" \in states THEN "unknown"
       ELSE IF bucket.limitState # "known" THEN bucket.limitState
       ELSE IF BucketAmount(bucket, lines) <= bucket.limit THEN "within_limit" ELSE "over_limit"

BucketValidations(bucket, lines) ==
    (CASE BucketAmountState(bucket, lines) = "unsupported" ->
             {Validation("hard_error", "bucket_amount_unsupported", bucket.key)}
       [] BucketAmountState(bucket, lines) = "unknown" ->
             {Validation("warning", "bucket_amount_unknown", bucket.key)}
       [] OTHER -> {})
    \union
    (CASE bucket.limitState = "unsupported" ->
             {Validation("hard_error", "bucket_limit_unsupported", bucket.key)}
       [] bucket.limitState = "unknown" ->
             {Validation("warning", "bucket_limit_unknown", bucket.key)}
       [] OTHER -> {})
    \union
    (IF BucketResult(bucket, lines) = "over_limit"
     THEN {Validation("over_limit", "bucket_limit_exceeded", bucket.key)} ELSE {})

TotalQuantity(lines) == SumKnown(AmountsOf(lines, "quantity"))

MeasuredValue(constraint, lines) ==
    IF constraint.measure = "total_quantity" THEN TotalQuantity(lines) ELSE Len(lines)

\* Mutant of ConstraintPasses: the limit itself is refused.
LimitItselfRefused(constraint, lines) ==
    IF constraint.comparator = "at_most"
    THEN MeasuredValue(constraint, lines) < constraint.limit
    ELSE MeasuredValue(constraint, lines) >= constraint.limit

ConstraintPasses(constraint, lines) ==
    IF constraint.comparator = "at_most"
    THEN MeasuredValue(constraint, lines) <= constraint.limit
    ELSE MeasuredValue(constraint, lines) >= constraint.limit

\* computeConstraints: the result of one constraint ...
ConstraintResult(constraint, lines) ==
    IF constraint.limitState = "known"
    THEN IF ConstraintPasses(constraint, lines) THEN "passes" ELSE "over_limit"
    ELSE constraint.limitState

\* ... and the validation it adds.
ConstraintValidations(constraint, lines) ==
    LET result == ConstraintResult(constraint, lines)
    IN CASE result = "over_limit" -> {Validation("over_limit", "constraint_failed", constraint.key)}
         [] result = "unknown" -> {Validation("warning", "constraint_unknown", constraint.key)}
         [] result = "unsupported" ->
               {Validation("hard_error", "constraint_unsupported", constraint.key)}
         [] OTHER -> {}

\* computeTotals.
ComputeTotals(lines) ==
    LET unsupported == \E i \in DOMAIN lines : lines[i].unknownState = "unsupported"
        anyKnownTax == \E i \in DOMAIN lines : lines[i].taxState = "known"
        taxKnown == \A i \in DOMAIN lines :
                       lines[i].tax # Null \/ lines[i].taxState = "not_applicable"
        open == IF unsupported THEN "unsupported" ELSE "unknown"
        total(field) == LET amounts == AmountsOf(lines, field)
                        IN IF AllKnown(amounts) THEN [state |-> "known", amount |-> SumKnown(amounts)]
                           ELSE [state |-> open, amount |-> Null]
        taxes == [i \in DOMAIN lines |-> OrZero(lines[i].tax)]
    IN [listed |-> total("listed"),
        subtotal |-> total("subtotal"),
        final |-> total("total"),
        tax |-> IF ~taxKnown THEN [state |-> open, amount |-> Null]
                ELSE IF anyKnownTax THEN [state |-> "known", amount |-> SumKnown(taxes)]
                ELSE [state |-> "not_applicable", amount |-> Null]]

\* computeAvailableFunds.
AvailableFunds(funds, totals) ==
    IF funds = Null THEN [result |-> "not_applicable", remaining |-> Null]
    ELSE IF totals.final.state # "known" THEN [result |-> "unknown", remaining |-> Null]
    ELSE [result |-> IF funds < totals.final.amount THEN "over_limit" ELSE "within_funds",
          remaining |-> funds - totals.final.amount]

-----------------------------------------------------------------------------
(* calculateStoreCalcOrder.                                                *)

\* normalizeQuantities and normalizeSupportedCapabilities.
AcceptedRequest(configuration, request) ==
    /\ configuration.capabilities \subseteq EngineCapabilities
    /\ configuration.capabilities \subseteq request.capabilities
    /\ request.capabilities \subseteq EngineCapabilities
    /\ Len(request.quantities) <= MaxRows
    /\ \A i \in DOMAIN request.quantities :
          /\ \E j \in DOMAIN configuration.items :
                configuration.items[j].key = request.quantities[i].item
          /\ request.quantities[i].quantity \in 0..MaxQuantity
    /\ UniqueOn(request.quantities, LAMBDA entry : entry.item)
    /\ request.funds \in (0..MaxMoneyMinor) \union {Null}

\* quantities.get(itemKey) ?? 0n
QuantityOf(request, item) ==
    LET chosen == {i \in DOMAIN request.quantities : request.quantities[i].item = item.key}
    IN IF chosen = {} THEN 0 ELSE request.quantities[CHOOSE i \in chosen : TRUE].quantity

SelectedLines(configuration, request) ==
    LET selected == Filter(configuration.items, LAMBDA item : QuantityOf(request, item) # 0)
    IN [i \in DOMAIN selected |-> ComputeLine(selected[i], QuantityOf(request, selected[i]))]

\* CALCULATION_OVERFLOW of a line or of a sum, AGGREGATE_COUNT_OVERFLOW.
OrderOverflows(configuration, lines) ==
    LET totals == ComputeTotals(lines)
        tooMuch(amount) == amount # Null /\ amount > MaxMoneyMinor
    IN \/ \E i \in DOMAIN lines : LineOverflows(lines[i])
       \/ \E field \in DOMAIN totals : tooMuch(totals[field].amount)
       \/ \E i \in DOMAIN configuration.buckets :
             /\ BucketAmountState(configuration.buckets[i], lines) = "known"
             /\ tooMuch(BucketAmount(configuration.buckets[i], lines))
       \/ TotalQuantity(lines) > MaxAggregateCount

OrderValidations(configuration, lines, funds) ==
    (UNION {LineValidations(lines[i].item, lines[i].quantity) : i \in DOMAIN lines})
    \union (UNION {BucketValidations(configuration.buckets[i], lines) :
                     i \in DOMAIN configuration.buckets})
    \union (UNION {ConstraintValidations(configuration.constraints[i], lines) :
                     i \in DOMAIN configuration.constraints})
    \union (IF funds.result = "over_limit"
            THEN {Validation("over_limit", "funds_exceeded", Null)} ELSE {})

OrderWarnings(configuration, lines) ==
    ToSet(configuration.warnings)
        \union UNION {ToSet(lines[i].item.warnings) : i \in DOMAIN lines}

\* Mutant of Verdict: an order with a warning is still reported as complete.
WarningsDoNotCount(severities, warnings, totals) ==
    [calculation |-> IF "hard_error" \in severities THEN "invalid"
                     ELSE IF totals.final.state # "known" THEN "incomplete" ELSE "complete",
     compliance |-> IF severities \intersect {"hard_error", "over_limit"} # {} THEN "violations"
                    ELSE IF totals.final.state # "known" THEN "unknown" ELSE "passes_known_rules"]

\* calculationState and complianceState.
Verdict(severities, warnings, totals) ==
    LET uncertain == \/ "warning" \in severities
                     \/ \E w \in warnings : w.severity = "warning"
                     \/ totals.final.state # "known"
    IN [calculation |-> IF "hard_error" \in severities THEN "invalid"
                        ELSE IF uncertain THEN "incomplete" ELSE "complete",
        compliance |-> IF severities \intersect {"hard_error", "over_limit"} # {} THEN "violations"
                       ELSE IF uncertain THEN "unknown" ELSE "passes_known_rules"]

CalculatedOrder(sealed, request) ==
    LET configuration == CanonicalConfiguration(sealed.body)
        lines == SelectedLines(configuration, request)
        totals == ComputeTotals(lines)
        funds == AvailableFunds(request.funds, totals)
        validations == OrderValidations(configuration, lines, funds)
        warnings == OrderWarnings(configuration, lines)
    IN [state |-> "calculated", configurationHash |-> sealed.contentHash, lines |-> lines,
        totals |-> totals, funds |-> funds, validations |-> validations, warnings |-> warnings,
        buckets |-> [i \in DOMAIN configuration.buckets |->
                        [key |-> configuration.buckets[i].key,
                         result |-> BucketResult(configuration.buckets[i], lines)]],
        constraints |-> [i \in DOMAIN configuration.constraints |->
                           [key |-> configuration.constraints[i].key,
                            result |-> ConstraintResult(configuration.constraints[i], lines)]],
        verdict |-> Verdict({v.severity : v \in validations}, warnings, totals)]

Rejected(code) == [state |-> "rejected", code |-> code]

CalculateStoreCalcOrder(sealed, request) ==
    IF ~VerifiedConfiguration(sealed) THEN Rejected("configuration")
    ELSE IF ~AcceptedRequest(sealed.body, request) THEN Rejected("request")
    ELSE IF OrderOverflows(sealed.body, SelectedLines(sealed.body, request))
    THEN Rejected("overflow")
    ELSE CalculatedOrder(sealed, request)

=============================================================================
