-------------------------- MODULE MCStoreCalcOrder --------------------------
(* StoreCalcOrder on drafts of two items, one bucket and one constraint.   *)
EXTENDS StoreCalcOrder

Key(k) == [key |-> k]

Item(key, category, price, step, availability) ==
    [key |-> key, category |-> category, order |-> 5 - key,
     priceState |-> IF price = Null THEN "unknown" ELSE "known", price |-> price,
     minimum |-> 1, maximum |-> 3, step |-> step, availability |-> availability]

KnownTaxRule(scope, category, item, rate, inclusive, rounding, priority) ==
    [scope |-> scope, category |-> category, item |-> item, state |-> "known",
     rate |-> rate, inclusive |-> inclusive, rounding |-> rounding, priority |-> priority]

OpenTaxRule(scope, category, item, state) ==
    [scope |-> scope, category |-> category, item |-> item, state |-> state,
     rate |-> Null, inclusive |-> Null, rounding |-> Null, priority |-> 1]

Warning(scope, item, severity) ==
    [scope |-> scope, category |-> Null, item |-> item, code |-> 1, severity |-> severity]

Base ==
    [capabilities |-> <<"money", "quantity", "tax", "buckets", "constraints">>,
     categories |-> <<Key(1)>>,
     items |-> <<Item(1, Null, 5, 1, "available"), Item(2, 1, 7, 2, "available")>>,
     buckets |-> <<[key |-> 1, order |-> 1, limitState |-> "known", limit |-> 15, primary |-> TRUE]>>,
     memberships |-> <<[item |-> 1, bucket |-> 1, type |-> "counts_toward", primary |-> TRUE],
                       [item |-> 2, bucket |-> 1, type |-> "counts_toward", primary |-> FALSE]>>,
     taxRules |-> <<KnownTaxRule("template", Null, Null, 3, FALSE, "half_up", 1)>>,
     constraints |-> <<[key |-> 1, priority |-> 1, measure |-> "total_quantity",
                        comparator |-> "at_most", limitState |-> "known", limit |-> 3]>>,
     warnings |-> <<>>,
     evidence |-> <<Key(1)>>]

ItemRows ==
    {<<Item(1, Null, 5, 1, "available"), Item(2, 1, 7, 2, "available")>>,
     <<Item(2, 1, Null, 1, "available"), Item(1, 1, 9, 1, "unknown")>>,
     <<[Item(1, 1, 3, 1, "available") EXCEPT !.maximum = 2, !.minimum = 3], Item(2, 1, 1, 1, "unavailable")>>,
     <<Item(1, Null, 5, 1, "available"), Item(2, 2, 7, 1, "available")>>,
     <<Item(9, 1, 4, 1, "available")>>}

TaxRows ==
    {<<KnownTaxRule("template", Null, Null, rate, inclusive, rounding, 1)>> :
        rate \in {3, 10}, inclusive \in BOOLEAN, rounding \in {"half_up", "floor", "ceiling"}}
    \union
    {<<>>,
     <<KnownTaxRule("item", Null, 1, 5, TRUE, "floor", 1),
       KnownTaxRule("category", 1, Null, 1, FALSE, "ceiling", 1)>>,
     <<KnownTaxRule("category", 1, Null, 2, TRUE, "half_up", 1),
       KnownTaxRule("category", 1, Null, 9, FALSE, "half_up", 2),
       OpenTaxRule("item", Null, 2, "unknown")>>,
     <<KnownTaxRule("category", 2, Null, 1, FALSE, "ceiling", 1),
       OpenTaxRule("template", Null, Null, "not_applicable")>>,
     <<OpenTaxRule("template", Null, Null, "unsupported")>>,
     <<OpenTaxRule("template", Null, Null, "unknown"), OpenTaxRule("template", Null, Null, "unknown")>>}

MembershipRows ==
    {<<[item |-> 2, bucket |-> 1, type |-> "counts_toward", primary |-> TRUE],
       [item |-> 1, bucket |-> 1, type |-> "counts_toward", primary |-> FALSE]>>,
     <<[item |-> 1, bucket |-> 1, type |-> "excluded", primary |-> TRUE]>>}

WarningRows ==
    {<<Warning("item", 1, "warning"), Warning("template", Null, "informational")>>,
     <<Warning("template", Null, "warning")>>}

LimitRows ==
    {<<[key |-> 1, priority |-> 1, measure |-> "distinct_line_count",
        comparator |-> "at_least", limitState |-> state[1], limit |-> state[2]]>> :
        state \in {<<"known", 2>>, <<"unknown", Null>>}}

MCFunds == {Null, 21}

MCDrafts ==
    {[Base EXCEPT !.items = items, !.taxRules = taxes] : items \in ItemRows, taxes \in TaxRows}
    \union {[Base EXCEPT !.memberships = rows] : rows \in MembershipRows}
    \union {[Base EXCEPT !.warnings = rows] : rows \in WarningRows}
    \union {[Base EXCEPT !.constraints = rows] : rows \in LimitRows}
    \union {[Base EXCEPT !.capabilities = <<"tax", "buckets", "constraints", "quantity", "money", "x">>]}
    \union {[Base EXCEPT !.capabilities = <<"quantity", "money">>]}
    \union {[Base EXCEPT !.buckets[1].limitState = "unlimited", !.buckets[1].limit = Null]}

=============================================================================
