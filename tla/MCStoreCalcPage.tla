--------------------------- MODULE MCStoreCalcPage ---------------------------
(* StoreCalcPage with two items and registries of at most two entries.     *)
EXTENDS StoreCalcPage

Tax(state, rate, inclusive, rounding) ==
    [state |-> state, rate |-> rate, inclusive |-> inclusive, rounding |-> rounding]

Item(key, price, maximum, step, availability, tax) ==
    [key |-> key, order |-> 1, priceState |-> IF price = Null THEN "unknown" ELSE "known",
     price |-> price, minimum |-> 1, maximum |-> maximum, step |-> step,
     availability |-> availability, tax |-> tax, memberships |-> <<>>, warnings |-> <<>>]

Sealed(items) ==
    SealResolvedConfiguration(
        [capabilities |-> {"money", "quantity", "tax"}, items |-> items,
         buckets |-> <<>>, constraints |-> <<>>, warnings |-> <<>>])

Known == Tax("known", 3, FALSE, "half_up")

Unknown == Tax("unknown", Null, Null, Null)

A == Sealed(<<Item(1, 3, 3, 2, "available", Known), Item(2, 8, 2, 1, "unknown", Unknown)>>)

B == Sealed(<<Item(2, 4, 3, 1, "available", Known), Item(3, Null, 2, 1, "available", Known)>>)

Entry(scope, from, through, configuration) ==
    [scope |-> scope, from |-> from, through |-> through, configuration |-> configuration]

MCCatalogs ==
    {<<Entry(1, 0, Null, A)>>,
     <<Entry(1, 3, 4, A), Entry(1, 1, 2, B)>>,
     <<Entry(1, 2, 3, A), Entry(1, 0, 2, B)>>,
     <<Entry(2, 0, Null, B)>>}

MCTypedFunds == {Null, 4, Text}

=============================================================================
