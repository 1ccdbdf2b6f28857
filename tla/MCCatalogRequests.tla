------------------------- MODULE MCCatalogRequests -------------------------
(* CatalogRequests with two versions of one item, two assignments and two  *)
(* days.                                                                   *)
EXTENDS CatalogRequests

Content(taxRules, items) ==
    [capabilities |-> <<"money", "quantity", "tax">>,
     categories |-> <<>>, items |-> items, buckets |-> <<>>, memberships |-> <<>>,
     taxRules |-> taxRules, constraints |-> <<>>, warnings |-> <<>>,
     evidence |-> <<[key |-> 1]>>]

Item(price) ==
    [key |-> 1, category |-> Null, order |-> 1, priceState |-> "known", price |-> price,
     minimum |-> 1, maximum |-> 2, step |-> 1, availability |-> "available"]

TaxRule ==
    [scope |-> "template", category |-> Null, item |-> Null, state |-> "not_applicable",
     rate |-> Null, inclusive |-> Null, rounding |-> Null, priority |-> 1]

MCRows ==
    [plain |-> Content(<<TaxRule>>, <<Item(3)>>),
     untaxed |-> Content(<<>>, <<Item(3)>>)]

MCContentHash == [content \in Contents |-> content]

MCEffectiveDate == <<None, 2>>

MCSchedules == {[from |-> 1, through |-> 2], [from |-> 3, through |-> None]}

Claim(a, from, through, state) == [assignment |-> a, from |-> from, through |-> through, state |-> state]

MCClaims == {Claim(1, 2, 2, "supported"), Claim(2, 1, 2, "supported")}

MCStatuses == {[template |-> "active", program |-> "active"]}

\* The hypothesis of CatalogProofs!ResolvedCanBeLoadedHolds.
ASSUME MCKeysAssumption == EngineReadsTheKeys

=============================================================================
