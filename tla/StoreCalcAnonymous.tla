------------------------- MODULE StoreCalcAnonymous -------------------------
(***************************************************************************)
(* The anonymous calculation endpoint: the registry of public catalogs     *)
(* (anonymous/catalogRegistry.js), the service (anonymous/service.js) and  *)
(* the view model the page is rendered from (calculatorViewModel.js).      *)
(*                                                                         *)
(* A scope stands for the facility, template and audience keys together,   *)
(* dates are naturals.  An entry of the registry is a record               *)
(*    [scope, from, through, configuration]                                *)
(* whose configuration is a sealed one of StoreCalcCalculation.            *)
(***************************************************************************)
EXTENDS StoreCalcCalculation

CONSTANTS
    MaxCatalogs,    \* MAX_PUBLIC_CALCULATION_CATALOGS
    LastDay         \* "9999-12-31"

ASSUME AnonymousAssumption == {MaxCatalogs, LastDay} \subseteq Nat

-----------------------------------------------------------------------------
(* createPublicCalculationCatalogRegistry.                                 *)

AcceptedEntry(entry) ==
    /\ entry.through # Null => entry.from <= entry.through
    /\ VerifiedConfiguration(entry.configuration)
    /\ entry.configuration.body.capabilities \subseteq EngineCapabilities

\* The keys and dates of an entry, and the fields of the rows of its
\* configuration; of their values nothing is known before AcceptedEntry.
WellFormedEntry(entry) ==
    LET body == entry.configuration.body
    IN /\ entry.scope \in Nat
       /\ entry.from \in 0..LastDay
       /\ entry.through \in (0..LastDay) \union {Null}
       /\ {"capabilities", "items", "buckets", "constraints", "warnings"} \subseteq DOMAIN body
       /\ body.items \in Seq(ToSet(body.items))
       /\ \A i \in DOMAIN body.items :
             /\ {"key", "order", "priceState", "minimum", "maximum", "step", "availability",
                 "memberships", "warnings"} \subseteq DOMAIN body.items[i]
             /\ body.items[i].order \in Nat

EntryPosition(entry) ==
    <<entry.scope, entry.from, IF entry.through = Null THEN LastDay ELSE entry.through>>

\* Mutant of NeighboursDisjoint: an entry may start on the last day of the one before.
LastDayShared(entries) ==
    \A i \in 2..Len(entries) :
        entries[i - 1].scope = entries[i].scope =>
            /\ entries[i - 1].through # Null
            /\ entries[i - 1].through <= entries[i].from

\* validateIntervals: every entry is compared with the one before it.
NeighboursDisjoint(entries) ==
    \A i \in 2..Len(entries) :
        entries[i - 1].scope = entries[i].scope =>
            /\ entries[i - 1].through # Null
            /\ entries[i - 1].through < entries[i].from

\* The registry of a list of catalogs, Null where it throws.
Registry(catalogs) ==
    LET entries == SortOn(catalogs, EntryPosition)
    IN IF /\ Len(catalogs) <= MaxCatalogs
          /\ \A i \in DOMAIN catalogs : AcceptedEntry(catalogs[i])
          /\ NeighboursDisjoint(entries)
       THEN entries
       ELSE Null

Effective(entry, scope, date) ==
    /\ entry.scope = scope
    /\ entry.from <= date
    /\ entry.through = Null \/ date <= entry.through

\* registry.resolve: the first effective entry, Null when unavailable.
ResolveEntry(entries, scope, date) ==
    LET effective == Filter(entries, LAMBDA entry : Effective(entry, scope, date))
    IN IF effective = <<>> THEN Null ELSE effective[1].configuration

-----------------------------------------------------------------------------
(* createAnonymousCalculationService.                                      *)

\* normalizeRequest.
WellFormedRequest(request) ==
    /\ Len(request.quantities) <= MaxRows
    /\ \A i \in DOMAIN request.quantities :
          /\ IsRuleKey(request.quantities[i].item)
          /\ request.quantities[i].quantity \in 0..MaxQuantity
    /\ UniqueOn(request.quantities, LAMBDA entry : entry.item)
    /\ request.funds \in (0..MaxMoneyMinor) \union {Null}

\* isClientCalculationError: the engine's refusals that are the client's.
\* The capabilities the service passes are all the engine has, so that of
\* "request" only the quantities remain.
ClientCalculationError(code) == code \in {"request", "overflow"}

Failure(code) == [success |-> FALSE, code |-> code]

\* Mutant of AnonymousCalculation: any hash of the client is accepted.
HashUnchecked(entries, request) ==
    LET configuration == ResolveEntry(entries, request.scope, request.date)
        order == CalculateStoreCalcOrder(configuration,
                    [quantities |-> request.quantities, funds |-> request.funds,
                     capabilities |-> EngineCapabilities])
    IN IF ~WellFormedRequest(request) THEN Failure("invalid_request")
       ELSE IF configuration = Null THEN Failure("catalog_unavailable")
       ELSE IF order.state = "calculated" THEN [success |-> TRUE, result |-> order]
       ELSE Failure("calculation_request_invalid")

\* service.calculate.
AnonymousCalculation(entries, request) ==
    LET configuration == ResolveEntry(entries, request.scope, request.date)
        order == CalculateStoreCalcOrder(configuration,
                    [quantities |-> request.quantities, funds |-> request.funds,
                     capabilities |-> EngineCapabilities])
    IN IF ~WellFormedRequest(request) THEN Failure("invalid_request")
       ELSE IF configuration = Null THEN Failure("catalog_unavailable")
       ELSE IF configuration.contentHash # request.hash THEN Failure("configuration_stale")
       ELSE IF order.state = "calculated" THEN [success |-> TRUE, result |-> order]
       ELSE IF ClientCalculationError(order.code) THEN Failure("calculation_request_invalid")
       ELSE Failure("calculation_unavailable")

-----------------------------------------------------------------------------
(* buildStoreCalcCalculatorViewModel.                                      *)

ViewItem(item) ==
    [key |-> item.key, minimum |-> item.minimum, maximum |-> item.maximum, step |-> item.step,
     selectable |-> item.priceState = "known" /\ item.availability # "unavailable"]

\* configuration is one the registry resolved, and so is verified.
ViewModel(scope, date, configuration) ==
    [scope |-> scope, date |-> date, hash |-> configuration.contentHash,
     items |-> [i \in DOMAIN configuration.body.items |-> ViewItem(configuration.body.items[i])]]

=============================================================================
