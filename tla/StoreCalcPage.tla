---------------------------- MODULE StoreCalcPage ----------------------------
(***************************************************************************)
(* The calculator in the browser, public/js/storecalc-calculator.js, with  *)
(* the anonymous endpoint it calls.  A visitor edits quantities and funds  *)
(* at any time, also while a calculation is under way; the server may be   *)
(* replaced by one with another registry while the page stays open; the    *)
(* rate limiter may refuse and the network may fail.                       *)
(*                                                                         *)
(* A field holds a natural or Text, anything the patterns refuse.          *)
(***************************************************************************)
EXTENDS StoreCalcAnonymous

CONSTANTS
    Catalogs,       \* the lists of catalogs that may be deployed
    Scope,          \* the facility, template and audience of the page
    Today,          \* the context date of the page
    Text,           \* field content that is not a number
    TypedFunds,     \* amounts a visitor may type
    MaxDeploys      \* bound on the deployments

ASSUME CatalogsAssumption ==
    \A catalogs \in Catalogs :
        /\ catalogs \in Seq(ToSet(catalogs))
        /\ \A i \in DOMAIN catalogs : WellFormedEntry(catalogs[i])

VARIABLES
    server,         \* entries of the registry of the running process
    deploys,        \* number of deployments so far
    page,           \* the view model the page was rendered from
    fields,         \* content of the quantity inputs, by item
    funds,          \* content of the funds input, Null when empty
    submitted,      \* the request under way, Null when not busy
    reply,          \* the response on its way back, Null when there is none
    results,        \* the result shown, Null when the region is hidden
    error,          \* the error shown, Null when the region is hidden
    edited          \* history: an input was changed while busy, or since the result

vars == <<server, deploys, page, fields, funds, submitted, reply, results, error, edited>>

-----------------------------------------------------------------------------
(* What the page computes.                                                 *)

ItemsOf(view) == ToSet(view.items)

\* Mutant of PermittedQuantity: the step is not looked at.
StepUnchecked(item, quantity) == item.selectable /\ quantity \in item.minimum..item.maximum

PermittedQuantity(item, quantity) ==
    /\ item.selectable
    /\ quantity \in item.minimum..item.maximum
    /\ (quantity - item.minimum) % item.step = 0

\* normalizeItemInput throws.
InvalidQuantity(item) ==
    \/ fields[item.key] = Text
    \/ fields[item.key] # 0 /\ ~PermittedQuantity(item, fields[item.key])

\* parseMoneyToMinorUnits throws.
InvalidFunds == funds # Null /\ funds \notin 0..MaxMoneyMinor

InputsInvalid == InvalidFunds \/ \E item \in ItemsOf(page) : InvalidQuantity(item)

\* buildCalculationRequest: the items that are not zero, in page order.
BuildCalculationRequest(view, content, amount) ==
    LET selected == Filter(view.items, LAMBDA item : content[item.key] # 0)
    IN [scope |-> view.scope, date |-> view.date, hash |-> view.hash, funds |-> amount,
        quantities |-> [i \in DOMAIN selected |->
                          [item |-> selected[i].key, quantity |-> content[selected[i].key]]]]

CalculationRequest == BuildCalculationRequest(page, fields, funds)

\* nextQuantity with direction 1.
Incremented(item, current) ==
    LET next == IF current \in {0, Text} THEN item.minimum ELSE current + item.step
    IN IF next > item.maximum THEN item.maximum ELSE next

\* nextQuantity with direction -1.
Decremented(item, current) ==
    LET next == IF current = Text \/ current <= item.minimum THEN 0 ELSE current - item.step
    IN IF next < item.minimum THEN 0 ELSE next

\* buildResultMessages takes at most MAX_ITEMS notices of a kind; MAX_ITEMS is
\* maxItems, MaxRows.
FewNotices(result) ==
    /\ Cardinality(result.validations) <= MaxRows
    /\ Cardinality(result.warnings) <= MaxRows

\* normalizeCalculationResponse accepts a result.
UnderstoodResult(result) ==
    /\ result.configurationHash = page.hash
    /\ \A i \in DOMAIN result.lines :
          \E item \in ItemsOf(page) : item.key = result.lines[i].item.key
    /\ FewNotices(result)

-----------------------------------------------------------------------------
(* The page is loaded: mountCalculator with the metadata of the view.      *)

Loaded(view) ==
    /\ page' = view
    /\ fields' = [key \in {item.key : item \in ItemsOf(view)} |-> 0]
    /\ funds' = Null
    /\ submitted' = Null
    /\ reply' = Null
    /\ results' = Null
    /\ error' = Null
    /\ edited' = FALSE

Init ==
    /\ server \in {Registry(catalogs) : catalogs \in Catalogs} \ {Null}
    /\ ResolveEntry(server, Scope, Today) # Null
    /\ deploys = 0
    /\ page = ViewModel(Scope, Today, ResolveEntry(server, Scope, Today))
    /\ fields = [key \in {item.key : item \in ItemsOf(page)} |-> 0]
    /\ funds = Null
    /\ submitted = Null
    /\ reply = Null
    /\ results = Null
    /\ error = Null
    /\ edited = FALSE

Reload ==
    /\ ResolveEntry(server, Scope, Today) # Null
    /\ Loaded(ViewModel(Scope, Today, ResolveEntry(server, Scope, Today)))
    /\ UNCHANGED <<server, deploys>>

Busy == submitted # Null \/ reply # Null

\* Mutant of ResultInvalidated: clearError without invalidateResult.
OnlyErrorCleared ==
    /\ error' = Null
    /\ edited' = Busy
    /\ UNCHANGED results

\* clearError and invalidateResult, which every edit ends with.
ResultInvalidated ==
    /\ results' = Null
    /\ error' = Null
    /\ edited' = Busy

Edit(key, content) ==
    /\ fields' = [fields EXCEPT ![key] = content]
    /\ ResultInvalidated
    /\ UNCHANGED <<server, deploys, page, funds, submitted, reply>>

\* The buttons and the input of an item that is not selectable are disabled.
Increment(item) == item.selectable /\ Edit(item.key, Incremented(item, fields[item.key]))

Decrement(item) == item.selectable /\ Edit(item.key, Decremented(item, fields[item.key]))

TypeQuantity(item, content) == item.selectable /\ Edit(item.key, content)

TypeFunds(content) ==
    /\ funds' = content
    /\ ResultInvalidated
    /\ UNCHANGED <<server, deploys, page, fields, submitted, reply>>

Clear ==
    /\ fields' = [key \in DOMAIN fields |-> 0]
    /\ funds' = Null
    /\ ResultInvalidated
    /\ UNCHANGED <<server, deploys, page, submitted, reply>>

\* showError: the results are hidden and the message is shown.
ErrorShown(code) ==
    /\ results' = Null
    /\ error' = code

SubmitInvalid ==
    /\ ~Busy
    /\ InputsInvalid
    /\ ErrorShown("inputs_invalid")
    /\ UNCHANGED <<server, deploys, page, fields, funds, submitted, reply, edited>>

\* The results of an earlier calculation stay visible meanwhile.
Submit ==
    /\ ~Busy
    /\ ~InputsInvalid
    /\ submitted' = CalculationRequest
    /\ error' = Null
    /\ edited' = FALSE
    /\ UNCHANGED <<server, deploys, page, fields, funds, reply, results>>

-----------------------------------------------------------------------------
(* The server and the network.                                             *)

ServerAnswers ==
    /\ submitted # Null
    /\ reply = Null
    /\ reply' = AnonymousCalculation(server, submitted)
    /\ UNCHANGED <<server, deploys, page, fields, funds, submitted, results, error, edited>>

\* The router answers for the service: its limiter, 30 requests of an address
\* in a minute, and its parser, which takes 128 kB; the length of the keys
\* decides how many items that is.
RouterRefuses(code) ==
    /\ submitted # Null
    /\ reply = Null
    /\ code = "request_body_too_large" => submitted.quantities # <<>>
    /\ reply' = Failure(code)
    /\ UNCHANGED <<server, deploys, page, fields, funds, submitted, results, error, edited>>

NetworkFails ==
    /\ Busy
    /\ submitted' = Null
    /\ reply' = Null
    /\ ErrorShown("CALCULATION_UNAVAILABLE")
    /\ UNCHANGED <<server, deploys, page, fields, funds, edited>>

\* renderResult.
Rendered(result) ==
    /\ results' = [request |-> submitted, result |-> result]
    /\ UNCHANGED error

\* Mutant of ReplyArrives: the handler forgets to reset busy after an error.
BusyKeptAfterError ==
    /\ reply # Null
    /\ IF reply.success /\ UnderstoodResult(reply.result)
       THEN /\ Rendered(reply.result)
            /\ submitted' = Null
            /\ reply' = Null
       ELSE /\ ErrorShown(IF reply.success THEN "CLIENT_RESPONSE_INVALID" ELSE reply.code)
            /\ UNCHANGED <<submitted, reply>>
    /\ UNCHANGED <<server, deploys, page, fields, funds, edited>>

\* The submit handler goes on after the response: renderResult or showError.
ReplyArrives ==
    /\ reply # Null
    /\ IF reply.success /\ UnderstoodResult(reply.result)
       THEN Rendered(reply.result)
       ELSE ErrorShown(IF reply.success THEN "CLIENT_RESPONSE_INVALID" ELSE reply.code)
    /\ submitted' = Null
    /\ reply' = Null
    /\ UNCHANGED <<server, deploys, page, fields, funds, edited>>

\* A new process starts; one whose registry throws does not come up.
Deploy(catalogs) ==
    /\ deploys < MaxDeploys
    /\ Registry(catalogs) # Null
    /\ server' = Registry(catalogs)
    /\ deploys' = deploys + 1
    /\ UNCHANGED <<page, fields, funds, submitted, reply, results, error, edited>>

Next ==
    \/ Reload
    \/ \E item \in ItemsOf(page) :
          \/ Increment(item)
          \/ Decrement(item)
          \/ \E content \in {0, MaxQuantity + 1, Text} : TypeQuantity(item, content)
    \/ \E content \in TypedFunds : TypeFunds(content)
    \/ Clear
    \/ SubmitInvalid
    \/ Submit
    \/ ServerAnswers
    \/ \E code \in {"rate_limited", "request_body_too_large"} : RouterRefuses(code)
    \/ NetworkFails
    \/ ReplyArrives
    \/ \E catalogs \in Catalogs : Deploy(catalogs)

\* The browser runs the handler when the response is there, and reports a
\* failure for a request that stays without one.
Fairness ==
    /\ WF_vars(ReplyArrives)
    /\ WF_vars(reply = Null /\ NetworkFails)

Spec == Init /\ [][Next]_vars /\ Fairness

-----------------------------------------------------------------------------
(* Properties.                                                             *)

\* catalogRegistry.js:181: comparing neighbours after sorting is enough: on
\* no day are two entries of a scope effective, whatever was deployed.
OneEntryIsEffective ==
    \A date \in 0..LastDay : \A scope \in {server[i].scope : i \in DOMAIN server} :
        Cardinality({i \in DOMAIN server : Effective(server[i], scope, date)}) <= 1

\* storecalc-calculator.js:340 and core.js:1014: page and server check
\* quantities separately, and agree.  The server never faults the quantity,
\* the price or the availability of an item the page let through.
PageAndServerAgree ==
    results # Null =>
        \A v \in results.result.validations :
            v.severity = "hard_error" => v.code \notin
                {"below_minimum", "above_maximum", "step_mismatch", "unavailable", "price_not_known"}

\* service.js:238: a request the page builds is refused for what changed on
\* the server or for its size, never as malformed and never as a fault of
\* the server, also when it meets a registry the page does not know.
OnlyExpectedRefusals ==
    reply # Null /\ ~reply.success =>
        /\ reply.code \notin {"invalid_request", "calculation_unavailable"}
        /\ reply.code = "configuration_stale" =>
              ResolveEntry(server, Scope, Today) = Null \/ deploys > 0

\* storecalc-calculator.js:494: the page rejects a result it was sent only
\* for the number of its notices, not because the catalog was replaced.
AnswersAreUnderstood ==
    reply # Null /\ reply.success /\ FewNotices(reply.result) => UnderstoodResult(reply.result)

\* A request meets one configuration at most, and what comes back of it is an
\* answer the page can use, or a reason to reload.
RepliesFit == OneEntryIsEffective /\ OnlyExpectedRefusals /\ AnswersAreUnderstood

\* storecalc-calculator.js:916: whatever comes back, the page can be used to
\* calculate again.
CalculationEnds == Busy ~> ~Busy

\* storecalc-calculator.js:858: "Quantity changed. Calculate again for a
\* current total."  A result that is visible is that of the inputs, unless
\* they were edited while it was calculated: nothing compares them then.
VisibleResultIsCurrent ==
    results # Null /\ ~Busy /\ ~edited => results.request = CalculationRequest

=============================================================================
