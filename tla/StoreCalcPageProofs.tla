-------------------------- MODULE StoreCalcPageProofs --------------------------
(***************************************************************************)
(* Theorems about StoreCalcPage, for every registry, every sequence of     *)
(* edits and deployments and every bound.                                  *)
(***************************************************************************)
EXTENDS StoreCalcPage, StoreCalcContentProofs

\* null is no object of the program: neither a request nor a response.
NullIsNoObject ==
    /\ \A scope, date, hash, amount, quantities :
          [scope |-> scope, date |-> date, hash |-> hash, funds |-> amount,
           quantities |-> quantities] # Null
    /\ \A code : [success |-> FALSE, code |-> code] # Null
    /\ \A result : [success |-> TRUE, result |-> result] # Null

-----------------------------------------------------------------------------
(* The result that is visible.  While a request is under way what counts   *)
(* is not the result on the page, it is the request that will replace it.  *)

RequestIsCurrent == submitted # Null /\ ~edited => submitted = CalculationRequest

ResultFollowsRequest ==
    /\ reply # Null => submitted # Null
    /\ RequestIsCurrent
    /\ VisibleResultIsCurrent

LEMMA ResultFollowsRequestStep ==
    ASSUME NullIsNoObject, ResultFollowsRequest, [Next]_vars
    PROVE  ResultFollowsRequest'
<1> USE DEF ResultFollowsRequest, RequestIsCurrent, VisibleResultIsCurrent, Busy
<1>1. CASE Reload
    BY <1>1 DEF Reload, Loaded
<1>2. CASE Clear
    BY <1>2 DEF Clear, ResultInvalidated
<1>3. CASE SubmitInvalid
    BY <1>3 DEF SubmitInvalid, ErrorShown
<1>4. CASE Submit
  <2>1. CalculationRequest' = CalculationRequest
    BY <1>4 DEF Submit, CalculationRequest
  <2>2. CalculationRequest # Null
    BY DEF NullIsNoObject, CalculationRequest, BuildCalculationRequest
  <2> QED BY <1>4, <2>1, <2>2 DEF Submit
<1>5. CASE ServerAnswers \/ (\E code \in {"rate_limited", "request_body_too_large"} : RouterRefuses(code))
  <2>1. CalculationRequest' = CalculationRequest
    BY <1>5 DEF ServerAnswers, RouterRefuses, CalculationRequest
  <2> QED BY <1>5, <2>1 DEF ServerAnswers, RouterRefuses
<1>6. CASE NetworkFails
    BY <1>6 DEF NetworkFails, ErrorShown
<1>7. CASE ReplyArrives
  <2>1. CalculationRequest' = CalculationRequest
    BY <1>7 DEF ReplyArrives, CalculationRequest
  <2>2. CASE reply.success /\ UnderstoodResult(reply.result)
    BY <1>7, <2>1, <2>2 DEF ReplyArrives, Rendered
  <2>3. CASE ~(reply.success /\ UnderstoodResult(reply.result))
    BY <1>7, <2>3 DEF ReplyArrives, ErrorShown
  <2> QED BY <2>2, <2>3
<1>8. CASE \E catalogs \in Catalogs : Deploy(catalogs)
  <2>1. CalculationRequest' = CalculationRequest
    BY <1>8 DEF Deploy, CalculationRequest
  <2> QED BY <1>8, <2>1 DEF Deploy
<1>9. CASE \/ \E content \in TypedFunds : TypeFunds(content)
           \/ \E item \in ItemsOf(page) :
                 \/ Increment(item) \/ Decrement(item)
                 \/ \E content \in {0, MaxQuantity + 1, Text} : TypeQuantity(item, content)
  <2>1. ResultInvalidated /\ UNCHANGED <<submitted, reply>>
    BY <1>9 DEF TypeFunds, Increment, Decrement, TypeQuantity, Edit
  <2> QED BY <2>1 DEF ResultInvalidated
<1>10. CASE UNCHANGED vars
  <2>1. CalculationRequest' = CalculationRequest
    BY <1>10 DEF vars, CalculationRequest
  <2> QED BY <1>10, <2>1 DEF vars
<1> QED BY <1>1, <1>2, <1>3, <1>4, <1>5, <1>6, <1>7, <1>8, <1>9, <1>10 DEF Next

\* A result that is visible is that of the inputs, unless they were edited
\* while it was calculated, whatever is deployed, refused or lost meanwhile.
THEOREM VisibleResultIsCurrentHolds ==
    ASSUME NullIsNoObject
    PROVE  Spec => []VisibleResultIsCurrent
<1>1. Init => ResultFollowsRequest
    BY DEF Init, ResultFollowsRequest, RequestIsCurrent, VisibleResultIsCurrent
<1>2. ResultFollowsRequest /\ [Next]_vars => ResultFollowsRequest'
    BY ResultFollowsRequestStep
<1>3. ResultFollowsRequest => VisibleResultIsCurrent
    BY DEF ResultFollowsRequest
<1> QED BY <1>1, <1>2, <1>3, PTL DEF Spec

-----------------------------------------------------------------------------
(* The registry.                                                           *)

RegistryOf(catalogs) == /\ catalogs \in Catalogs
                        /\ Registry(catalogs) # Null

\* An entry of a registry that came up.
EntryInUse(entry) == WellFormedEntry(entry) /\ AcceptedEntry(entry)

\* The entries are those of the list, in the order of their scope and days.
InDayOrder(entries) ==
    \A j, k \in DOMAIN entries : j < k =>
        \/ entries[j].scope < entries[k].scope
        \/ entries[j].scope = entries[k].scope /\ entries[j].from <= entries[k].from

LEMMA EntryPositionType ==
    ASSUME NEW entry, WellFormedEntry(entry)
    PROVE  EntryPosition(entry) \in [1..3 -> Int]
<1>1. /\ entry.scope \in Int
      /\ entry.from \in Int
      /\ (IF entry.through = Null THEN LastDay ELSE entry.through) \in Int
  BY AnonymousAssumption DEF WellFormedEntry
<1> HIDE DEF WellFormedEntry
<1> QED BY <1>1, Parts DEF EntryPosition

LEMMA EntryPositionLess ==
    ASSUME NEW one, NEW other, LexLess(EntryPosition(one), EntryPosition(other))
    PROVE  one.scope < other.scope \/ (one.scope = other.scope /\ one.from < other.from)
             \/ (one.scope = other.scope /\ one.from = other.from)
<1> DEFINE last(entry) == IF entry.through = Null THEN LastDay ELSE entry.through
<1>1. LexLess(<<one.scope, one.from, last(one)>>, <<other.scope, other.from, last(other)>>)
  BY DEF EntryPosition
<1> HIDE DEF last
<1> QED BY <1>1, LexLessOfParts

LEMMA RegistryIsSorted ==
    ASSUME NEW catalogs, RegistryOf(catalogs)
    PROVE  /\ IsSequence(Registry(catalogs))
           /\ \A i \in DOMAIN Registry(catalogs) : EntryInUse(Registry(catalogs)[i])
           /\ InDayOrder(Registry(catalogs))
           /\ NeighboursDisjoint(Registry(catalogs))
<1> DEFINE n == Len(catalogs)
           keys == [i \in DOMAIN catalogs |-> EntryPosition(catalogs[i])]
           q == InOrder(DOMAIN catalogs, KeyOrder(keys))
           entries == Registry(catalogs)
<1>1. IsSequence(catalogs) /\ \A i \in DOMAIN catalogs : WellFormedEntry(catalogs[i])
  BY CatalogsAssumption DEF RegistryOf, IsSequence
<1>2. n \in Nat /\ DOMAIN catalogs = 1..n
  BY <1>1, SequenceShape
<1>3. keys \in [DOMAIN catalogs -> [1..3 -> Int]]
  BY <1>1, EntryPositionType
<1>4. Sorts(q, n, keys) /\ DOMAIN q = DOMAIN catalogs
  <2> HIDE DEF keys
  <2> QED BY <1>1, <1>3, SortedRows
<1>5. /\ entries = [k \in DOMAIN catalogs |-> catalogs[q[k]]]
      /\ \A i \in DOMAIN catalogs : AcceptedEntry(catalogs[i])
      /\ NeighboursDisjoint(entries)
  BY DEF RegistryOf, Registry, SortOn
<1> HIDE DEF q, entries
<1>6. entries = At(catalogs, q)
  BY <1>4, <1>5 DEF At
<1>7. IsSequence(entries) /\ DOMAIN entries = 1..n
  BY <1>2, <1>4, <1>6, AtIsSequence
<1>8. ASSUME NEW k \in 1..n
      PROVE  q[k] \in 1..n /\ entries[k] = catalogs[q[k]]
  BY <1>2, <1>4, <1>5 DEF Sorts
<1>9. \A i \in DOMAIN entries : EntryInUse(entries[i])
  BY <1>1, <1>2, <1>5, <1>7, <1>8 DEF EntryInUse
<1>10. InDayOrder(entries)
  <2> SUFFICES ASSUME NEW j \in 1..n, NEW k \in 1..n, j < k
               PROVE  \/ entries[j].scope < entries[k].scope
                      \/ entries[j].scope = entries[k].scope /\ entries[j].from <= entries[k].from
    BY <1>7 DEF InDayOrder
  <2>1. LexLess(keys[q[j]], keys[q[k]]) \/ keys[q[j]] = keys[q[k]]
    BY <1>4 DEF Sorts
  <2>2. /\ keys[q[j]] = EntryPosition(entries[j])
        /\ keys[q[k]] = EntryPosition(entries[k])
    BY <1>2, <1>8
  <2>3. entries[j].from \in Int /\ entries[k].from \in Int
    BY <1>7, <1>9, AnonymousAssumption DEF EntryInUse, WellFormedEntry
  <2>4. CASE keys[q[j]] = keys[q[k]]
    <3>1. EntryPosition(entries[j])[1] = EntryPosition(entries[k])[1]
          /\ EntryPosition(entries[j])[2] = EntryPosition(entries[k])[2]
      BY <2>2, <2>4
    <3> QED BY <2>3, <3>1 DEF EntryPosition
  <2>5. CASE LexLess(keys[q[j]], keys[q[k]])
    <3>1. LexLess(EntryPosition(entries[j]), EntryPosition(entries[k]))
      BY <2>2, <2>5
    <3>2. \/ entries[j].scope < entries[k].scope
          \/ entries[j].scope = entries[k].scope /\ entries[j].from < entries[k].from
          \/ entries[j].scope = entries[k].scope /\ entries[j].from = entries[k].from
      BY <3>1, EntryPositionLess
    <3> QED BY <2>3, <3>2
  <2> QED BY <2>1, <2>4, <2>5
<1> QED BY <1>5, <1>7, <1>9, <1>10 DEF entries

\* Entries of a scope are apart, neighbours or not.
LEMMA EntriesApart ==
    ASSUME NEW entries, IsSequence(entries), \A i \in DOMAIN entries : EntryInUse(entries[i]),
           InDayOrder(entries), NeighboursDisjoint(entries),
           NEW j \in DOMAIN entries, NEW k \in DOMAIN entries, j < k,
           entries[j].scope = entries[k].scope
    PROVE  entries[j].through # Null /\ entries[j].through < entries[k].from
<1>1. Len(entries) \in Nat /\ DOMAIN entries = 1..Len(entries)
  BY SequenceShape
<1>2. PICK next \in DOMAIN entries : next = j + 1 /\ next \in 2..Len(entries) /\ next <= k
  BY <1>1
<1>3. ASSUME NEW i \in DOMAIN entries
      PROVE  /\ entries[i].scope \in Int
             /\ entries[i].from \in Int
             /\ entries[i].through # Null => entries[i].through \in Int
  BY AnonymousAssumption DEF EntryInUse, WellFormedEntry
<1>4. \/ entries[j].scope < entries[next].scope
      \/ entries[j].scope = entries[next].scope
  BY <1>1, <1>2 DEF InDayOrder
<1>5. entries[next].scope = entries[k].scope /\ entries[next].from <= entries[k].from
  <2>1. CASE next = k
    <3>1. entries[k].from \in Int
      BY <1>3
    <3> QED BY <2>1, <3>1
  <2>2. CASE next < k
    <3>1. \/ entries[next].scope < entries[k].scope
          \/ entries[next].scope = entries[k].scope /\ entries[next].from <= entries[k].from
      BY <1>2, <2>2 DEF InDayOrder
    <3>2. entries[next].scope \in Int
      BY <1>3
    <3>3. entries[k].scope \in Int
      BY <1>3
    <3> QED BY <1>4, <3>1, <3>2, <3>3
  <2> QED BY <1>1, <1>2, <2>1, <2>2
<1>6. entries[j].through # Null /\ entries[j].through < entries[next].from
  <2>1. next - 1 = j
    BY <1>1, <1>2
  <2> QED BY <1>2, <1>5, <2>1 DEF NeighboursDisjoint
<1>7. entries[j].through \in Int
  BY <1>3, <1>6
<1>8. entries[next].from \in Int
  BY <1>3
<1>9. entries[k].from \in Int
  BY <1>3
<1> QED BY <1>5, <1>6, <1>7, <1>8, <1>9

LEMMA OneEntry ==
    ASSUME NEW catalogs, RegistryOf(catalogs), NEW scope, NEW date \in Int,
           NEW j \in DOMAIN Registry(catalogs), NEW k \in DOMAIN Registry(catalogs),
           Effective(Registry(catalogs)[j], scope, date),
           Effective(Registry(catalogs)[k], scope, date)
    PROVE  ~(j < k)
<1>1. PICK one, other : one = Registry(catalogs)[j] /\ other = Registry(catalogs)[k]
  OBVIOUS
<1>2. /\ IsSequence(Registry(catalogs))
      /\ \A i \in DOMAIN Registry(catalogs) : EntryInUse(Registry(catalogs)[i])
      /\ InDayOrder(Registry(catalogs))
      /\ NeighboursDisjoint(Registry(catalogs))
  BY RegistryIsSorted
<1>3. /\ one.scope = scope /\ other.scope = scope
      /\ other.from <= date
      /\ one.through = Null \/ date <= one.through
  BY <1>1 DEF Effective
<1>4. EntryInUse(one) /\ EntryInUse(other)
  BY <1>1, <1>2
<1>5. /\ other.from \in Int
      /\ one.through # Null => one.through \in Int
  BY <1>4, AnonymousAssumption DEF EntryInUse, WellFormedEntry
<1>6. j < k => one.through # Null /\ one.through < other.from
  BY <1>1, <1>2, <1>3, EntriesApart
<1> QED BY <1>3, <1>5, <1>6

\* What the registry resolves is the configuration of an entry in use.
LEMMA ResolvedIsInUse ==
    ASSUME NEW catalogs, RegistryOf(catalogs), NEW scope, NEW date,
           ResolveEntry(Registry(catalogs), scope, date) # Null
    PROVE  \E i \in DOMAIN Registry(catalogs) :
              /\ EntryInUse(Registry(catalogs)[i])
              /\ ResolveEntry(Registry(catalogs), scope, date) = Registry(catalogs)[i].configuration
<1> DEFINE entries == Registry(catalogs)
           passing == {i \in DOMAIN entries : Effective(entries[i], scope, date)}
           q == InOrder(passing, Upward(passing))
           effective == [k \in DOMAIN q |-> entries[q[k]]]
<1>1. IsSequence(entries) /\ \A i \in DOMAIN entries : EntryInUse(entries[i])
  BY RegistryIsSorted
<1>2. /\ Climbs(q, passing)
      /\ Cardinality(passing) \in Nat
      /\ DOMAIN q = 1..Cardinality(passing)
  <2>1. Len(entries) \in Nat /\ passing \in SUBSET DOMAIN entries
    BY <1>1, SequenceShape
  <2> HIDE DEF passing, entries
  <2> QED BY <1>1, <2>1, FilteredRows
<1>3. ResolveEntry(entries, scope, date) =
        IF effective = <<>> THEN Null ELSE effective[1].configuration
  BY DEF ResolveEntry, Filter, Upward
<1> HIDE DEF q, entries
<1>4. effective # <<>>
  BY <1>3 DEF entries
<1>5. 1 \in DOMAIN q
  <2>1. DOMAIN effective = DOMAIN q
    OBVIOUS
  <2>2. DOMAIN q # {}
    <3> SUFFICES ASSUME DOMAIN q = {}  PROVE FALSE
      OBVIOUS
    <3>1. effective = <<>>
      OBVIOUS
    <3> QED BY <1>4, <3>1
  <2> QED BY <1>2, <2>2
<1>6. q[1] \in passing
  BY <1>2, <1>5 DEF Climbs
<1>7. ResolveEntry(entries, scope, date) = entries[q[1]].configuration
  BY <1>3, <1>4, <1>5
<1> QED BY <1>1, <1>6, <1>7 DEF entries

THEOREM OneEntryIsEffectiveInEachRegistry ==
    ASSUME NEW catalogs, RegistryOf(catalogs), NEW scope, NEW date \in Int
    PROVE  Cardinality({i \in DOMAIN Registry(catalogs) :
                           Effective(Registry(catalogs)[i], scope, date)}) <= 1
<1> DEFINE found == {i \in DOMAIN Registry(catalogs) : Effective(Registry(catalogs)[i], scope, date)}
<1>1. DOMAIN Registry(catalogs) \in SUBSET Int
  <2>1. IsSequence(Registry(catalogs))
    BY RegistryIsSorted
  <2> QED BY <2>1, SequenceShape
<1>2. \A j, k \in found : j = k
  <2> SUFFICES ASSUME NEW j \in found, NEW k \in found  PROVE j = k
    OBVIOUS
  <2>1. ~(j < k) /\ ~(k < j)
    BY OneEntry
  <2>2. j \in Int /\ k \in Int
    BY <1>1
  <2> QED BY <2>1, <2>2
<1> HIDE DEF found
<1>3. ASSUME found = {}  PROVE Cardinality(found) <= 1
  <2>1. Cardinality(found) = 0
    BY <1>3, FS_EmptySet, Zenon
  <2> QED BY <2>1
<1>4. ASSUME found # {}  PROVE Cardinality(found) <= 1
  <2>1. PICK i : found = {i}
    BY <1>2, <1>4
  <2>2. Cardinality(found) = 1
    BY <2>1, FS_Singleton, Zenon
  <2> QED BY <2>2
<1> QED BY <1>3, <1>4 DEF found

-----------------------------------------------------------------------------
(* Configurations.                                                         *)

\* What is used of an item that was accepted.
SoundItem(item) ==
    /\ IsRuleKey(item.key)
    /\ item.order \in Int
    /\ {item.minimum, item.maximum, item.step} \subseteq 1..MaxQuantity
    /\ {"key", "order", "priceState", "minimum", "maximum", "step", "availability"}
         \subseteq DOMAIN item

\* What is used of a configuration in use.
Sound(configuration) ==
    LET items == configuration.body.items
    IN /\ VerifiedConfiguration(configuration)
       /\ "items" \in DOMAIN configuration.body
       /\ IsSequence(items)
       /\ Len(items) <= MaxRows
       /\ \A i \in DOMAIN items : SoundItem(items[i])
       /\ \A i, j \in DOMAIN items : items[i].key = items[j].key => i = j

LEMMA InUseIsSound ==
    ASSUME NEW entry, EntryInUse(entry)
    PROVE  Sound(entry.configuration)
<1> DEFINE body == entry.configuration.body
<1>1. /\ VerifiedConfiguration(entry.configuration)
      /\ AcceptedConfiguration(body)
  BY DEF EntryInUse, AcceptedEntry, VerifiedConfiguration
<1>2. /\ "items" \in DOMAIN body
      /\ IsSequence(body.items)
      /\ \A i \in DOMAIN body.items :
            /\ {"key", "order", "priceState", "minimum", "maximum", "step", "availability"}
                 \subseteq DOMAIN body.items[i]
            /\ body.items[i].order \in Int
  BY DEF EntryInUse, WellFormedEntry, IsSequence
<1>3. /\ Len(body.items) <= MaxRows
      /\ \A i \in DOMAIN body.items : AcceptedItem(body.items[i])
      /\ UniqueOn(body.items, KeyOf)
  BY <1>1, CalculationAssumption DEF AcceptedConfiguration
<1>4. \A i, j \in DOMAIN body.items : body.items[i].key = body.items[j].key => i = j
  BY <1>3 DEF UniqueOn, KeyOf
<1>5. ASSUME NEW i \in DOMAIN body.items
      PROVE  SoundItem(body.items[i])
  <2>1. PICK item : item = body.items[i]
    OBVIOUS
  <2>2. /\ {"key", "order", "priceState", "minimum", "maximum", "step", "availability"}
             \subseteq DOMAIN item
        /\ item.order \in Int
    BY <1>2, <2>1
  <2>3. /\ IsRuleKey(item.key)
        /\ {item.minimum, item.maximum, item.step} \subseteq 1..MaxQuantity
    BY <1>3, <2>1 DEF AcceptedItem
  <2> QED BY <2>1, <2>2, <2>3 DEF SoundItem
<1> QED BY <1>1, <1>2, <1>3, <1>4, <1>5 DEF Sound

LEMMA CanonicalItemKeeps ==
    ASSUME NEW item, SoundItem(item)
    PROVE  /\ CanonicalItem(item).key = item.key
           /\ CanonicalItem(item).order = item.order
           /\ CanonicalItem(item).priceState = item.priceState
           /\ CanonicalItem(item).minimum = item.minimum
           /\ CanonicalItem(item).maximum = item.maximum
           /\ CanonicalItem(item).step = item.step
           /\ CanonicalItem(item).availability = item.availability
BY DEF SoundItem, CanonicalItem

\* The items of a canonical configuration are those of the configuration.
LEMMA CanonicalItems ==
    ASSUME NEW configuration, Sound(configuration)
    PROVE  LET items == configuration.body.items
               canonical == CanonicalConfiguration(configuration.body).items
           IN /\ IsSequence(canonical)
              /\ \A k \in DOMAIN canonical :
                    \E i \in DOMAIN items : canonical[k] = CanonicalItem(items[i])
<1> DEFINE items == configuration.body.items
           each == [i \in DOMAIN items |-> CanonicalItem(items[i])]
           keys == [i \in DOMAIN each |-> PositionOf(each[i])]
           q == InOrder(DOMAIN each, KeyOrder(keys))
           canonical == CanonicalConfiguration(configuration.body).items
<1>1. Len(items) \in Nat /\ DOMAIN items = 1..Len(items)
  BY SequenceShape DEF Sound
<1>2. IsSequence(each) /\ DOMAIN each = DOMAIN items
  BY <1>1 DEF IsSequence, ToSet
<1>3. keys \in [DOMAIN each -> [1..2 -> Int]]
  <2> SUFFICES ASSUME NEW i \in DOMAIN items  PROVE PositionOf(each[i]) \in [1..2 -> Int]
    BY <1>2
  <2>1. SoundItem(items[i])
    BY DEF Sound
  <2>2. each[i].order \in Int /\ each[i].key \in Int
    BY <2>1, CanonicalItemKeeps DEF SoundItem, IsRuleKey
  <2> HIDE DEF each
  <2> QED BY <2>2, Parts DEF PositionOf
<1>4. canonical = SortOn(each, PositionOf)
  <2>1. "items" \in DOMAIN configuration.body
    BY DEF Sound
  <2> QED BY <2>1 DEF CanonicalConfiguration
<1>5. canonical = [k \in DOMAIN each |-> each[q[k]]]
  BY <1>4 DEF SortOn
<1> HIDE DEF canonical, keys, each
<1>6. Sorts(q, Len(each), keys) /\ DOMAIN q = DOMAIN each
  BY <1>2, <1>3, SortedRows
<1>7. Len(each) \in Nat /\ DOMAIN each = 1..Len(each)
  BY <1>2, SequenceShape
<1> HIDE DEF q
<1>8. canonical = At(each, q)
  BY <1>5, <1>6 DEF At
<1>9. IsSequence(canonical) /\ DOMAIN canonical = 1..Len(each)
  BY <1>6, <1>7, <1>8, AtIsSequence
<1>10. ASSUME NEW k \in DOMAIN canonical
       PROVE  \E i \in DOMAIN items : canonical[k] = CanonicalItem(items[i])
  <2>1. q[k] \in DOMAIN items /\ canonical[k] = each[q[k]]
    BY <1>2, <1>5, <1>6, <1>7, <1>9 DEF Sorts
  <2> QED BY <2>1 DEF each
<1> QED BY <1>9, <1>10 DEF canonical

-----------------------------------------------------------------------------
(* The request of the page.                                                *)

\* What the page lets through.
PermittedRequest(view, request) ==
    /\ request.scope = view.scope
    /\ request.date = view.date
    /\ request.hash = view.hash
    /\ WellFormedRequest(request)
    /\ \A i \in DOMAIN request.quantities :
          \E item \in ItemsOf(view) :
             /\ item.key = request.quantities[i].item
             /\ PermittedQuantity(item, request.quantities[i].quantity)

LEMMA SubmittedIsPermitted ==
    ASSUME NEW configuration, Sound(configuration),
           page = ViewModel(Scope, Today, configuration), ~InputsInvalid
    PROVE  PermittedRequest(page, CalculationRequest)
<1> DEFINE items == configuration.body.items
           shown == [i \in DOMAIN items |-> ViewItem(items[i])]
           chosen == {i \in DOMAIN shown : fields[shown[i].key] # 0}
           q == InOrder(chosen, Upward(chosen))
           asked == [i \in DOMAIN shown |-> [item |-> shown[i].key, quantity |-> fields[shown[i].key]]]
           quantities == CalculationRequest.quantities
<1>1. Len(items) \in Nat /\ DOMAIN items = 1..Len(items) /\ Len(items) <= MaxRows
  BY SequenceShape DEF Sound
<1>2. IsSequence(shown) /\ DOMAIN shown = DOMAIN items /\ Len(shown) = Len(items)
  BY <1>1 DEF IsSequence, ToSet
<1>3. page.items = shown
  BY DEF ViewModel
<1>4. /\ Climbs(q, chosen)
      /\ Cardinality(chosen) \in 0..Len(items)
      /\ DOMAIN q = 1..Cardinality(chosen)
  <2>1. chosen \in SUBSET DOMAIN shown
    OBVIOUS
  <2> HIDE DEF chosen, shown
  <2> QED BY <1>2, <2>1, FilteredRows
<1>5. quantities = At(asked, q)
  <2>1. Filter(page.items, LAMBDA item : fields[item.key] # 0) = [k \in DOMAIN q |-> shown[q[k]]]
    BY <1>3 DEF Filter, Upward
  <2>2. quantities = [k \in DOMAIN q |-> [item |-> shown[q[k]].key, quantity |-> fields[shown[q[k]].key]]]
    <3> HIDE DEF q, shown
    <3> QED BY <2>1 DEF CalculationRequest, BuildCalculationRequest
  <2>3. \A k \in DOMAIN q : q[k] \in DOMAIN shown
    <3> HIDE DEF q
    <3> QED BY <1>4 DEF Climbs
  <2> HIDE DEF q, shown, quantities
  <2> QED BY <2>2, <2>3 DEF At
<1>6. /\ CalculationRequest.scope = page.scope
      /\ CalculationRequest.date = page.date
      /\ CalculationRequest.hash = page.hash
      /\ CalculationRequest.funds = funds
  BY DEF CalculationRequest, BuildCalculationRequest
<1> HIDE DEF quantities, q
<1>7. DOMAIN quantities = 1..Cardinality(chosen) /\ Len(quantities) <= MaxRows
  <2> HIDE DEF chosen, asked, items
  <2>1. DOMAIN quantities = 1..Cardinality(chosen) /\ Len(quantities) = Cardinality(chosen)
    BY <1>1, <1>4, <1>5, AtIsSequence
  <2> QED BY <1>1, <1>4, <2>1, CalculationAssumption
<1>8. ASSUME NEW k \in DOMAIN quantities
      PROVE  /\ q[k] \in DOMAIN items
             /\ quantities[k].item = items[q[k]].key
             /\ shown[q[k]] \in ItemsOf(page)
             /\ shown[q[k]].key = quantities[k].item
             /\ PermittedQuantity(shown[q[k]], quantities[k].quantity)
             /\ IsRuleKey(quantities[k].item)
             /\ quantities[k].quantity \in 0..MaxQuantity
  <2>1. q[k] \in chosen
    BY <1>4, <1>7 DEF Climbs
  <2>2. PICK item : item = shown[q[k]]
    OBVIOUS
  <2>3. /\ item = ViewItem(items[q[k]])
        /\ fields[item.key] # 0
        /\ q[k] \in DOMAIN items
    BY <1>2, <2>1, <2>2
  <2>4. item \in ItemsOf(page)
    BY <1>3, <2>1, <2>2 DEF ItemsOf, ToSet
  <2>5. quantities[k].item = item.key /\ quantities[k].quantity = fields[item.key]
    <3>1. quantities[k] = asked[q[k]] /\ q[k] \in DOMAIN shown
      BY <1>4, <1>5, <1>7, <2>1 DEF At
    <3> QED BY <2>2, <3>1
  <2>6. PermittedQuantity(item, fields[item.key])
    BY <2>3, <2>4 DEF InputsInvalid, InvalidQuantity
  <2>7. SoundItem(items[q[k]])
    BY <2>3 DEF Sound
  <2>8. IsRuleKey(item.key) /\ {item.minimum, item.maximum} \subseteq 1..MaxQuantity
    BY <2>3, <2>7 DEF ViewItem, SoundItem
  <2>9. fields[item.key] \in 0..MaxQuantity
    BY <2>6, <2>8, CalculationAssumption DEF PermittedQuantity
  <2>10. item.key = items[q[k]].key
    BY <2>3 DEF ViewItem
  <2> QED BY <2>2, <2>3, <2>4, <2>5, <2>6, <2>8, <2>9, <2>10
<1>9. \A j, k \in DOMAIN quantities : quantities[j].item = quantities[k].item => j = k
  <2> SUFFICES ASSUME NEW j \in DOMAIN quantities, NEW k \in DOMAIN quantities,
                      quantities[j].item = quantities[k].item
               PROVE  j = k
    OBVIOUS
  <2>1. PICK a, b : a = q[j] /\ b = q[k]
    OBVIOUS
  <2>2. a \in DOMAIN items /\ b \in DOMAIN items /\ items[a].key = items[b].key
    BY <1>8, <2>1
  <2>3. \A c, d \in DOMAIN items : items[c].key = items[d].key => c = d
    BY DEF Sound
  <2>4. a = b /\ a \in Int
    <3> HIDE DEF items
    <3> QED BY <1>1, <2>2, <2>3
  <2> HIDE DEF chosen, items
  <2>5. j \in 1..Cardinality(chosen) /\ k \in 1..Cardinality(chosen) /\ Cardinality(chosen) \in Nat
    BY <1>1, <1>4, <1>7
  <2>6. (j < k => a < b) /\ (k < j => b < a)
    BY <1>4, <2>1, <2>5 DEF Climbs
  <2> QED BY <2>4, <2>5, <2>6
<1>10. funds \in (0..MaxMoneyMinor) \union {Null}
  BY DEF InputsInvalid, InvalidFunds
<1>11. WellFormedRequest(CalculationRequest)
  BY <1>6, <1>7, <1>8, <1>9, <1>10 DEF WellFormedRequest, UniqueOn, quantities
<1> QED BY <1>6, <1>8, <1>11 DEF PermittedRequest, quantities

-----------------------------------------------------------------------------
(* The answer to a request of the page.                                    *)

\* The faults of a quantity, a price or an availability.
Faults == {"below_minimum", "above_maximum", "step_mismatch", "unavailable", "price_not_known"}

\* A result the page understands, without a fault of what it let through.
GoodResult(view, result) ==
    /\ result.configurationHash = view.hash
    /\ \A i \in DOMAIN result.lines :
          \E item \in ItemsOf(view) : item.key = result.lines[i].item.key
    /\ \A v \in result.validations : v.severity = "hard_error" => v.code \notin Faults

Fits(view, answer) ==
    \/ \E result : answer = [success |-> TRUE, result |-> result] /\ GoodResult(view, result)
    \/ \E code : /\ answer = Failure(code)
                 /\ code \notin {"invalid_request", "calculation_unavailable"}

LEMMA NoFaultOfLine ==
    ASSUME NEW item, NEW quantity \in Int,
           item.priceState = "known", item.availability # "unavailable",
           item.minimum \in Int, item.maximum \in Int,
           quantity >= item.minimum, quantity <= item.maximum,
           (quantity - item.minimum) % item.step = 0
    PROVE  \A v \in LineValidations(item, quantity) : v.code \notin Faults
<1>1. \A v \in AvailabilityValidations(item) : v.code = "availability_unknown"
  BY DEF AvailabilityValidations, Validation
<1>2. QuantityValidations(item, quantity) = {}
  BY DEF QuantityValidations
<1>3. \A v \in PriceValidations(item) : v.code \in {"tax_unknown", "tax_unsupported"}
  BY DEF PriceValidations, Validation
<1> QED BY <1>1, <1>2, <1>3 DEF LineValidations, Faults

LEMMA NoFaultElsewhere ==
    ASSUME NEW row, NEW lines
    PROVE  /\ \A v \in BucketValidations(row, lines) : v.code \notin Faults
           /\ \A v \in ConstraintValidations(row, lines) : v.code \notin Faults
<1>1. \A v \in BucketValidations(row, lines) : v.code \notin Faults
  BY DEF BucketValidations, Validation, Faults
<1>2. \A v \in ConstraintValidations(row, lines) : v.code \notin Faults
  BY DEF ConstraintValidations, Validation, Faults
<1> QED BY <1>1, <1>2

LEMMA LineShape ==
    ASSUME NEW item, NEW quantity
    PROVE  ComputeLine(item, quantity).item = item /\ ComputeLine(item, quantity).quantity = quantity
BY DEF ComputeLine

LEMMA SelectedLinesShape ==
    ASSUME NEW configuration, IsSequence(configuration.items), NEW request,
           NEW i \in DOMAIN SelectedLines(configuration, request)
    PROVE  LET line == SelectedLines(configuration, request)[i]
           IN /\ \E k \in DOMAIN configuration.items : line.item = configuration.items[k]
              /\ line.quantity = QuantityOf(request, line.item)
              /\ line.quantity # 0
<1> DEFINE items == configuration.items
           chosen == {k \in DOMAIN items : QuantityOf(request, items[k]) # 0}
           q == InOrder(chosen, Upward(chosen))
           selected == [k \in DOMAIN q |-> items[q[k]]]
           lines == SelectedLines(configuration, request)
<1>1. Climbs(q, chosen) /\ DOMAIN q = 1..Cardinality(chosen)
  <2>1. chosen \in SUBSET DOMAIN items
    OBVIOUS
  <2> HIDE DEF chosen
  <2> QED BY <2>1, FilteredRows
<1>2. lines = [k \in DOMAIN selected |-> ComputeLine(selected[k], QuantityOf(request, selected[k]))]
  BY DEF SelectedLines, Filter, Upward
<1> HIDE DEF lines, q
<1>3. i \in DOMAIN q
  BY <1>2 DEF lines
<1>4. q[i] \in chosen
  BY <1>1, <1>3 DEF Climbs
<1>5. PICK item : item = items[q[i]]
  OBVIOUS
<1>6. lines[i] = ComputeLine(item, QuantityOf(request, item))
  BY <1>2, <1>3, <1>5
<1>7. lines[i].item = item /\ lines[i].quantity = QuantityOf(request, item)
  BY <1>6, LineShape
<1>8. QuantityOf(request, item) # 0 /\ q[i] \in DOMAIN items
  BY <1>4, <1>5
<1> QED BY <1>5, <1>7, <1>8 DEF lines

\* The order the server calculates with the configuration the page shows.
EngineRequest(request) ==
    [quantities |-> request.quantities, funds |-> request.funds, capabilities |-> EngineCapabilities]

LEMMA SameCanonical ==
    ASSUME NEW shown, Sound(shown), NEW served, Sound(served), served.contentHash = shown.contentHash
    PROVE  CanonicalConfiguration(served.body) = CanonicalConfiguration(shown.body)
<1>1. Hash(CanonicalConfiguration(served.body)) = Hash(CanonicalConfiguration(shown.body))
  BY DEF Sound, VerifiedConfiguration
<1> QED BY <1>1 DEF Hash

LEMMA ChosenQuantity ==
    ASSUME NEW request, NEW item, QuantityOf(request, item) # 0
    PROVE  \E j \in DOMAIN request.quantities :
              /\ request.quantities[j].item = item.key
              /\ request.quantities[j].quantity = QuantityOf(request, item)
BY DEF QuantityOf

\* Every line is of an item the page shows, with a quantity the page permits.
LEMMA LineIsPermitted ==
    ASSUME NEW shown, Sound(shown), NEW request,
           PermittedRequest(ViewModel(Scope, Today, shown), request),
           NEW i \in DOMAIN SelectedLines(CanonicalConfiguration(shown.body), EngineRequest(request))
    PROVE  LET line == SelectedLines(CanonicalConfiguration(shown.body), EngineRequest(request))[i]
           IN /\ \E item \in ItemsOf(ViewModel(Scope, Today, shown)) : item.key = line.item.key
              /\ \A v \in LineValidations(line.item, line.quantity) : v.code \notin Faults
<1> DEFINE view == ViewModel(Scope, Today, shown)
           items == shown.body.items
           canonical == CanonicalConfiguration(shown.body)
           line == SelectedLines(canonical, EngineRequest(request))[i]
<1>1. /\ IsSequence(canonical.items)
      /\ \A k \in DOMAIN canonical.items :
            \E m \in DOMAIN items : canonical.items[k] = CanonicalItem(items[m])
  BY CanonicalItems
<1>2. /\ \E k \in DOMAIN canonical.items : line.item = canonical.items[k]
      /\ line.quantity = QuantityOf(EngineRequest(request), line.item)
      /\ line.quantity # 0
  BY <1>1, SelectedLinesShape
<1> HIDE DEF canonical, line
<1>3. PICK m \in DOMAIN items : line.item = CanonicalItem(items[m])
  BY <1>1, <1>2
<1>4. PICK item : item = items[m]
  OBVIOUS
<1>5. SoundItem(item)
  BY <1>4 DEF Sound
<1>6. /\ line.item.key = item.key
      /\ line.item.priceState = item.priceState
      /\ line.item.minimum = item.minimum
      /\ line.item.maximum = item.maximum
      /\ line.item.step = item.step
      /\ line.item.availability = item.availability
  BY <1>3, <1>4, <1>5, CanonicalItemKeeps
<1>7. ItemsOf(view) = {ViewItem(items[n]) : n \in DOMAIN items}
  BY DEF ItemsOf, ToSet, ViewModel
<1>8. ViewItem(item) \in ItemsOf(view) /\ ViewItem(item).key = line.item.key
  <2>1. ViewItem(item).key = item.key
    BY DEF ViewItem
  <2> QED BY <1>4, <1>6, <1>7, <2>1
<1>9. PICK j \in DOMAIN request.quantities : /\ request.quantities[j].item = item.key
                                             /\ request.quantities[j].quantity = line.quantity
  <2>1. EngineRequest(request).quantities = request.quantities
    BY DEF EngineRequest
  <2> QED BY <1>2, <1>6, <2>1, ChosenQuantity
<1>10. PermittedQuantity(ViewItem(item), line.quantity)
  <2>1. PICK other \in ItemsOf(view) : /\ other.key = request.quantities[j].item
                                       /\ PermittedQuantity(other, request.quantities[j].quantity)
    BY DEF PermittedRequest
  <2>2. PICK n \in DOMAIN items : other = ViewItem(items[n])
    BY <1>7, <2>1
  <2>3. items[n].key = items[m].key
    BY <1>4, <1>9, <2>1, <2>2 DEF ViewItem
  <2>4. n = m
    BY <2>3 DEF Sound
  <2> QED BY <1>4, <1>9, <2>1, <2>2, <2>4
<1>11. /\ item.priceState = "known" /\ item.availability # "unavailable"
       /\ line.quantity \in item.minimum..item.maximum
       /\ (line.quantity - item.minimum) % item.step = 0
  BY <1>10 DEF PermittedQuantity, ViewItem
<1>12. item.minimum \in Int /\ item.maximum \in Int
  BY <1>5, CalculationAssumption DEF SoundItem
<1>13. \A v \in LineValidations(line.item, line.quantity) : v.code \notin Faults
  BY <1>6, <1>11, <1>12, NoFaultOfLine
<1> QED BY <1>8, <1>13 DEF line, canonical

LEMMA CalculatedIsGood ==
    ASSUME NEW shown, Sound(shown), NEW served, Sound(served),
           served.contentHash = shown.contentHash, NEW request,
           PermittedRequest(ViewModel(Scope, Today, shown), request)
    PROVE  GoodResult(ViewModel(Scope, Today, shown), CalculatedOrder(served, EngineRequest(request)))
<1> DEFINE view == ViewModel(Scope, Today, shown)
           canonical == CanonicalConfiguration(shown.body)
           lines == SelectedLines(canonical, EngineRequest(request))
           result == CalculatedOrder(served, EngineRequest(request))
<1>1. CanonicalConfiguration(served.body) = canonical
  BY SameCanonical
<1>2. \E money : result.validations = OrderValidations(canonical, lines, money)
  BY <1>1 DEF CalculatedOrder
<1>3. result.lines = lines /\ result.configurationHash = served.contentHash
  BY <1>1 DEF CalculatedOrder
<1>4. ASSUME NEW i \in DOMAIN lines
      PROVE  /\ \E item \in ItemsOf(view) : item.key = lines[i].item.key
             /\ \A v \in LineValidations(lines[i].item, lines[i].quantity) : v.code \notin Faults
  BY LineIsPermitted
<1> HIDE DEF result, lines, canonical
<1>5. \A v \in result.validations : v.code \notin Faults
  <2>1. PICK money : result.validations = OrderValidations(canonical, lines, money)
    BY <1>2
  <2>2. \A v \in (IF money.result = "over_limit"
                 THEN {Validation("over_limit", "funds_exceeded", Null)} ELSE {}) : v.code \notin Faults
    BY DEF Validation, Faults
  <2> SUFFICES ASSUME NEW v \in OrderValidations(canonical, lines, money)  PROVE v.code \notin Faults
    BY <2>1
  <2>3. \/ \E i \in DOMAIN lines : v \in LineValidations(lines[i].item, lines[i].quantity)
        \/ \E row : v \in BucketValidations(row, lines)
        \/ \E row : v \in ConstraintValidations(row, lines)
        \/ v \in (IF money.result = "over_limit"
                 THEN {Validation("over_limit", "funds_exceeded", Null)} ELSE {})
    BY DEF OrderValidations
  <2>4. ASSUME NEW row, v \in BucketValidations(row, lines) \/ v \in ConstraintValidations(row, lines)
        PROVE  v.code \notin Faults
    BY <2>4, NoFaultElsewhere
  <2> QED BY <1>4, <2>2, <2>3, <2>4
<1>6. view.hash = shown.contentHash
  BY DEF ViewModel
<1> QED BY <1>3, <1>4, <1>5, <1>6 DEF GoodResult, result

\* What the server answers fits the page, whatever registry it has.
LEMMA AnswerFits ==
    ASSUME NEW catalogs, RegistryOf(catalogs), NEW shown, Sound(shown), NEW request,
           PermittedRequest(ViewModel(Scope, Today, shown), request)
    PROVE  LET answer == AnonymousCalculation(Registry(catalogs), request)
           IN /\ Fits(ViewModel(Scope, Today, shown), answer)
              /\ answer = Failure("configuration_stale") =>
                    ResolveEntry(Registry(catalogs), Scope, Today).contentHash # shown.contentHash
<1> DEFINE view == ViewModel(Scope, Today, shown)
           served == ResolveEntry(Registry(catalogs), Scope, Today)
           order == CalculateStoreCalcOrder(served, EngineRequest(request))
           answer == AnonymousCalculation(Registry(catalogs), request)
<1>1. /\ request.scope = Scope /\ request.date = Today /\ request.hash = shown.contentHash
      /\ WellFormedRequest(request)
  BY DEF PermittedRequest, ViewModel
<1>2. answer = IF served = Null THEN Failure("catalog_unavailable")
               ELSE IF served.contentHash # request.hash THEN Failure("configuration_stale")
               ELSE IF order.state = "calculated" THEN [success |-> TRUE, result |-> order]
               ELSE IF ClientCalculationError(order.code) THEN Failure("calculation_request_invalid")
               ELSE Failure("calculation_unavailable")
  BY <1>1 DEF AnonymousCalculation, EngineRequest
<1>3. served # Null => Sound(served)
  BY ResolvedIsInUse, InUseIsSound
<1>4. ASSUME served # Null, served.contentHash = shown.contentHash
      PROVE  \/ order.state = "calculated" /\ GoodResult(view, order)
             \/ order.state # "calculated" /\ ClientCalculationError(order.code)
  <2>1. VerifiedConfiguration(served)
    BY <1>3, <1>4 DEF Sound
  <2>2. GoodResult(view, CalculatedOrder(served, EngineRequest(request)))
    BY <1>3, <1>4, CalculatedIsGood
  <2>3. CalculatedOrder(served, EngineRequest(request)).state = "calculated"
    BY DEF CalculatedOrder
  <2>4. order \in {Rejected("request"), Rejected("overflow"),
                  CalculatedOrder(served, EngineRequest(request))}
    BY <2>1 DEF CalculateStoreCalcOrder
  <2>5. /\ Rejected("request").state # "calculated" /\ Rejected("request").code = "request"
        /\ Rejected("overflow").state # "calculated" /\ Rejected("overflow").code = "overflow"
    BY DEF Rejected
  <2> HIDE DEF order
  <2> QED BY <2>2, <2>3, <2>4, <2>5 DEF ClientCalculationError
<1> HIDE DEF answer, order, served, view
<1>5. Fits(view, answer)
  <2>1. CASE served = Null
    BY <1>2, <2>1 DEF Fits
  <2>2. CASE served # Null /\ served.contentHash # request.hash
    BY <1>2, <2>2 DEF Fits
  <2>3. CASE served # Null /\ served.contentHash = request.hash
    <3>1. CASE order.state = "calculated"
      BY <1>1, <1>2, <1>4, <2>3, <3>1 DEF Fits
    <3>2. CASE order.state # "calculated"
      <4>1. answer = Failure("calculation_request_invalid")
        BY <1>1, <1>2, <1>4, <2>3, <3>2
      <4> QED BY <4>1 DEF Fits
    <3> QED BY <3>1, <3>2
  <2> QED BY <2>1, <2>2, <2>3
<1>6. ASSUME answer = Failure("configuration_stale")
      PROVE  served.contentHash # shown.contentHash
  <2> SUFFICES ASSUME served.contentHash = shown.contentHash  PROVE FALSE
    OBVIOUS
  <2>1. \/ answer = Failure("catalog_unavailable")
        \/ answer = Failure("calculation_request_invalid")
        \/ \E result : answer = [success |-> TRUE, result |-> result]
    BY <1>1, <1>2, <1>4
  <2> QED BY <1>6, <2>1 DEF Failure
<1> QED BY <1>5, <1>6 DEF answer, served, view

-----------------------------------------------------------------------------
(* The inductive invariant of page and server.                             *)

PageIsSound ==
    \E shown : /\ Sound(shown)
               /\ page = ViewModel(Scope, Today, shown)
               /\ deploys = 0 => shown.contentHash = ResolveEntry(server, Scope, Today).contentHash

RequestFits == submitted # Null => PermittedRequest(page, submitted)

ReplyFits ==
    reply # Null => /\ Fits(page, reply)
                    /\ reply = Failure("configuration_stale") => deploys > 0

ResultFits == results # Null => GoodResult(page, results.result)

PageAndServer ==
    /\ deploys \in Nat
    /\ \E catalogs : RegistryOf(catalogs) /\ server = Registry(catalogs)
    /\ PageIsSound
    /\ RequestFits
    /\ reply # Null => submitted # Null
    /\ ReplyFits
    /\ ResultFits

LEMMA ServedPageIsSound ==
    ASSUME NEW catalogs, RegistryOf(catalogs), ResolveEntry(Registry(catalogs), Scope, Today) # Null
    PROVE  Sound(ResolveEntry(Registry(catalogs), Scope, Today))
BY ResolvedIsInUse, InUseIsSound

LEMMA PageAndServerInit == Init => PageAndServer
<1> SUFFICES ASSUME Init  PROVE PageAndServer
  OBVIOUS
<1>1. PICK catalogs : RegistryOf(catalogs) /\ server = Registry(catalogs)
  BY DEF Init, RegistryOf
<1>2. ResolveEntry(server, Scope, Today) # Null
  BY DEF Init
<1>3. PageIsSound
  BY <1>1, <1>2, ServedPageIsSound DEF Init, PageIsSound
<1> QED BY <1>1, <1>3 DEF Init, PageAndServer, RequestFits, ReplyFits, ResultFits

\* A step that leaves page, server and what is between them alone.
LEMMA PageAndServerKept ==
    ASSUME PageAndServer, UNCHANGED <<server, deploys, page>>,
           submitted' = submitted \/ submitted' = Null, reply' = reply \/ reply' = Null,
           reply' # Null => submitted' # Null,
           results' = results \/ results' = Null
    PROVE  PageAndServer'
<1>1. PageIsSound'
  BY DEF PageAndServer, PageIsSound
<1>2. RequestFits' /\ ResultFits'
  BY DEF PageAndServer, RequestFits, ResultFits, PermittedRequest, ItemsOf, GoodResult
<1>3. ReplyFits'
  BY DEF PageAndServer, ReplyFits, Fits, GoodResult, ItemsOf
<1> QED BY <1>1, <1>2, <1>3 DEF PageAndServer

LEMMA PageAndServerStep == PageAndServer /\ [Next]_vars => PageAndServer'
<1> SUFFICES ASSUME PageAndServer, [Next]_vars  PROVE PageAndServer'
  OBVIOUS
<1> PICK catalogs : RegistryOf(catalogs) /\ server = Registry(catalogs)
  BY DEF PageAndServer
<1>1. CASE Reload
  <2>1. /\ page' = ViewModel(Scope, Today, ResolveEntry(server, Scope, Today))
        /\ ResolveEntry(server, Scope, Today) # Null
        /\ UNCHANGED <<server, deploys>>
        /\ submitted' = Null /\ reply' = Null /\ results' = Null
    BY <1>1 DEF Reload, Loaded
  <2>2. Sound(ResolveEntry(server, Scope, Today))
    BY <2>1, ServedPageIsSound
  <2>3. PageIsSound'
    BY <2>1, <2>2 DEF PageIsSound
  <2> QED BY <2>1, <2>3 DEF PageAndServer, RequestFits, ReplyFits, ResultFits
<1>2. CASE \/ Clear
           \/ \E content \in TypedFunds : TypeFunds(content)
           \/ \E item \in ItemsOf(page) :
                 \/ Increment(item) \/ Decrement(item)
                 \/ \E content \in {0, MaxQuantity + 1, Text} : TypeQuantity(item, content)
  <2>1. ResultInvalidated /\ UNCHANGED <<server, deploys, page, submitted, reply>>
    BY <1>2 DEF Clear, TypeFunds, Increment, Decrement, TypeQuantity, Edit
  <2> QED BY <2>1, PageAndServerKept DEF ResultInvalidated, PageAndServer
<1>3. CASE SubmitInvalid
  BY <1>3, PageAndServerKept DEF SubmitInvalid, ErrorShown, PageAndServer
<1>4. CASE Submit
  <2>1. PermittedRequest(page, CalculationRequest)
    <3>1. PICK shown : Sound(shown) /\ page = ViewModel(Scope, Today, shown)
      BY DEF PageAndServer, PageIsSound
    <3>2. ~InputsInvalid
      BY <1>4 DEF Submit
    <3> QED BY <3>1, <3>2, SubmittedIsPermitted
  <2>2. /\ UNCHANGED <<server, deploys, page, reply, results>>
        /\ submitted' = CalculationRequest
        /\ submitted = Null /\ reply = Null
    BY <1>4 DEF Submit, Busy
  <2>3. RequestFits'
    BY <2>1, <2>2 DEF RequestFits, PermittedRequest, ItemsOf
  <2>4. PageIsSound' /\ ResultFits' /\ ReplyFits'
    BY <2>2 DEF PageAndServer, PageIsSound, ResultFits, GoodResult, ItemsOf, ReplyFits
  <2> QED BY <2>2, <2>3, <2>4 DEF PageAndServer
<1>5. CASE ServerAnswers
  <2>1. /\ submitted # Null /\ PermittedRequest(page, submitted)
        /\ reply' = AnonymousCalculation(server, submitted)
        /\ UNCHANGED <<server, deploys, page, submitted, results>>
    BY <1>5 DEF ServerAnswers, PageAndServer, RequestFits
  <2>2. PICK shown : /\ Sound(shown)
                     /\ page = ViewModel(Scope, Today, shown)
                     /\ deploys = 0 => shown.contentHash = ResolveEntry(server, Scope, Today).contentHash
    BY DEF PageAndServer, PageIsSound
  <2>3. /\ Fits(page, reply')
        /\ reply' = Failure("configuration_stale") => deploys > 0
    BY <2>1, <2>2, AnswerFits DEF PageAndServer
  <2>4. ReplyFits'
    BY <2>1, <2>3 DEF ReplyFits, Fits, GoodResult, ItemsOf
  <2>5. PageIsSound' /\ ResultFits' /\ RequestFits'
    BY <2>1 DEF PageAndServer, PageIsSound, ResultFits, GoodResult, ItemsOf, RequestFits, PermittedRequest
  <2> QED BY <2>1, <2>4, <2>5 DEF PageAndServer
<1>6. CASE \E code \in {"rate_limited", "request_body_too_large"} : RouterRefuses(code)
  <2>1. PICK code \in {"rate_limited", "request_body_too_large"} :
           /\ reply' = Failure(code) /\ submitted # Null
           /\ UNCHANGED <<server, deploys, page, submitted, results>>
    BY <1>6 DEF RouterRefuses
  <2>2. Fits(page, Failure(code)) /\ Failure(code) # Failure("configuration_stale")
    BY DEF Fits, Failure
  <2>3. ReplyFits'
    BY <2>1, <2>2 DEF ReplyFits, Fits, GoodResult, ItemsOf
  <2>4. PageIsSound' /\ ResultFits' /\ RequestFits'
    BY <2>1 DEF PageAndServer, PageIsSound, ResultFits, GoodResult, ItemsOf, RequestFits, PermittedRequest
  <2> QED BY <2>1, <2>3, <2>4 DEF PageAndServer
<1>7. CASE NetworkFails
  BY <1>7, PageAndServerKept DEF NetworkFails, ErrorShown, PageAndServer
<1>8. CASE ReplyArrives
  <2>1. /\ Fits(page, reply)
        /\ submitted' = Null /\ reply' = Null
        /\ UNCHANGED <<server, deploys, page>>
    BY <1>8 DEF ReplyArrives, PageAndServer, ReplyFits
  <2>2. CASE reply.success /\ UnderstoodResult(reply.result)
    <3>1. results'.result = reply.result
      BY <1>8, <2>2 DEF ReplyArrives, Rendered
    <3>2. GoodResult(page, reply.result)
      <4>1. CASE \E result : reply = [success |-> TRUE, result |-> result] /\ GoodResult(page, result)
        BY <4>1
      <4>2. CASE \E code : reply = Failure(code)
        BY <2>2, <4>2 DEF Failure
      <4> QED BY <2>1, <4>1, <4>2 DEF Fits
    <3>3. ResultFits'
      BY <2>1, <3>1, <3>2 DEF ResultFits, GoodResult, ItemsOf
    <3>4. PageIsSound'
      BY <2>1 DEF PageAndServer, PageIsSound
    <3> QED BY <2>1, <3>3, <3>4 DEF PageAndServer, RequestFits, ReplyFits
  <2>3. CASE ~(reply.success /\ UnderstoodResult(reply.result))
    <3>1. results' = Null
      BY <1>8, <2>3 DEF ReplyArrives, ErrorShown
    <3> QED BY <2>1, <3>1, PageAndServerKept
  <2> QED BY <2>2, <2>3
<1>9. CASE \E other \in Catalogs : Deploy(other)
  <2>1. PICK other : /\ RegistryOf(other) /\ server' = Registry(other)
                     /\ deploys' = deploys + 1
                     /\ UNCHANGED <<page, submitted, reply, results>>
    BY <1>9 DEF Deploy, RegistryOf
  <2>2. deploys' \in Nat /\ deploys' > 0 /\ deploys' # 0
    BY <2>1 DEF PageAndServer
  <2>3. PageIsSound'
    BY <2>1, <2>2 DEF PageAndServer, PageIsSound
  <2>4. RequestFits' /\ ResultFits'
    BY <2>1 DEF PageAndServer, ResultFits, GoodResult, ItemsOf, RequestFits, PermittedRequest
  <2>5. ReplyFits'
    BY <2>1, <2>2 DEF PageAndServer, ReplyFits, Fits, GoodResult, ItemsOf
  <2> QED BY <2>1, <2>2, <2>3, <2>4, <2>5 DEF PageAndServer
<1>10. CASE UNCHANGED vars
  BY <1>10, PageAndServerKept DEF vars, PageAndServer
<1> QED BY <1>1, <1>2, <1>3, <1>4, <1>5, <1>6, <1>7, <1>8, <1>9, <1>10 DEF Next

LEMMA PageAndServerAlways == Spec => []PageAndServer
BY PageAndServerInit, PageAndServerStep, PTL DEF Spec

\* A request of the page meets one configuration at most, is never refused as
\* malformed nor as a fault of the server, as stale only after a deployment,
\* and the page understands every answer with few notices.
THEOREM RepliesFitHolds == Spec => []RepliesFit
<1>1. PageAndServer => RepliesFit
  <2> SUFFICES ASSUME PageAndServer  PROVE RepliesFit
    OBVIOUS
  <2>1. OneEntryIsEffective
    BY AnonymousAssumption, OneEntryIsEffectiveInEachRegistry DEF PageAndServer, OneEntryIsEffective
  <2>2. OnlyExpectedRefusals
    <3> SUFFICES ASSUME reply # Null, ~reply.success
                 PROVE  /\ reply.code \notin {"invalid_request", "calculation_unavailable"}
                        /\ reply.code = "configuration_stale" => deploys > 0
      BY DEF OnlyExpectedRefusals
    <3>1. PICK code : /\ reply = Failure(code)
                      /\ code \notin {"invalid_request", "calculation_unavailable"}
      BY DEF PageAndServer, ReplyFits, Fits
    <3>2. reply.code = code
      BY <3>1 DEF Failure
    <3> QED BY <3>1, <3>2 DEF PageAndServer, ReplyFits
  <2>3. AnswersAreUnderstood
    <3> SUFFICES ASSUME reply # Null, reply.success, FewNotices(reply.result)
                 PROVE  UnderstoodResult(reply.result)
      BY DEF AnswersAreUnderstood
    <3>1. CASE \E result : reply = [success |-> TRUE, result |-> result] /\ GoodResult(page, result)
      BY <3>1 DEF GoodResult, UnderstoodResult
    <3>2. CASE \E code : reply = Failure(code)
      BY <3>2 DEF Failure
    <3> QED BY <3>1, <3>2 DEF PageAndServer, ReplyFits, Fits
  <2> QED BY <2>1, <2>2, <2>3 DEF RepliesFit
<1> QED BY <1>1, PageAndServerAlways, PTL

\* The server never faults the quantity, the price or the availability of an
\* item the page let through, also after its catalog was replaced.
THEOREM PageAndServerAgreeHolds == Spec => []PageAndServerAgree
<1>1. PageAndServer => PageAndServerAgree
  BY DEF PageAndServer, ResultFits, GoodResult, PageAndServerAgree, Faults
<1> QED BY <1>1, PageAndServerAlways, PTL

=============================================================================
