----------------------- MODULE StoreCalcContentProofs -----------------------
(***************************************************************************)
(* What sorting and filtering return, for every sequence, and what that    *)
(* means for the content of a catalog: neither its acceptance nor its      *)
(* canonical form depends on the order of its rows, and what content.js    *)
(* accepts is a configuration for core.js.                                 *)
(***************************************************************************)
EXTENDS StoreCalcContent, FiniteSetTheorems, FunctionTheorems, TLAPS

-----------------------------------------------------------------------------
(* Putting a finite set in order.                                          *)

\* before orders the set S: of two members one comes first.
Orders(before, S) ==
    /\ \A x \in S : <<x, x>> \notin before
    /\ \A x, y, z \in S : <<x, y>> \in before /\ <<y, z>> \in before => <<x, z>> \in before
    /\ \A x, y \in S : x = y \/ <<x, y>> \in before \/ <<y, x>> \in before

\* q lists the members of S, each once, as before says.
Lists(q, S, before) ==
    /\ q \in [1..Cardinality(S) -> S]
    /\ \A x \in S : \E k \in 1..Cardinality(S) : q[k] = x
    /\ \A j, k \in 1..Cardinality(S) : j < k <=> <<q[j], q[k]>> \in before

Smaller(x, S, before) == {y \in S : <<y, x>> \in before}

Place(x, S, before) == Cardinality(Smaller(x, S, before))

LEMMA PlaceType ==
    ASSUME NEW S, IsFiniteSet(S), NEW before, Orders(before, S), NEW x \in S
    PROVE  /\ Cardinality(S) \in Nat
           /\ IsFiniteSet(Smaller(x, S, before))
           /\ Place(x, S, before) \in Nat
           /\ Place(x, S, before) + 1 \in 1..Cardinality(S)
<1>1. x \notin Smaller(x, S, before) /\ Smaller(x, S, before) \in SUBSET S
  BY DEF Orders, Smaller
<1>2. Smaller(x, S, before) # S
  BY <1>1
<1>3. /\ IsFiniteSet(Smaller(x, S, before))
      /\ Place(x, S, before) <= Cardinality(S)
      /\ Cardinality(S) # Place(x, S, before)
  BY <1>1, <1>2, FS_Subset DEF Place
<1>4. Cardinality(S) \in Nat /\ Place(x, S, before) \in Nat
  BY <1>3, FS_CardinalityType DEF Place
<1> QED BY <1>3, <1>4

LEMMA PlaceGrows ==
    ASSUME NEW S, IsFiniteSet(S), NEW before, Orders(before, S),
           NEW x \in S, NEW y \in S, <<x, y>> \in before
    PROVE  Place(x, S, before) < Place(y, S, before)
<1>1. /\ Smaller(x, S, before) \in SUBSET Smaller(y, S, before)
      /\ x \in Smaller(y, S, before) /\ x \notin Smaller(x, S, before)
  BY DEF Orders, Smaller
<1>2. Smaller(x, S, before) # Smaller(y, S, before)
  BY <1>1
<1>3. /\ IsFiniteSet(Smaller(y, S, before))
      /\ Place(x, S, before) \in Nat /\ Place(y, S, before) \in Nat
  BY PlaceType
<1>4. /\ Place(x, S, before) <= Place(y, S, before)
      /\ Place(x, S, before) # Place(y, S, before)
  BY <1>1, <1>2, <1>3, FS_Subset DEF Place
<1> QED BY <1>3, <1>4

LEMMA InOrderLists ==
    ASSUME NEW S, IsFiniteSet(S), NEW before, Orders(before, S)
    PROVE  Lists(InOrder(S, before), S, before)
<1> DEFINE n == Cardinality(S)
           rank == [x \in S |-> Place(x, S, before) + 1]
           q == InOrder(S, before)
<1>1. n \in Nat /\ IsFiniteSet(1..n) /\ Cardinality(1..n) = n
  BY FS_CardinalityType, FS_Interval
<1>2. ASSUME NEW x \in S, NEW y \in S, Place(x, S, before) = Place(y, S, before)
      PROVE  x = y
  <2>1. Place(x, S, before) \in Nat
    BY PlaceType
  <2>2. ~(Place(x, S, before) < Place(y, S, before)) /\ ~(Place(y, S, before) < Place(x, S, before))
    BY <1>2, <2>1
  <2>3. <<x, y>> \notin before /\ <<y, x>> \notin before
    BY <2>2, PlaceGrows
  <2> QED BY <2>3 DEF Orders
<1>3. rank \in Surjection(S, 1..n)
  <2>1. rank \in [S -> 1..n]
    BY PlaceType
  <2>2. ASSUME NEW x \in S, NEW y \in S, rank[x] = rank[y]
        PROVE  x = y
    <3>1. Place(x, S, before) \in Nat /\ Place(y, S, before) \in Nat
      BY PlaceType
    <3>2. Place(x, S, before) + 1 = Place(y, S, before) + 1
      BY <2>2
    <3> QED BY <1>2, <3>1, <3>2
  <2>3. rank \in Injection(S, 1..n)
    BY <2>1, <2>2, Fun_IsInj
  <2>4. Cardinality(S) = Cardinality(1..n) <=> rank \in Surjection(S, 1..n)
    <3> HIDE DEF rank, n
    <3> QED BY <1>1, <2>3, FS_Injection
  <2> QED BY <1>1, <2>4
<1>4. ASSUME NEW k \in 1..n
      PROVE  q[k] \in S /\ Place(q[k], S, before) = k - 1
  <2>1. \E x \in S : rank[x] = k
    <3> HIDE DEF rank, n
    <3>1. \A t \in 1..n : \E x \in S : rank[x] = t
      BY <1>3, Fun_SurjectionProperties
    <3> QED BY <3>1
  <2>2. PICK x \in S : Place(x, S, before) + 1 = k
    BY <2>1
  <2>3. Place(x, S, before) = k - 1
    BY <2>2, PlaceType
  <2>4. q[k] = CHOOSE y \in S : Place(y, S, before) = k - 1
    BY DEF InOrder, Place, Smaller
  <2> QED BY <2>3, <2>4
<1>5. q = [k \in 1..n |-> q[k]]
  <2> DEFINE pick(k) == CHOOSE x \in S : Cardinality({y \in S : <<y, x>> \in before}) = k - 1
  <2>1. q = [k \in 1..n |-> pick(k)]
    BY DEF InOrder
  <2> HIDE DEF pick, q, n
  <2> QED BY <2>1
<1> HIDE DEF q
<1>6. q \in [1..n -> S]
  BY <1>4, <1>5
<1>7. ASSUME NEW x \in S
      PROVE  \E k \in 1..n : q[k] = x
  <2> DEFINE k == Place(x, S, before) + 1
  <2>1. k \in 1..n /\ k - 1 = Place(x, S, before)
    BY PlaceType
  <2>2. q[k] \in S /\ Place(q[k], S, before) = Place(x, S, before)
    BY <1>4, <2>1
  <2>3. q[k] = x
    BY <1>2, <2>2
  <2> QED BY <2>1, <2>3
<1>8. ASSUME NEW j \in 1..n, NEW k \in 1..n
      PROVE  j < k <=> <<q[j], q[k]>> \in before
  <2>1. /\ q[j] \in S /\ Place(q[j], S, before) = j - 1
        /\ q[k] \in S /\ Place(q[k], S, before) = k - 1
    BY <1>4
  <2>2. <<q[j], q[k]>> \in before => j - 1 < k - 1
    BY <2>1, PlaceGrows
  <2>3. <<q[k], q[j]>> \in before => k - 1 < j - 1
    BY <2>1, PlaceGrows
  <2>4. q[j] = q[k] \/ <<q[j], q[k]>> \in before \/ <<q[k], q[j]>> \in before
    BY <2>1 DEF Orders
  <2>5. q[j] = q[k] => j - 1 = k - 1
    BY <2>1
  <2>6. j \in Int /\ k \in Int
    BY <1>1
  <2> HIDE DEF n
  <2> QED BY <2>2, <2>3, <2>4, <2>5, <2>6
<1> QED BY <1>6, <1>7, <1>8 DEF Lists, q

\* Filter: the chosen positions, the smaller before the larger.
Upward(I) == {p \in I \X I : p[1] < p[2]}

Climbs(q, I) ==
    /\ q \in [1..Cardinality(I) -> I]
    /\ \A x \in I : \E k \in 1..Cardinality(I) : q[k] = x
    /\ \A j, k \in 1..Cardinality(I) : j < k <=> q[j] < q[k]

LEMMA UpwardClimbs ==
    ASSUME NEW n \in Nat, NEW I \in SUBSET (1..n)
    PROVE  /\ IsFiniteSet(I)
           /\ Cardinality(I) \in 0..n
           /\ Climbs(InOrder(I, Upward(I)), I)
<1>1. IsFiniteSet(I) /\ Cardinality(I) \in Nat /\ Cardinality(I) <= n
  <2>1. IsFiniteSet(1..n) /\ Cardinality(1..n) = n
    BY FS_Interval
  <2> QED BY <2>1, FS_Subset, FS_CardinalityType
<1>2. Orders(Upward(I), I)
  BY DEF Orders, Upward
<1>3. Lists(InOrder(I, Upward(I)), I, Upward(I))
  BY <1>1, <1>2, InOrderLists
<1>4. Climbs(InOrder(I, Upward(I)), I)
  BY <1>3 DEF Lists, Climbs, Upward
<1> QED BY <1>1, <1>4

\* A set of positions that is not empty has a first one.
LEMMA FirstPosition ==
    ASSUME NEW n \in Nat, NEW I \in SUBSET (1..n), I # {}
    PROVE  \E first \in I : \A i \in I : first <= i
<1> DEFINE q == InOrder(I, Upward(I))
<1>1. Climbs(q, I) /\ Cardinality(I) \in 0..n
  BY UpwardClimbs
<1> HIDE DEF q
<1>2. PICK x \in I : TRUE
  OBVIOUS
<1>3. 1 \in 1..Cardinality(I)
  BY <1>1, <1>2 DEF Climbs
<1>4. ASSUME NEW i \in I  PROVE q[1] <= i
  <2>1. PICK k \in 1..Cardinality(I) : q[k] = i
    BY <1>1 DEF Climbs
  <2>2. k = 1 \/ 1 < k
    BY <1>1, <2>1
  <2>3. 1 < k => q[1] < q[k]
    BY <1>1, <1>3, <2>1 DEF Climbs
  <2>4. q[1] \in Int /\ i \in Int
    <3>1. q[1] \in I
      BY <1>1, <1>3 DEF Climbs
    <3>2. \A e \in I : e \in Int
      OBVIOUS
    <3> QED BY <3>1, <3>2
  <2> QED BY <2>1, <2>2, <2>3, <2>4
<1> QED BY <1>1, <1>3, <1>4 DEF Climbs

-----------------------------------------------------------------------------
(* Sorting.                                                                *)

LEMMA LexLessOrders ==
    ASSUME NEW m \in Nat, NEW a \in [1..m -> Int], NEW b \in [1..m -> Int],
           NEW c \in [1..m -> Int]
    PROVE  /\ ~LexLess(a, a)
           /\ LexLess(a, b) /\ LexLess(b, c) => LexLess(a, c)
           /\ a = b \/ LexLess(a, b) \/ LexLess(b, a)
<1>1. ~LexLess(a, a)
  BY DEF LexLess
<1>2. ASSUME LexLess(a, b), LexLess(b, c)
      PROVE  LexLess(a, c)
  <2>1. PICK i \in 1..m : a[i] < b[i] /\ \A k \in 1..(i - 1) : a[k] = b[k]
    BY <1>2 DEF LexLess
  <2>2. PICK j \in 1..m : b[j] < c[j] /\ \A k \in 1..(j - 1) : b[k] = c[k]
    BY <1>2 DEF LexLess
  <2>3. CASE i < j
    <3>1. a[i] < c[i] /\ \A k \in 1..(i - 1) : a[k] = c[k]
      BY <2>1, <2>2, <2>3
    <3> QED BY <3>1 DEF LexLess
  <2>4. CASE j < i
    <3>1. a[j] < c[j] /\ \A k \in 1..(j - 1) : a[k] = c[k]
      BY <2>1, <2>2, <2>4
    <3> QED BY <3>1 DEF LexLess
  <2>5. CASE i = j
    <3>1. a[i] < c[i] /\ \A k \in 1..(i - 1) : a[k] = c[k]
      BY <2>1, <2>2, <2>5
    <3> QED BY <3>1 DEF LexLess
  <2> QED BY <2>3, <2>4, <2>5
<1>3. ASSUME a # b
      PROVE  LexLess(a, b) \/ LexLess(b, a)
  <2> DEFINE differ == {i \in 1..m : a[i] # b[i]}
  <2>1. differ # {} /\ differ \in SUBSET (1..m)
    <3>1. SUFFICES ASSUME \A i \in 1..m : a[i] = b[i]  PROVE a = b
      BY <1>3
    <3>2. a = [i \in 1..m |-> a[i]] /\ b = [i \in 1..m |-> b[i]]
      OBVIOUS
    <3> QED BY <3>1, <3>2
  <2>2. PICK first \in differ : \A i \in differ : first <= i
    BY <2>1, FirstPosition
  <2>3. first \in 1..m /\ \A k \in 1..(first - 1) : a[k] = b[k]
    BY <2>2
  <2>4. a[first] < b[first] \/ b[first] < a[first]
    BY <2>2
  <2> QED BY <2>3, <2>4 DEF LexLess
<1> QED BY <1>1, <1>2, <1>3

\* q sorts the positions 1..n of a sequence whose rows have these keys.
Sorts(q, n, keys) ==
    /\ q \in [1..n -> 1..n]
    /\ \A i \in 1..n : \E k \in 1..n : q[k] = i
    /\ \A j, k \in 1..n : q[j] = q[k] => j = k
    /\ \A j, k \in 1..n : j < k =>
          \/ LexLess(keys[q[j]], keys[q[k]])
          \/ keys[q[j]] = keys[q[k]] /\ q[j] < q[k]

LEMMA KeyOrderSorts ==
    ASSUME NEW n \in Nat, NEW m \in Nat, NEW keys \in [1..n -> [1..m -> Int]]
    PROVE  Sorts(InOrder(1..n, KeyOrder(keys)), n, keys)
<1>1. DOMAIN keys = 1..n /\ IsFiniteSet(1..n) /\ Cardinality(1..n) = n
  BY FS_Interval
<1>2. \A i, j \in 1..n : <<i, j>> \in KeyOrder(keys) <=>
          LexLess(keys[i], keys[j]) \/ (keys[i] = keys[j] /\ i < j)
  BY <1>1 DEF KeyOrder
<1>3. ASSUME NEW i \in 1..n, NEW j \in 1..n, NEW k \in 1..n
      PROVE  /\ ~LexLess(keys[i], keys[i])
             /\ LexLess(keys[i], keys[j]) /\ LexLess(keys[j], keys[k])
                  => LexLess(keys[i], keys[k])
             /\ keys[i] = keys[j] \/ LexLess(keys[i], keys[j]) \/ LexLess(keys[j], keys[i])
  BY LexLessOrders
<1>4. Orders(KeyOrder(keys), 1..n)
  <2>1. \A i \in 1..n : <<i, i>> \notin KeyOrder(keys)
    BY <1>2, <1>3
  <2>2. ASSUME NEW i \in 1..n, NEW j \in 1..n, NEW k \in 1..n,
               <<i, j>> \in KeyOrder(keys), <<j, k>> \in KeyOrder(keys)
        PROVE  <<i, k>> \in KeyOrder(keys)
    <3>1. /\ LexLess(keys[i], keys[j]) \/ (keys[i] = keys[j] /\ i < j)
          /\ LexLess(keys[j], keys[k]) \/ (keys[j] = keys[k] /\ j < k)
      BY <1>2, <2>2
    <3>2. LexLess(keys[i], keys[k]) \/ (keys[i] = keys[k] /\ i < j /\ j < k)
      BY <1>3, <3>1
    <3>3. i < j /\ j < k => i < k
      OBVIOUS
    <3>4. LexLess(keys[i], keys[k]) \/ (keys[i] = keys[k] /\ i < k)
      BY <3>2, <3>3
    <3> QED BY <1>2, <3>4
  <2>3. ASSUME NEW i \in 1..n, NEW j \in 1..n
        PROVE  i = j \/ <<i, j>> \in KeyOrder(keys) \/ <<j, i>> \in KeyOrder(keys)
    <3>1. keys[i] = keys[j] \/ LexLess(keys[i], keys[j]) \/ LexLess(keys[j], keys[i])
      BY <1>3
    <3>2. i = j \/ i < j \/ j < i
      OBVIOUS
    <3> QED BY <1>2, <3>1, <3>2
  <2> QED BY <2>1, <2>2, <2>3 DEF Orders
<1> DEFINE q == InOrder(1..n, KeyOrder(keys))
<1>5. Lists(q, 1..n, KeyOrder(keys))
  BY <1>1, <1>4, InOrderLists
<1> HIDE DEF q
<1>6. /\ q \in [1..n -> 1..n]
      /\ \A i \in 1..n : \E k \in 1..n : q[k] = i
      /\ \A j, k \in 1..n : j < k <=> <<q[j], q[k]>> \in KeyOrder(keys)
  BY <1>1, <1>5 DEF Lists
<1>7. \A j, k \in 1..n : q[j] = q[k] => j = k
  <2>1. \A j \in 1..n : <<q[j], q[j]>> \notin KeyOrder(keys)
    BY <1>4, <1>6 DEF Orders
  <2>2. ASSUME NEW j \in 1..n, NEW k \in 1..n, q[j] = q[k]
        PROVE  j = k
    <3>1. ~(j < k) /\ ~(k < j)
      BY <1>6, <2>1, <2>2
    <3> QED BY <3>1
  <2> QED BY <2>2
<1>8. Sorts(q, n, keys)
  BY <1>2, <1>6, <1>7 DEF Sorts
<1> QED BY <1>8 DEF q

\* Keys of two and of three parts.
LEMMA Parts ==
    ASSUME NEW a \in Int, NEW b \in Int, NEW c \in Int
    PROVE  <<a, b>> \in [1..2 -> Int] /\ <<a, b, c>> \in [1..3 -> Int]
<1>1. DOMAIN <<a, b>> = 1..2 /\ DOMAIN <<a, b, c>> = 1..3
  OBVIOUS
<1>2. \A i \in 1..2 : <<a, b>>[i] \in Int
  OBVIOUS
<1>3. \A i \in 1..3 : <<a, b, c>>[i] \in Int
  OBVIOUS
<1> QED BY <1>1, <1>2, <1>3

LEMMA LexLessOfParts ==
    ASSUME NEW a, NEW b, NEW c, NEW d, NEW e, NEW f
    PROVE  /\ LexLess(<<a, b>>, <<d, e>>) => a < d \/ (a = d /\ b < e)
           /\ LexLess(<<a, b, c>>, <<d, e, f>>) =>
                  a < d \/ (a = d /\ b < e) \/ (a = d /\ b = e /\ c < f)
<1>1. ASSUME LexLess(<<a, b>>, <<d, e>>)
      PROVE  a < d \/ (a = d /\ b < e)
  <2>1. PICK i \in 1..2 : /\ <<a, b>>[i] < <<d, e>>[i]
                          /\ \A j \in 1..(i - 1) : <<a, b>>[j] = <<d, e>>[j]
    BY <1>1 DEF LexLess
  <2>2. CASE i = 1  BY <2>1, <2>2
  <2>3. CASE i = 2
    <3>1. <<a, b>>[1] = <<d, e>>[1]  BY <2>1, <2>3
    <3> QED BY <2>1, <2>3, <3>1
  <2> QED BY <2>2, <2>3
<1>2. ASSUME LexLess(<<a, b, c>>, <<d, e, f>>)
      PROVE  a < d \/ (a = d /\ b < e) \/ (a = d /\ b = e /\ c < f)
  <2>1. PICK i \in 1..3 : /\ <<a, b, c>>[i] < <<d, e, f>>[i]
                          /\ \A j \in 1..(i - 1) : <<a, b, c>>[j] = <<d, e, f>>[j]
    BY <1>2 DEF LexLess
  <2>2. CASE i = 1  BY <2>1, <2>2
  <2>3. CASE i = 2
    <3>1. <<a, b, c>>[1] = <<d, e, f>>[1]  BY <2>1, <2>3
    <3> QED BY <2>1, <2>3, <3>1
  <2>4. CASE i = 3
    <3>1. <<a, b, c>>[1] = <<d, e, f>>[1] /\ <<a, b, c>>[2] = <<d, e, f>>[2]  BY <2>1, <2>4
    <3> QED BY <2>1, <2>4, <3>1
  <2> QED BY <2>2, <2>3, <2>4
<1> QED BY <1>1, <1>2

-----------------------------------------------------------------------------
(* What SortOn and Filter make of the rows of a sequence.                  *)

IsSequence(s) == s \in Seq(ToSet(s))

LEMMA SequenceShape ==
    ASSUME NEW s, IsSequence(s)
    PROVE  Len(s) \in Nat /\ DOMAIN s = 1..Len(s)
BY DEF IsSequence

LEMMA FiniteRows ==
    ASSUME NEW s, IsSequence(s)
    PROVE  IsFiniteSet(ToSet(s)) /\ IsFiniteSet(DOMAIN s)
<1>1. IsFiniteSet(DOMAIN s)
  BY SequenceShape, FS_Interval
<1>2. s \in Surjection(DOMAIN s, ToSet(s))
  <2>1. s \in [DOMAIN s -> ToSet(s)]
    BY SequenceShape DEF IsSequence
  <2>2. \A row \in ToSet(s) : \E i \in DOMAIN s : s[i] = row
    BY DEF ToSet
  <2> QED BY <2>1, <2>2 DEF Surjection
<1> QED BY <1>1, <1>2, FS_Surjection

\* The rows of s at the positions q.
At(s, q) == [k \in DOMAIN q |-> s[q[k]]]

LEMMA AtIsSequence ==
    ASSUME NEW n \in Nat, NEW s, NEW q, DOMAIN q = 1..n
    PROVE  IsSequence(At(s, q)) /\ Len(At(s, q)) = n /\ DOMAIN At(s, q) = 1..n
BY DEF At, IsSequence, ToSet

\* Sorting by keys that are numbers, part by part.
LEMMA SortedRows ==
    ASSUME NEW s, IsSequence(s), NEW m \in Nat, NEW keys \in [DOMAIN s -> [1..m -> Int]]
    PROVE  LET q == InOrder(DOMAIN s, KeyOrder(keys))
           IN Sorts(q, Len(s), keys) /\ DOMAIN q = DOMAIN s
<1>1. Len(s) \in Nat /\ DOMAIN s = 1..Len(s)
  BY SequenceShape
<1>2. Sorts(InOrder(1..Len(s), KeyOrder(keys)), Len(s), keys)
  BY <1>1, KeyOrderSorts
<1> QED BY <1>1, <1>2 DEF Sorts

\* Filtering: the positions that pass, in their order.
LEMMA FilteredRows ==
    ASSUME NEW s, IsSequence(s), NEW I \in SUBSET DOMAIN s
    PROVE  LET q == InOrder(I, Upward(I))
           IN /\ Climbs(q, I)
              /\ Cardinality(I) \in 0..Len(s)
              /\ DOMAIN q = 1..Cardinality(I)
<1>1. Len(s) \in Nat /\ I \in SUBSET (1..Len(s))
  BY SequenceShape
<1>2. Cardinality(I) \in 0..Len(s) /\ Climbs(InOrder(I, Upward(I)), I)
  BY <1>1, UpwardClimbs
<1> QED BY <1>2 DEF Climbs

-----------------------------------------------------------------------------
(* Rows in another order.                                                  *)

\* p takes each position of s once.
Permutes(p, s) ==
    /\ p \in [DOMAIN s -> DOMAIN s]
    /\ \A i \in DOMAIN s : \E k \in DOMAIN s : p[k] = i
    /\ \A j, k \in DOMAIN s : p[j] = p[k] => j = k

Reordered(s, t) == IsSequence(s) /\ \E p : Permutes(p, s) /\ t = At(s, p)

LEMMA ReorderedRows ==
    ASSUME NEW s, NEW t, Reordered(s, t)
    PROVE  /\ IsSequence(s) /\ IsSequence(t)
           /\ Len(t) = Len(s) /\ DOMAIN t = DOMAIN s
           /\ ToSet(t) = ToSet(s)
<1>1. PICK p : Permutes(p, s) /\ t = At(s, p)
  BY DEF Reordered
<1>2. IsSequence(s) /\ Len(s) \in Nat /\ DOMAIN s = 1..Len(s) /\ DOMAIN p = 1..Len(s)
  BY <1>1, SequenceShape DEF Reordered, Permutes
<1>3. IsSequence(t) /\ Len(t) = Len(s) /\ DOMAIN t = DOMAIN s
  BY <1>1, <1>2, AtIsSequence
<1>4. \A k \in DOMAIN s : t[k] = s[p[k]]
  BY <1>1, <1>2 DEF At
<1>5. ToSet(t) = ToSet(s)
  BY <1>1, <1>3, <1>4 DEF ToSet, Permutes
<1> QED BY <1>2, <1>3, <1>5

LEMMA SameIsReordered ==
    ASSUME NEW s, IsSequence(s)
    PROVE  Reordered(s, s)
<1> DEFINE same == [i \in DOMAIN s |-> i]
<1>1. s = [i \in DOMAIN s |-> s[i]]
  BY DEF IsSequence
<1>2. Permutes(same, s) /\ s = At(s, same)
  BY <1>1 DEF Permutes, At
<1> QED BY <1>2 DEF Reordered

LEMMA ReorderedBack ==
    ASSUME NEW s, NEW t, Reordered(s, t)
    PROVE  Reordered(t, s)
<1>1. PICK p : Permutes(p, s) /\ t = At(s, p)
  BY DEF Reordered
<1>2. IsSequence(t) /\ DOMAIN t = DOMAIN s /\ DOMAIN p = DOMAIN s
  BY <1>1, ReorderedRows DEF Permutes
<1> DEFINE back == [i \in DOMAIN s |-> CHOOSE k \in DOMAIN s : p[k] = i]
<1>3. ASSUME NEW i \in DOMAIN s  PROVE back[i] \in DOMAIN s /\ p[back[i]] = i
  BY <1>1 DEF Permutes
<1>4. ASSUME NEW k \in DOMAIN s  PROVE back[p[k]] = k
  BY <1>1, <1>3 DEF Permutes
<1>5. Permutes(back, t)
  <2>1. back \in [DOMAIN s -> DOMAIN s]
    BY <1>3
  <2>2. \A j \in DOMAIN s : \E k \in DOMAIN s : back[k] = j
    BY <1>1, <1>4 DEF Permutes
  <2>3. \A j, k \in DOMAIN s : back[j] = back[k] => j = k
    BY <1>3
  <2> QED BY <1>2, <2>1, <2>2, <2>3 DEF Permutes
<1>6. s = At(t, back)
  <2>1. \A i \in DOMAIN s : t[back[i]] = s[i]
    BY <1>1, <1>2, <1>3 DEF At
  <2>2. DOMAIN back = DOMAIN s
    OBVIOUS
  <2>3. s = [i \in DOMAIN s |-> s[i]]
    BY SequenceShape DEF Reordered, IsSequence
  <2> HIDE DEF back
  <2> QED BY <2>1, <2>2, <2>3 DEF At
<1> HIDE DEF back
<1> QED BY <1>2, <1>5, <1>6 DEF Reordered

\* When no two rows have the same key there is one way to sort them.
LEMMA OneWayToSort ==
    ASSUME NEW n \in Nat, NEW m \in Nat, NEW keys \in [1..n -> [1..m -> Int]],
           \A i, j \in 1..n : keys[i] = keys[j] => i = j,
           NEW q, Sorts(q, n, keys), NEW r, Sorts(r, n, keys)
    PROVE  q = r
<1> DEFINE differ == {k \in 1..n : q[k] # r[k]}
<1>1. /\ q \in [1..n -> 1..n] /\ r \in [1..n -> 1..n]
      /\ \A i \in 1..n : \E k \in 1..n : q[k] = i
      /\ \A i \in 1..n : \E k \in 1..n : r[k] = i
      /\ \A j, k \in 1..n : q[j] = q[k] => j = k
      /\ \A j, k \in 1..n : r[j] = r[k] => j = k
  BY DEF Sorts
<1>2. \A j, k \in 1..n : j < k => /\ LexLess(keys[q[j]], keys[q[k]])
                                  /\ LexLess(keys[r[j]], keys[r[k]])
  <2> SUFFICES ASSUME NEW j \in 1..n, NEW k \in 1..n, j < k
               PROVE  LexLess(keys[q[j]], keys[q[k]]) /\ LexLess(keys[r[j]], keys[r[k]])
    OBVIOUS
  <2>1. /\ q[j] # q[k] /\ q[j] \in 1..n /\ q[k] \in 1..n
        /\ r[j] # r[k] /\ r[j] \in 1..n /\ r[k] \in 1..n
    BY <1>1
  <2>2. keys[q[j]] # keys[q[k]] /\ keys[r[j]] # keys[r[k]]
    BY <2>1
  <2> QED BY <2>2 DEF Sorts
<1>3. ASSUME differ # {}  PROVE FALSE
  <2>1. differ \in SUBSET (1..n)
    OBVIOUS
  <2>2. PICK k \in differ : \A j \in differ : k <= j
    <3> HIDE DEF differ
    <3> QED BY <1>3, <2>1, FirstPosition
  <2>3. k \in 1..n /\ q[k] # r[k] /\ \A j \in 1..n : j < k => q[j] = r[j]
    BY <2>2
  <2>4. PICK a \in 1..n : r[a] = q[k]
    BY <1>1, <2>3
  <2>5. PICK b \in 1..n : q[b] = r[k]
    BY <1>1, <2>3
  <2>6. k < a /\ k < b
    <3>1. ASSUME a < k  PROVE FALSE
      <4>1. r[a] = q[a]
        BY <2>3, <3>1
      <4>2. q[a] = q[k]
        BY <2>4, <4>1
      <4>3. a = k
        BY <1>1, <2>3, <4>2
      <4> QED BY <3>1, <4>3
    <3>2. ASSUME b < k  PROVE FALSE
      <4>1. r[b] = q[b]
        BY <2>3, <3>2
      <4>2. r[b] = r[k]
        BY <2>5, <4>1
      <4>3. b = k
        BY <1>1, <2>3, <4>2
      <4> QED BY <3>2, <4>3
    <3>3. a # k /\ b # k
      BY <2>3, <2>4, <2>5
    <3> QED BY <2>3, <3>1, <3>2, <3>3
  <2>7. LexLess(keys[r[k]], keys[q[k]]) /\ LexLess(keys[q[k]], keys[r[k]])
    BY <1>2, <2>3, <2>4, <2>5, <2>6
  <2>8. keys[q[k]] \in [1..m -> Int] /\ keys[r[k]] \in [1..m -> Int]
    BY <1>1, <2>3
  <2> QED BY <2>7, <2>8, LexLessOrders
<1>4. \A k \in 1..n : q[k] = r[k]
  BY <1>3
<1>5. q = [k \in 1..n |-> q[k]] /\ r = [k \in 1..n |-> r[k]]
  BY <1>1
<1> QED BY <1>4, <1>5

\* s sorted by the key that each of its rows has.
Sorted(s, keyOf) ==
    At(s, InOrder(DOMAIN s, KeyOrder([i \in DOMAIN s |-> keyOf[s[i]]])))

Distinguishes(keyOf, s) ==
    /\ \E m \in Nat : keyOf \in [ToSet(s) -> [1..m -> Int]]
    /\ \A i, j \in DOMAIN s : keyOf[s[i]] = keyOf[s[j]] => i = j

LEMMA KeysDistinguish ==
    ASSUME NEW s, NEW m \in Nat, NEW keyOf \in [ToSet(s) -> [1..m -> Int]],
           \A i, j \in DOMAIN s : keyOf[s[i]] = keyOf[s[j]] => i = j
    PROVE  Distinguishes(keyOf, s)
BY DEF Distinguishes

LEMMA SortedIsReordered ==
    ASSUME NEW s, IsSequence(s), NEW m \in Nat, NEW keyOf \in [ToSet(s) -> [1..m -> Int]]
    PROVE  Reordered(s, Sorted(s, keyOf))
<1> DEFINE keys == [i \in DOMAIN s |-> keyOf[s[i]]]
           q == InOrder(DOMAIN s, KeyOrder(keys))
<1>1. keys \in [DOMAIN s -> [1..m -> Int]]
  BY DEF ToSet
<1>2. DOMAIN s = 1..Len(s)
  BY SequenceShape
<1>3. Sorts(q, Len(s), keys)
  <2> HIDE DEF keys
  <2> QED BY <1>1, SortedRows
<1> HIDE DEF q
<1>4. Permutes(q, s)
  BY <1>2, <1>3 DEF Sorts, Permutes
<1> QED BY <1>4 DEF Reordered, Sorted, q

LEMMA SortingIgnoresOrder ==
    ASSUME NEW s, NEW t, Reordered(s, t), NEW keyOf, Distinguishes(keyOf, s)
    PROVE  Sorted(t, keyOf) = Sorted(s, keyOf)
<1>1. PICK p : Permutes(p, s) /\ t = At(s, p)
  BY DEF Reordered
<1>2. PICK m \in Nat : keyOf \in [ToSet(s) -> [1..m -> Int]]
  BY DEF Distinguishes
<1>3. /\ IsSequence(t) /\ DOMAIN t = DOMAIN s /\ ToSet(t) = ToSet(s)
      /\ Len(s) \in Nat /\ DOMAIN s = 1..Len(s) /\ IsSequence(s)
      /\ Len(t) = Len(s)
  BY ReorderedRows, SequenceShape
<1> DEFINE n == Len(s)
           keys == [i \in DOMAIN s |-> keyOf[s[i]]]
           q == InOrder(DOMAIN s, KeyOrder(keys))
           keysOfT == [i \in DOMAIN t |-> keyOf[t[i]]]
           r == InOrder(DOMAIN t, KeyOrder(keysOfT))
           back == [k \in 1..n |-> p[r[k]]]
<1>4. p \in [1..n -> 1..n] /\ \A i \in 1..n : t[i] = s[p[i]]
  BY <1>1, <1>3 DEF Permutes, At
<1>5. /\ keys \in [1..n -> [1..m -> Int]]
      /\ keysOfT \in [1..n -> [1..m -> Int]]
      /\ \A i \in 1..n : keysOfT[i] = keys[p[i]]
      /\ \A i, j \in 1..n : keys[i] = keys[j] => i = j
  <2>1. \A i \in 1..n : s[i] \in ToSet(s) /\ t[i] \in ToSet(s)
    BY <1>3 DEF ToSet
  <2> QED BY <1>2, <1>3, <1>4, <2>1 DEF Distinguishes
<1>6. Sorts(q, n, keys) /\ Sorts(r, n, keysOfT)
  <2> HIDE DEF keys, keysOfT
  <2> QED BY <1>3, <1>5, SortedRows
<1> HIDE DEF q, r, keys, keysOfT
<1>7. Sorts(back, n, keys)
  <2>1. back \in [1..n -> 1..n] /\ \A k \in 1..n : r[k] \in 1..n /\ back[k] = p[r[k]]
    BY <1>4, <1>6 DEF Sorts
  <2>2. ASSUME NEW j \in 1..n, NEW k \in 1..n, back[j] = back[k]
        PROVE  j = k
    <3>1. p[r[j]] = p[r[k]] /\ r[j] \in DOMAIN s /\ r[k] \in DOMAIN s
      BY <1>3, <2>1, <2>2
    <3>2. r[j] = r[k]
      BY <1>1, <3>1 DEF Permutes
    <3> QED BY <1>6, <3>2 DEF Sorts
  <2>3. \A i \in 1..n : \E k \in 1..n : back[k] = i
    <3> SUFFICES ASSUME NEW i \in 1..n  PROVE \E k \in 1..n : back[k] = i
      OBVIOUS
    <3>1. PICK j \in 1..n : p[j] = i
      BY <1>1, <1>3 DEF Permutes
    <3>2. PICK k \in 1..n : r[k] = j
      BY <1>6 DEF Sorts
    <3> QED BY <2>1, <3>1, <3>2
  <2>4. ASSUME NEW j \in 1..n, NEW k \in 1..n, j < k
        PROVE  LexLess(keys[back[j]], keys[back[k]])
    <3>1. \/ LexLess(keysOfT[r[j]], keysOfT[r[k]])
          \/ keysOfT[r[j]] = keysOfT[r[k]] /\ r[j] < r[k]
      BY <1>6, <2>4 DEF Sorts
    <3>2. keysOfT[r[j]] = keys[back[j]] /\ keysOfT[r[k]] = keys[back[k]]
      BY <1>5, <2>1
    <3>3. keys[back[j]] # keys[back[k]]
      <4>1. back[j] # back[k] /\ back[j] \in 1..n /\ back[k] \in 1..n
        BY <2>1, <2>2, <2>4
      <4> QED BY <1>5, <4>1
    <3> QED BY <3>1, <3>2, <3>3
  <2> HIDE DEF back
  <2> QED BY <2>1, <2>2, <2>3, <2>4 DEF Sorts
<1> HIDE DEF back
<1>8. back = q
  BY <1>3, <1>5, <1>6, <1>7, OneWayToSort
<1>9. DOMAIN q = 1..n /\ DOMAIN r = 1..n
  BY <1>6 DEF Sorts
<1>10. \A k \in 1..n : t[r[k]] = s[q[k]]
  <2>1. \A k \in 1..n : r[k] \in 1..n
    BY <1>6 DEF Sorts
  <2> QED BY <1>4, <1>8, <2>1 DEF back
<1>11. At(t, r) = At(s, q)
  BY <1>9, <1>10 DEF At
<1> QED BY <1>11 DEF Sorted, q, r, keys, keysOfT

-----------------------------------------------------------------------------
(* The tables of a catalog, sorted.                                        *)

ByKey(rows) == [row \in rows |-> <<row.key>>]

ByMembership(rows) == [row \in rows |-> MembershipIdentity(row)]

ByTaxRule(rows) == [row \in rows |-> TaxRulePosition(row)]

ByWarning(rows) == [row \in rows |-> CatalogWarningIdentity(row)]

LEMMA SingleAndQuadruple ==
    ASSUME NEW a \in Int, NEW b \in Int, NEW c \in Int, NEW d \in Int
    PROVE  <<a>> \in [1..1 -> Int] /\ <<a, b, c, d>> \in [1..4 -> Int]
<1>1. DOMAIN <<a>> = 1..1 /\ DOMAIN <<a, b, c, d>> = 1..4
  OBVIOUS
<1>2. \A i \in 1..1 : <<a>>[i] \in Int
  OBVIOUS
<1>3. \A i \in 1..4 : <<a, b, c, d>>[i] \in Int
  OBVIOUS
<1> QED BY <1>1, <1>2, <1>3

\* SortOn unfolds to this, whatever the key.
LEMMA SortedUnfolds ==
    ASSUME NEW s, IsSequence(s), NEW m \in Nat, NEW keyOf \in [ToSet(s) -> [1..m -> Int]],
           NEW keys \in [DOMAIN s -> [1..m -> Int]], \A i \in DOMAIN s : keys[i] = keyOf[s[i]]
    PROVE  /\ Sorted(s, keyOf) = At(s, InOrder(DOMAIN s, KeyOrder(keys)))
           /\ DOMAIN InOrder(DOMAIN s, KeyOrder(keys)) = DOMAIN s
<1>1. keys = [i \in DOMAIN s |-> keyOf[s[i]]]
  OBVIOUS
<1>2. DOMAIN InOrder(DOMAIN s, KeyOrder(keys)) = DOMAIN s
  BY SortedRows
<1> QED BY <1>1, <1>2 DEF Sorted

LEMMA SortOnKeyIs ==
    ASSUME NEW s, IsSequence(s), \A i \in DOMAIN s : s[i].key \in Int
    PROVE  /\ ByKey(ToSet(s)) \in [ToSet(s) -> [1..1 -> Int]]
           /\ SortOn(s, LAMBDA row : <<row.key>>) = Sorted(s, ByKey(ToSet(s)))
<1> DEFINE keyOf == ByKey(ToSet(s))
           keys == [i \in DOMAIN s |-> <<s[i].key>>]
<1>1. \A row \in ToSet(s) : <<row.key>> \in [1..1 -> Int]
  <2>1. \A row \in ToSet(s) : row.key \in Int
    BY DEF ToSet
  <2> QED BY <2>1, SingleAndQuadruple
<1>2. keyOf \in [ToSet(s) -> [1..1 -> Int]]
  BY <1>1 DEF ByKey
<1>3. keys \in [DOMAIN s -> [1..1 -> Int]] /\ \A i \in DOMAIN s : keys[i] = keyOf[s[i]]
  BY <1>1 DEF ByKey, ToSet
<1>4. SortOn(s, LAMBDA row : <<row.key>>) = [k \in DOMAIN s |-> s[InOrder(DOMAIN s, KeyOrder(keys))[k]]]
  BY DEF SortOn
<1> HIDE DEF keyOf, keys
<1>5. /\ Sorted(s, keyOf) = At(s, InOrder(DOMAIN s, KeyOrder(keys)))
      /\ DOMAIN InOrder(DOMAIN s, KeyOrder(keys)) = DOMAIN s
  BY <1>2, <1>3, SortedUnfolds
<1>6. At(s, InOrder(DOMAIN s, KeyOrder(keys))) = [k \in DOMAIN s |-> s[InOrder(DOMAIN s, KeyOrder(keys))[k]]]
  BY <1>5 DEF At
<1> QED BY <1>2, <1>4, <1>5, <1>6, Zenon DEF keyOf

LEMMA SortOnMembershipIs ==
    ASSUME NEW s, IsSequence(s), \A i \in DOMAIN s : s[i].item \in Int /\ s[i].bucket \in Int
    PROVE  /\ ByMembership(ToSet(s)) \in [ToSet(s) -> [1..2 -> Int]]
           /\ SortOn(s, MembershipIdentity) = Sorted(s, ByMembership(ToSet(s)))
<1> DEFINE keyOf == ByMembership(ToSet(s))
           keys == [i \in DOMAIN s |-> MembershipIdentity(s[i])]
<1>1. \A row \in ToSet(s) : MembershipIdentity(row) \in [1..2 -> Int]
  <2>1. \A row \in ToSet(s) : row.item \in Int /\ row.bucket \in Int
    BY DEF ToSet
  <2> QED BY <2>1, Parts DEF MembershipIdentity
<1>2. keyOf \in [ToSet(s) -> [1..2 -> Int]]
  BY <1>1 DEF ByMembership
<1>3. keys \in [DOMAIN s -> [1..2 -> Int]] /\ \A i \in DOMAIN s : keys[i] = keyOf[s[i]]
  BY <1>1 DEF ByMembership, ToSet
<1>4. SortOn(s, MembershipIdentity) = [k \in DOMAIN s |-> s[InOrder(DOMAIN s, KeyOrder(keys))[k]]]
  BY DEF SortOn
<1> HIDE DEF keyOf, keys
<1>5. /\ Sorted(s, keyOf) = At(s, InOrder(DOMAIN s, KeyOrder(keys)))
      /\ DOMAIN InOrder(DOMAIN s, KeyOrder(keys)) = DOMAIN s
  BY <1>2, <1>3, SortedUnfolds
<1>6. At(s, InOrder(DOMAIN s, KeyOrder(keys))) = [k \in DOMAIN s |-> s[InOrder(DOMAIN s, KeyOrder(keys))[k]]]
  BY <1>5 DEF At
<1> QED BY <1>2, <1>4, <1>5, <1>6, Zenon DEF keyOf

LEMMA SortOnTaxRuleIs ==
    ASSUME NEW s, IsSequence(s), \A i \in DOMAIN s : TaxRulePosition(s[i]) \in [1..4 -> Int]
    PROVE  /\ ByTaxRule(ToSet(s)) \in [ToSet(s) -> [1..4 -> Int]]
           /\ SortOn(s, TaxRulePosition) = Sorted(s, ByTaxRule(ToSet(s)))
<1> DEFINE keyOf == ByTaxRule(ToSet(s))
           keys == [i \in DOMAIN s |-> TaxRulePosition(s[i])]
<1>1. \A row \in ToSet(s) : TaxRulePosition(row) \in [1..4 -> Int]
  BY DEF ToSet
<1>2. keyOf \in [ToSet(s) -> [1..4 -> Int]]
  BY <1>1 DEF ByTaxRule
<1>3. keys \in [DOMAIN s -> [1..4 -> Int]] /\ \A i \in DOMAIN s : keys[i] = keyOf[s[i]]
  BY <1>1 DEF ByTaxRule, ToSet
<1>4. SortOn(s, TaxRulePosition) = [k \in DOMAIN s |-> s[InOrder(DOMAIN s, KeyOrder(keys))[k]]]
  BY DEF SortOn
<1> HIDE DEF keyOf, keys
<1>5. /\ Sorted(s, keyOf) = At(s, InOrder(DOMAIN s, KeyOrder(keys)))
      /\ DOMAIN InOrder(DOMAIN s, KeyOrder(keys)) = DOMAIN s
  BY <1>2, <1>3, SortedUnfolds, ZenonT(40)
<1>6. At(s, InOrder(DOMAIN s, KeyOrder(keys))) = [k \in DOMAIN s |-> s[InOrder(DOMAIN s, KeyOrder(keys))[k]]]
  BY <1>5 DEF At
<1> QED BY <1>2, <1>4, <1>5, <1>6, Zenon DEF keyOf

LEMMA SortOnWarningIs ==
    ASSUME NEW s, IsSequence(s), \A i \in DOMAIN s : CatalogWarningIdentity(s[i]) \in [1..4 -> Int]
    PROVE  /\ ByWarning(ToSet(s)) \in [ToSet(s) -> [1..4 -> Int]]
           /\ SortOn(s, CatalogWarningIdentity) = Sorted(s, ByWarning(ToSet(s)))
<1> DEFINE keyOf == ByWarning(ToSet(s))
           keys == [i \in DOMAIN s |-> CatalogWarningIdentity(s[i])]
<1>1. \A row \in ToSet(s) : CatalogWarningIdentity(row) \in [1..4 -> Int]
  BY DEF ToSet
<1>2. keyOf \in [ToSet(s) -> [1..4 -> Int]]
  BY <1>1 DEF ByWarning
<1>3. keys \in [DOMAIN s -> [1..4 -> Int]] /\ \A i \in DOMAIN s : keys[i] = keyOf[s[i]]
  BY <1>1 DEF ByWarning, ToSet
<1>4. SortOn(s, CatalogWarningIdentity) = [k \in DOMAIN s |-> s[InOrder(DOMAIN s, KeyOrder(keys))[k]]]
  BY DEF SortOn
<1> HIDE DEF keyOf, keys
<1>5. /\ Sorted(s, keyOf) = At(s, InOrder(DOMAIN s, KeyOrder(keys)))
      /\ DOMAIN InOrder(DOMAIN s, KeyOrder(keys)) = DOMAIN s
  BY <1>2, <1>3, SortedUnfolds, ZenonT(40)
<1>6. At(s, InOrder(DOMAIN s, KeyOrder(keys))) = [k \in DOMAIN s |-> s[InOrder(DOMAIN s, KeyOrder(keys))[k]]]
  BY <1>5 DEF At
<1> QED BY <1>2, <1>4, <1>5, <1>6, Zenon DEF keyOf

-----------------------------------------------------------------------------
(* A catalog whose rows were delivered in another order.                   *)

ReorderedCatalog(c, d) ==
    /\ DOMAIN d = CatalogTables
    /\ \A table \in CatalogTables : Reordered(c[table], d[table])

\* The keys and positions of an accepted catalog are numbers.
LEMMA KeysOfCatalog ==
    ASSUME NEW c, WellFormedCatalog(c), AcceptedCatalog(c)
    PROVE  /\ \A table \in CatalogTables : IsSequence(c[table])
           /\ \A i \in DOMAIN c.categories : c.categories[i].key \in Int
           /\ \A i \in DOMAIN c.items : c.items[i].key \in Int
           /\ \A i \in DOMAIN c.buckets : c.buckets[i].key \in Int
           /\ \A i \in DOMAIN c.memberships :
                 c.memberships[i].item \in Int /\ c.memberships[i].bucket \in Int
           /\ \A i \in DOMAIN c.taxRules : TaxRulePosition(c.taxRules[i]) \in [1..4 -> Int]
           /\ \A i \in DOMAIN c.constraints : c.constraints[i].key \in Int
           /\ \A i \in DOMAIN c.warnings : CatalogWarningIdentity(c.warnings[i]) \in [1..4 -> Int]
           /\ \A i \in DOMAIN c.evidence : c.evidence[i].key \in Int
<1>1. /\ \A i \in DOMAIN c.categories : c.categories[i].key \in Int
      /\ \A i \in DOMAIN c.items : c.items[i].key \in Int
      /\ \A i \in DOMAIN c.buckets : c.buckets[i].key \in Int
      /\ \A i \in DOMAIN c.constraints : c.constraints[i].key \in Int
      /\ \A i \in DOMAIN c.warnings : c.warnings[i].code \in Int
  BY DEF AcceptedCatalog, AcceptedRows, AcceptedCatalogItem, AcceptedCatalogBucket,
         AcceptedCatalogConstraint, AcceptedCatalogWarning, IsIdentityKey, IsRuleKey
<1>2. /\ \A i \in DOMAIN c.memberships :
            c.memberships[i].item \in Int /\ c.memberships[i].bucket \in Int
      /\ \A i \in DOMAIN c.taxRules : /\ c.taxRules[i].category \in Int \cup {Null}
                                      /\ c.taxRules[i].item \in Int \cup {Null}
      /\ \A i \in DOMAIN c.warnings : c.warnings[i].item \in Int \cup {Null}
  <2>1. KeysOf(c.items) \subseteq Int /\ KeysOf(c.categories) \subseteq Int /\ KeysOf(c.buckets) \subseteq Int
    BY <1>1 DEF KeysOf
  <2>2. ReferencesResolve(c)
    BY DEF AcceptedCatalog
  <2> QED BY <2>1, <2>2 DEF ReferencesResolve
<1>3. ASSUME NEW i \in DOMAIN c.taxRules  PROVE TaxRulePosition(c.taxRules[i]) \in [1..4 -> Int]
  <2>1. /\ ScopeOrder[c.taxRules[i].scope] \in Int /\ -c.taxRules[i].priority \in Int
    BY DEF WellFormedCatalog, ScopeOrder
  <2>2. OrZero(c.taxRules[i].category) \in Int /\ OrZero(c.taxRules[i].item) \in Int
    BY <1>2 DEF OrZero
  <2> QED BY <2>1, <2>2, SingleAndQuadruple DEF TaxRulePosition
<1>4. ASSUME NEW i \in DOMAIN c.warnings  PROVE CatalogWarningIdentity(c.warnings[i]) \in [1..4 -> Int]
  <2>1. ScopeOrder[c.warnings[i].scope] \in Int /\ SeverityOrder[c.warnings[i].severity] \in Int
    BY DEF WellFormedCatalog, ScopeOrder, SeverityOrder
  <2>2. OrZero(c.warnings[i].item) \in Int
    BY <1>2 DEF OrZero
  <2> QED BY <1>1, <2>1, <2>2, SingleAndQuadruple DEF CatalogWarningIdentity
<1>5. /\ \A table \in CatalogTables : IsSequence(c[table])
      /\ \A i \in DOMAIN c.evidence : c.evidence[i].key \in Int
  BY DEF WellFormedCatalog, IsSequence
<1> QED BY <1>1, <1>2, <1>3, <1>4, <1>5

\* Each table of the canonical form is the table sorted by its key.
SortedTables(c) ==
    [capabilities |-> ToSet(c.capabilities),
     categories |-> Sorted(c.categories, ByKey(ToSet(c.categories))),
     items |-> Sorted(c.items, ByKey(ToSet(c.items))),
     buckets |-> Sorted(c.buckets, ByKey(ToSet(c.buckets))),
     memberships |-> Sorted(c.memberships, ByMembership(ToSet(c.memberships))),
     taxRules |-> Sorted(c.taxRules, ByTaxRule(ToSet(c.taxRules))),
     constraints |-> Sorted(c.constraints, ByKey(ToSet(c.constraints))),
     warnings |-> Sorted(c.warnings, ByWarning(ToSet(c.warnings))),
     evidence |-> Sorted(c.evidence, ByKey(ToSet(c.evidence)))]

LEMMA CanonicalTables ==
    ASSUME NEW c, WellFormedCatalog(c), AcceptedCatalog(c)
    PROVE  CanonicalCatalog(c) = SortedTables(c)
<1> USE KeysOfCatalog
<1>1. DOMAIN c = CatalogTables
  BY DEF WellFormedCatalog
<1>2. /\ SortOn(c.categories, LAMBDA row : <<row.key>>) = SortedTables(c).categories
      /\ SortOn(c.items, LAMBDA row : <<row.key>>) = SortedTables(c).items
      /\ SortOn(c.buckets, LAMBDA row : <<row.key>>) = SortedTables(c).buckets
      /\ SortOn(c.constraints, LAMBDA row : <<row.key>>) = SortedTables(c).constraints
      /\ SortOn(c.evidence, LAMBDA row : <<row.key>>) = SortedTables(c).evidence
  <2>1. /\ SortOn(c.categories, LAMBDA row : <<row.key>>) = Sorted(c.categories, ByKey(ToSet(c.categories)))
        /\ SortOn(c.items, LAMBDA row : <<row.key>>) = Sorted(c.items, ByKey(ToSet(c.items)))
        /\ SortOn(c.buckets, LAMBDA row : <<row.key>>) = Sorted(c.buckets, ByKey(ToSet(c.buckets)))
        /\ SortOn(c.constraints, LAMBDA row : <<row.key>>) = Sorted(c.constraints, ByKey(ToSet(c.constraints)))
        /\ SortOn(c.evidence, LAMBDA row : <<row.key>>) = Sorted(c.evidence, ByKey(ToSet(c.evidence)))
    BY SortOnKeyIs, Zenon DEF CatalogTables
  <2>2. /\ SortedTables(c).categories = Sorted(c.categories, ByKey(ToSet(c.categories)))
        /\ SortedTables(c).items = Sorted(c.items, ByKey(ToSet(c.items)))
        /\ SortedTables(c).buckets = Sorted(c.buckets, ByKey(ToSet(c.buckets)))
        /\ SortedTables(c).constraints = Sorted(c.constraints, ByKey(ToSet(c.constraints)))
        /\ SortedTables(c).evidence = Sorted(c.evidence, ByKey(ToSet(c.evidence)))
    BY DEF SortedTables
  <2> QED BY <2>1, <2>2, Zenon
<1>3. /\ SortOn(c.memberships, MembershipIdentity) = SortedTables(c).memberships
      /\ SortOn(c.taxRules, TaxRulePosition) = SortedTables(c).taxRules
      /\ SortOn(c.warnings, CatalogWarningIdentity) = SortedTables(c).warnings
  <2>1. SortOn(c.memberships, MembershipIdentity) = Sorted(c.memberships, ByMembership(ToSet(c.memberships)))
    BY SortOnMembershipIs, Zenon DEF CatalogTables
  <2>2. SortOn(c.taxRules, TaxRulePosition) = Sorted(c.taxRules, ByTaxRule(ToSet(c.taxRules)))
    BY SortOnTaxRuleIs, Zenon DEF CatalogTables
  <2>3. SortOn(c.warnings, CatalogWarningIdentity) = Sorted(c.warnings, ByWarning(ToSet(c.warnings)))
    BY SortOnWarningIs, Zenon DEF CatalogTables
  <2>4. /\ SortedTables(c).memberships = Sorted(c.memberships, ByMembership(ToSet(c.memberships)))
        /\ SortedTables(c).taxRules = Sorted(c.taxRules, ByTaxRule(ToSet(c.taxRules)))
        /\ SortedTables(c).warnings = Sorted(c.warnings, ByWarning(ToSet(c.warnings)))
    BY DEF SortedTables
  <2> QED BY <2>1, <2>2, <2>3, <2>4, Zenon
<1>4. SortedTables(c).capabilities = ToSet(c.capabilities)
  BY DEF SortedTables
<1>5. DOMAIN SortedTables(c) = CatalogTables /\ SortedTables(c) = [table \in CatalogTables |-> SortedTables(c)[table]]
  BY DEF SortedTables, CatalogTables
<1>6. CanonicalCatalog(c) =
        [c EXCEPT !.capabilities = SortedTables(c).capabilities,
                  !.categories = SortedTables(c).categories,
                  !.items = SortedTables(c).items,
                  !.buckets = SortedTables(c).buckets,
                  !.memberships = SortedTables(c).memberships,
                  !.taxRules = SortedTables(c).taxRules,
                  !.constraints = SortedTables(c).constraints,
                  !.warnings = SortedTables(c).warnings,
                  !.evidence = SortedTables(c).evidence]
  BY <1>2, <1>3, <1>4, Zenon DEF CanonicalCatalog
<1> QED BY <1>1, <1>5, <1>6 DEF CatalogTables

-----------------------------------------------------------------------------
(* The order of the rows is irrelevant.                                    *)

\* A set has at most one member when all its members are equal.
LEMMA AtMostOneMember ==
    ASSUME NEW S, IsFiniteSet(S)
    PROVE  Cardinality(S) <= 1 <=> \A x, y \in S : x = y
<1>1. ASSUME Cardinality(S) <= 1, NEW x \in S, NEW y \in S, x # y  PROVE FALSE
  <2>1. {x, y} \in SUBSET S
    OBVIOUS
  <2>2. Cardinality({x, y}) <= Cardinality(S)
    BY <2>1, FS_Subset
  <2>3. Cardinality({y} \cup {x}) = Cardinality({y}) + 1
    BY <1>1, FS_Singleton, FS_AddElement
  <2>4. Cardinality({y}) = 1 /\ {y} \cup {x} = {x, y}
    BY FS_Singleton
  <2>5. Cardinality({x, y}) = 2
    BY <2>3, <2>4
  <2>6. Cardinality(S) \in Nat
    BY FS_CardinalityType
  <2> QED BY <1>1, <2>2, <2>5, <2>6
<1>2. ASSUME \A x, y \in S : x = y  PROVE Cardinality(S) <= 1
  <2>1. CASE S = {}
    BY <2>1, FS_EmptySet
  <2>2. CASE S # {}
    <3>1. PICK x \in S : TRUE
      BY <2>2
    <3>2. S = {x}
      BY <1>2, <3>1
    <3> QED BY <3>2, FS_Singleton
  <2> QED BY <2>1, <2>2
<1> QED BY <1>1, <1>2

\* Each row of t is a row of s, and two rows of t are two rows of s.
LEMMA RowsOfReordered ==
    ASSUME NEW s, NEW t, Reordered(s, t)
    PROVE  \E p \in [DOMAIN t -> DOMAIN s] :
              /\ \A i \in DOMAIN t : t[i] = s[p[i]]
              /\ \A i, j \in DOMAIN t : p[i] = p[j] => i = j
<1>1. PICK p : Permutes(p, s) /\ t = At(s, p)
  BY DEF Reordered
<1>2. DOMAIN t = DOMAIN s
  BY ReorderedRows
<1>3. p \in [DOMAIN t -> DOMAIN s] /\ \A i, j \in DOMAIN t : p[i] = p[j] => i = j
  BY <1>1, <1>2 DEF Permutes
<1>4. \A i \in DOMAIN t : t[i] = s[p[i]]
  BY <1>1, <1>2 DEF At, Permutes
<1> QED BY <1>3, <1>4

LEMMA KeysOfReordered ==
    ASSUME NEW s, NEW t, Reordered(s, t)
    PROVE  KeysOf(t) = KeysOf(s)
<1>1. ASSUME NEW u, NEW v, Reordered(u, v)  PROVE KeysOf(v) \subseteq KeysOf(u)
  <2>1. PICK p \in [DOMAIN v -> DOMAIN u] : \A i \in DOMAIN v : v[i] = u[p[i]]
    BY <1>1, RowsOfReordered
  <2> QED BY <2>1 DEF KeysOf
<1>2. KeysOf(t) \subseteq KeysOf(s)
  BY <1>1
<1>3. KeysOf(s) \subseteq KeysOf(t)
  BY <1>1, ReorderedBack
<1> QED BY <1>2, <1>3

\* A row that may occur once.
LEMMA AtMostOneReordered ==
    ASSUME NEW s, NEW t, Reordered(s, t), NEW S \in SUBSET DOMAIN s, NEW T \in SUBSET DOMAIN t,
           \A i \in DOMAIN s, k \in DOMAIN t : t[k] = s[i] => (i \in S <=> k \in T),
           Cardinality(S) <= 1
    PROVE  Cardinality(T) <= 1
<1>1. PICK p \in [DOMAIN t -> DOMAIN s] :
              /\ \A i \in DOMAIN t : t[i] = s[p[i]]
              /\ \A i, j \in DOMAIN t : p[i] = p[j] => i = j
  BY RowsOfReordered
<1>2. IsFiniteSet(S) /\ IsFiniteSet(T)
  <2>1. DOMAIN s = 1..Len(s) /\ Len(s) \in Nat /\ DOMAIN t = DOMAIN s
    BY ReorderedRows, SequenceShape
  <2>2. IsFiniteSet(1..Len(s))
    BY <2>1, FS_Interval
  <2> QED BY <2>1, <2>2, FS_Subset
<1>3. \A x, y \in S : x = y
  BY <1>2, AtMostOneMember
<1>4. \A k \in T : p[k] \in S
  BY <1>1
<1>5. \A j, k \in T : j = k
  BY <1>1, <1>3, <1>4
<1> QED BY <1>2, <1>5, AtMostOneMember

\* What each row of every table satisfies, each row of d satisfies.
LEMMA TablesOfReordered ==
    ASSUME NEW c, NEW d, ReorderedCatalog(c, d), NEW table \in CatalogTables
    PROVE  /\ IsSequence(d[table]) /\ IsSequence(c[table])
           /\ Len(d[table]) = Len(c[table]) /\ DOMAIN d[table] = DOMAIN c[table]
           /\ ToSet(d[table]) = ToSet(c[table])
           /\ KeysOf(d[table]) = KeysOf(c[table])
           /\ \A k \in DOMAIN d[table] : \E i \in DOMAIN c[table] : d[table][k] = c[table][i]
           /\ (d[table] = <<>>) <=> (c[table] = <<>>)
<1>1. Reordered(c[table], d[table])
  BY DEF ReorderedCatalog
<1>2. /\ IsSequence(d[table]) /\ IsSequence(c[table])
      /\ Len(d[table]) = Len(c[table]) /\ DOMAIN d[table] = DOMAIN c[table]
      /\ ToSet(d[table]) = ToSet(c[table])
      /\ KeysOf(d[table]) = KeysOf(c[table])
  BY <1>1, ReorderedRows, KeysOfReordered
<1>3. \A k \in DOMAIN d[table] : \E i \in DOMAIN c[table] : d[table][k] = c[table][i]
  BY <1>1, RowsOfReordered
<1>4. (d[table] = <<>>) <=> (c[table] = <<>>)
  BY <1>2 DEF IsSequence
<1> QED BY <1>2, <1>3, <1>4

LEMMA ReorderedIsWellFormed ==
    ASSUME NEW c, NEW d, WellFormedCatalog(c), ReorderedCatalog(c, d)
    PROVE  WellFormedCatalog(d)
<1>1. \A table \in CatalogTables : d[table] \in Seq(ToSet(d[table]))
  BY TablesOfReordered DEF IsSequence
<1>2. \A k \in DOMAIN d.taxRules :
         d.taxRules[k].scope \in DOMAIN ScopeOrder /\ d.taxRules[k].priority \in Int
  <2>1. \A k \in DOMAIN d.taxRules : \E i \in DOMAIN c.taxRules : d.taxRules[k] = c.taxRules[i]
    BY TablesOfReordered DEF CatalogTables
  <2> QED BY <2>1 DEF WellFormedCatalog
<1>3. \A k \in DOMAIN d.warnings :
         /\ d.warnings[k].scope \in {"template", "item"}
         /\ d.warnings[k].severity \in {"warning", "informational"}
  <2>1. \A k \in DOMAIN d.warnings : \E i \in DOMAIN c.warnings : d.warnings[k] = c.warnings[i]
    BY TablesOfReordered DEF CatalogTables
  <2> QED BY <2>1 DEF WellFormedCatalog
<1>4. \A k \in DOMAIN d.evidence : d.evidence[k].key \in Nat
  <2>1. \A k \in DOMAIN d.evidence : \E i \in DOMAIN c.evidence : d.evidence[k] = c.evidence[i]
    BY TablesOfReordered DEF CatalogTables
  <2> QED BY <2>1 DEF WellFormedCatalog
<1>5. \A k \in DOMAIN d.items :
         /\ d.items[k].order \in Int
         /\ d.items[k].availability \in {"available", "unavailable", "unknown"}
  <2>1. \A k \in DOMAIN d.items : \E i \in DOMAIN c.items : d.items[k] = c.items[i]
    BY TablesOfReordered DEF CatalogTables
  <2> QED BY <2>1 DEF WellFormedCatalog
<1>6. /\ \A k \in DOMAIN d.buckets : d.buckets[k].order \in Int /\ d.buckets[k].limitState \in LimitStates
      /\ \A k \in DOMAIN d.constraints :
            d.constraints[k].priority \in Int /\ d.constraints[k].limitState \in LimitStates
  <2>1. /\ \A k \in DOMAIN d.buckets : \E i \in DOMAIN c.buckets : d.buckets[k] = c.buckets[i]
        /\ \A k \in DOMAIN d.constraints : \E i \in DOMAIN c.constraints : d.constraints[k] = c.constraints[i]
    BY TablesOfReordered DEF CatalogTables
  <2> QED BY <2>1 DEF WellFormedCatalog
<1>7. DOMAIN d = CatalogTables
  BY DEF ReorderedCatalog
<1> QED BY <1>1, <1>2, <1>3, <1>4, <1>5, <1>6, <1>7, Zenon DEF WellFormedCatalog

LEMMA ReorderedRowsAreUnique ==
    ASSUME NEW c, NEW d, RowsAreUnique(c), ReorderedCatalog(c, d)
    PROVE  RowsAreUnique(d)
<1> DEFINE Traces(table, p) ==
              /\ p \in [DOMAIN d[table] -> DOMAIN c[table]]
              /\ \A i \in DOMAIN d[table] : d[table][i] = c[table][p[i]]
              /\ \A i, j \in DOMAIN d[table] : p[i] = p[j] => i = j
<1>0. ASSUME NEW table \in CatalogTables  PROVE \E p : Traces(table, p)
  <2>1. Reordered(c[table], d[table])
    BY DEF ReorderedCatalog
  <2> QED BY <2>1, RowsOfReordered
<1>1. UniqueOn(d.capabilities, LAMBDA capability : capability)
  <2>1. PICK p : Traces("capabilities", p)
    BY <1>0 DEF CatalogTables
  <2>2. UniqueOn(c.capabilities, LAMBDA capability : capability)
    BY DEF RowsAreUnique
  <2> QED BY <2>1, <2>2 DEF UniqueOn
<1>2. UniqueOn(d.categories, KeyOf)
  <2>1. PICK p : Traces("categories", p)
    BY <1>0 DEF CatalogTables
  <2>2. UniqueOn(c.categories, KeyOf)
    BY DEF RowsAreUnique
  <2> QED BY <2>1, <2>2 DEF UniqueOn
<1>3. UniqueOn(d.items, KeyOf)
  <2>1. PICK p : Traces("items", p)
    BY <1>0 DEF CatalogTables
  <2>2. UniqueOn(c.items, KeyOf)
    BY DEF RowsAreUnique
  <2> QED BY <2>1, <2>2 DEF UniqueOn
<1>4. UniqueOn(d.buckets, KeyOf)
  <2>1. PICK p : Traces("buckets", p)
    BY <1>0 DEF CatalogTables
  <2>2. UniqueOn(c.buckets, KeyOf)
    BY DEF RowsAreUnique
  <2> QED BY <2>1, <2>2 DEF UniqueOn
<1>5. UniqueOn(d.memberships, MembershipIdentity)
  <2>1. PICK p : Traces("memberships", p)
    BY <1>0 DEF CatalogTables
  <2>2. UniqueOn(c.memberships, MembershipIdentity)
    BY DEF RowsAreUnique
  <2> QED BY <2>1, <2>2 DEF UniqueOn
<1>6. UniqueOn(d.taxRules, TaxRulePosition)
  <2>1. PICK p : Traces("taxRules", p)
    BY <1>0 DEF CatalogTables
  <2>2. UniqueOn(c.taxRules, TaxRulePosition)
    BY DEF RowsAreUnique
  <2> QED BY <2>1, <2>2 DEF UniqueOn
<1>7. UniqueOn(d.constraints, KeyOf)
  <2>1. PICK p : Traces("constraints", p)
    BY <1>0 DEF CatalogTables
  <2>2. UniqueOn(c.constraints, KeyOf)
    BY DEF RowsAreUnique
  <2> QED BY <2>1, <2>2 DEF UniqueOn
<1>8. UniqueOn(d.warnings, CatalogWarningIdentity)
  <2>1. PICK p : Traces("warnings", p)
    BY <1>0 DEF CatalogTables
  <2>2. UniqueOn(c.warnings, CatalogWarningIdentity)
    BY DEF RowsAreUnique
  <2> QED BY <2>1, <2>2 DEF UniqueOn
<1>9. UniqueOn(d.evidence, KeyOf)
  <2>1. PICK p : Traces("evidence", p)
    BY <1>0 DEF CatalogTables
  <2>2. UniqueOn(c.evidence, KeyOf)
    BY DEF RowsAreUnique
  <2> QED BY <2>1, <2>2 DEF UniqueOn
<1> QED BY <1>1, <1>2, <1>3, <1>4, <1>5, <1>6, <1>7, <1>8, <1>9 DEF RowsAreUnique

LEMMA ReorderedRowsAreAccepted ==
    ASSUME NEW c, NEW d, AcceptedRows(c), ReferencesResolve(c), ReorderedCatalog(c, d)
    PROVE  AcceptedRows(d) /\ ReferencesResolve(d)
<1>1. /\ \A k \in DOMAIN d.categories : \E i \in DOMAIN c.categories : d.categories[k] = c.categories[i]
      /\ \A k \in DOMAIN d.items : \E i \in DOMAIN c.items : d.items[k] = c.items[i]
      /\ \A k \in DOMAIN d.buckets : \E i \in DOMAIN c.buckets : d.buckets[k] = c.buckets[i]
      /\ \A k \in DOMAIN d.memberships : \E i \in DOMAIN c.memberships : d.memberships[k] = c.memberships[i]
      /\ \A k \in DOMAIN d.taxRules : \E i \in DOMAIN c.taxRules : d.taxRules[k] = c.taxRules[i]
      /\ \A k \in DOMAIN d.constraints : \E i \in DOMAIN c.constraints : d.constraints[k] = c.constraints[i]
      /\ \A k \in DOMAIN d.warnings : \E i \in DOMAIN c.warnings : d.warnings[k] = c.warnings[i]
  <2>1. \A table \in CatalogTables :
           \A k \in DOMAIN d[table] : \E i \in DOMAIN c[table] : d[table][k] = c[table][i]
    BY TablesOfReordered
  <2> QED BY <2>1 DEF CatalogTables
<1>2. KeysOf(d.items) = KeysOf(c.items) /\ KeysOf(d.categories) = KeysOf(c.categories)
      /\ KeysOf(d.buckets) = KeysOf(c.buckets)
  BY TablesOfReordered DEF CatalogTables
<1>3. AcceptedRows(d)
  BY <1>1 DEF AcceptedRows
<1>4. ReferencesResolve(d)
  BY <1>1, <1>2 DEF ReferencesResolve
<1> QED BY <1>3, <1>4

LEMMA ReorderedKeepsBounds ==
    ASSUME NEW c, NEW d, ReorderedCatalog(c, d),
           WithinContentBounds(c), DeclaresCapabilities(c)
    PROVE  WithinContentBounds(d) /\ DeclaresCapabilities(d)
<1>1. \A table \in CatalogTables : Len(d[table]) = Len(c[table])
  BY TablesOfReordered
<1>2. WithinContentBounds(d)
  BY <1>1 DEF WithinContentBounds, CatalogTables
<1>3. /\ ToSet(d.capabilities) = ToSet(c.capabilities)
      /\ (d.buckets # <<>>) <=> (c.buckets # <<>>)
      /\ (d.constraints # <<>>) <=> (c.constraints # <<>>)
  BY TablesOfReordered DEF CatalogTables
<1>4. {d.taxRules[i].state : i \in DOMAIN d.taxRules} = {c.taxRules[i].state : i \in DOMAIN c.taxRules}
  <2>1. ToSet(d.taxRules) = ToSet(c.taxRules)
    BY TablesOfReordered DEF CatalogTables
  <2>2. /\ {d.taxRules[i].state : i \in DOMAIN d.taxRules} = {rule.state : rule \in ToSet(d.taxRules)}
        /\ {c.taxRules[i].state : i \in DOMAIN c.taxRules} = {rule.state : rule \in ToSet(c.taxRules)}
    BY DEF ToSet
  <2> QED BY <2>1, <2>2
<1>5. DeclaresCapabilities(d)
  BY <1>3, <1>4 DEF DeclaresCapabilities
<1> QED BY <1>2, <1>5

\* The rows marked primary: buckets, and memberships of one item.
PrimaryRows(rows) == {i \in DOMAIN rows : rows[i].primary}

PrimaryOf(rows, key) == {i \in DOMAIN rows : rows[i].item = key /\ rows[i].primary}

LEMMA AcceptedIsPrimaryOnce ==
    ASSUME NEW c
    PROVE  AcceptedCatalog(c) <=>
              /\ WithinContentBounds(c) /\ DeclaresCapabilities(c)
              /\ AcceptedRows(c) /\ RowsAreUnique(c) /\ ReferencesResolve(c)
              /\ Cardinality(PrimaryRows(c.buckets)) <= 1
              /\ \A key \in KeysOf(c.items) : Cardinality(PrimaryOf(c.memberships, key)) <= 1
<1>1. (\A key \in KeysOf(c.items) : Cardinality(PrimaryOf(c.memberships, key)) <= 1)
        <=> \A i \in DOMAIN c.items : Cardinality(PrimaryOf(c.memberships, c.items[i].key)) <= 1
  BY Zenon DEF KeysOf
<1> QED BY <1>1, Zenon DEF AcceptedCatalog, AtMostOne, PrimaryRows, PrimaryOf

LEMMA ReorderedIsAccepted ==
    ASSUME NEW c, NEW d, AcceptedCatalog(c), ReorderedCatalog(c, d)
    PROVE  AcceptedCatalog(d)
<1>1. Reordered(c.buckets, d.buckets) /\ Reordered(c.memberships, d.memberships)
  BY DEF ReorderedCatalog, CatalogTables
<1>2. Cardinality(PrimaryRows(d.buckets)) <= 1
  <2>1. /\ PrimaryRows(c.buckets) \in SUBSET DOMAIN c.buckets
        /\ PrimaryRows(d.buckets) \in SUBSET DOMAIN d.buckets
    BY Zenon DEF PrimaryRows
  <2>2. \A i \in DOMAIN c.buckets, k \in DOMAIN d.buckets :
           d.buckets[k] = c.buckets[i] => (i \in PrimaryRows(c.buckets) <=> k \in PrimaryRows(d.buckets))
    BY Zenon DEF PrimaryRows
  <2>3. Cardinality(PrimaryRows(c.buckets)) <= 1
    BY AcceptedIsPrimaryOnce
  <2> QED BY <1>1, <2>1, <2>2, <2>3, AtMostOneReordered
<1>3. ASSUME NEW key \in KeysOf(d.items)
      PROVE  Cardinality(PrimaryOf(d.memberships, key)) <= 1
  <2>1. /\ PrimaryOf(c.memberships, key) \in SUBSET DOMAIN c.memberships
        /\ PrimaryOf(d.memberships, key) \in SUBSET DOMAIN d.memberships
    BY Zenon DEF PrimaryOf
  <2>2. \A i \in DOMAIN c.memberships, k \in DOMAIN d.memberships :
           d.memberships[k] = c.memberships[i] =>
              (i \in PrimaryOf(c.memberships, key) <=> k \in PrimaryOf(d.memberships, key))
    BY Zenon DEF PrimaryOf
  <2>3. KeysOf(d.items) = KeysOf(c.items)
    BY TablesOfReordered DEF CatalogTables
  <2>4. Cardinality(PrimaryOf(c.memberships, key)) <= 1
    BY <1>3, <2>3, AcceptedIsPrimaryOnce
  <2> QED BY <1>1, <2>1, <2>2, <2>4, AtMostOneReordered
<1>4. /\ WithinContentBounds(d) /\ DeclaresCapabilities(d)
      /\ AcceptedRows(d) /\ RowsAreUnique(d) /\ ReferencesResolve(d)
  BY AcceptedIsPrimaryOnce, ReorderedRowsAreAccepted, ReorderedRowsAreUnique, ReorderedKeepsBounds
<1> QED BY <1>2, <1>3, <1>4, AcceptedIsPrimaryOnce

\* The keys and positions of an accepted catalog tell its rows apart.
LEMMA RowsAreDistinguished ==
    ASSUME NEW c, WellFormedCatalog(c), AcceptedCatalog(c)
    PROVE  /\ \A table \in {"categories", "items", "buckets", "constraints", "evidence"} :
                 Distinguishes(ByKey(ToSet(c[table])), c[table])
           /\ Distinguishes(ByMembership(ToSet(c.memberships)), c.memberships)
           /\ Distinguishes(ByTaxRule(ToSet(c.taxRules)), c.taxRules)
           /\ Distinguishes(ByWarning(ToSet(c.warnings)), c.warnings)
<1>1. RowsAreUnique(c)
  BY DEF AcceptedCatalog
<1>2. ASSUME NEW table \in {"categories", "items", "buckets", "constraints", "evidence"}
      PROVE  Distinguishes(ByKey(ToSet(c[table])), c[table])
  <2>1. IsSequence(c[table]) /\ \A i \in DOMAIN c[table] : c[table][i].key \in Int
    BY KeysOfCatalog DEF CatalogTables
  <2>2. ByKey(ToSet(c[table])) \in [ToSet(c[table]) -> [1..1 -> Int]]
    BY <2>1, SortOnKeyIs
  <2>3. UniqueOn(c[table], KeyOf)
    BY <1>1 DEF RowsAreUnique
  <2>4. \A i \in DOMAIN c[table] : ByKey(ToSet(c[table]))[c[table][i]] = <<c[table][i].key>>
    BY DEF ByKey, ToSet
  <2>5. \A i, j \in DOMAIN c[table] : <<c[table][i].key>> = <<c[table][j].key>> => i = j
    BY <2>3 DEF UniqueOn, KeyOf
  <2>6. \A i, j \in DOMAIN c[table] :
           ByKey(ToSet(c[table]))[c[table][i]] = ByKey(ToSet(c[table]))[c[table][j]] => i = j
    BY <2>4, <2>5
  <2> QED BY <2>2, <2>6, KeysDistinguish
<1>3. Distinguishes(ByMembership(ToSet(c.memberships)), c.memberships)
  <2>1. ByMembership(ToSet(c.memberships)) \in [ToSet(c.memberships) -> [1..2 -> Int]]
    BY KeysOfCatalog, SortOnMembershipIs DEF CatalogTables
  <2>2. \A i \in DOMAIN c.memberships :
           ByMembership(ToSet(c.memberships))[c.memberships[i]] = MembershipIdentity(c.memberships[i])
    BY DEF ByMembership, ToSet
  <2>3. \A i, j \in DOMAIN c.memberships :
           MembershipIdentity(c.memberships[i]) = MembershipIdentity(c.memberships[j]) => i = j
    BY <1>1 DEF RowsAreUnique, UniqueOn
  <2>4. \A i, j \in DOMAIN c.memberships :
           ByMembership(ToSet(c.memberships))[c.memberships[i]] = ByMembership(ToSet(c.memberships))[c.memberships[j]] => i = j
    BY <2>2, <2>3
  <2> QED BY <2>1, <2>4, KeysDistinguish
<1>4. Distinguishes(ByTaxRule(ToSet(c.taxRules)), c.taxRules)
  <2>1. ByTaxRule(ToSet(c.taxRules)) \in [ToSet(c.taxRules) -> [1..4 -> Int]]
    BY KeysOfCatalog, SortOnTaxRuleIs DEF CatalogTables
  <2>2. \A i \in DOMAIN c.taxRules :
           ByTaxRule(ToSet(c.taxRules))[c.taxRules[i]] = TaxRulePosition(c.taxRules[i])
    BY DEF ByTaxRule, ToSet
  <2>3. \A i, j \in DOMAIN c.taxRules :
           TaxRulePosition(c.taxRules[i]) = TaxRulePosition(c.taxRules[j]) => i = j
    BY <1>1 DEF RowsAreUnique, UniqueOn
  <2>4. \A i, j \in DOMAIN c.taxRules :
           ByTaxRule(ToSet(c.taxRules))[c.taxRules[i]] = ByTaxRule(ToSet(c.taxRules))[c.taxRules[j]] => i = j
    BY <2>2, <2>3
  <2> QED BY <2>1, <2>4, KeysDistinguish
<1>5. Distinguishes(ByWarning(ToSet(c.warnings)), c.warnings)
  <2>1. ByWarning(ToSet(c.warnings)) \in [ToSet(c.warnings) -> [1..4 -> Int]]
    BY KeysOfCatalog, SortOnWarningIs DEF CatalogTables
  <2>2. \A i \in DOMAIN c.warnings :
           ByWarning(ToSet(c.warnings))[c.warnings[i]] = CatalogWarningIdentity(c.warnings[i])
    BY DEF ByWarning, ToSet
  <2>3. \A i, j \in DOMAIN c.warnings :
           CatalogWarningIdentity(c.warnings[i]) = CatalogWarningIdentity(c.warnings[j]) => i = j
    BY <1>1 DEF RowsAreUnique, UniqueOn
  <2>4. \A i, j \in DOMAIN c.warnings :
           ByWarning(ToSet(c.warnings))[c.warnings[i]] = ByWarning(ToSet(c.warnings))[c.warnings[j]] => i = j
    BY <2>2, <2>3
  <2> QED BY <2>1, <2>4, KeysDistinguish
<1> QED BY <1>2, <1>3, <1>4, <1>5

\* content.js: the rows of a draft in another order have the same canonical
\* form, hence the same hash; they are accepted when the draft is.
THEOREM RowsInAnyOrder ==
    ASSUME NEW c, WellFormedCatalog(c), NEW d, ReorderedCatalog(c, d), AcceptedCatalog(c)
    PROVE  AcceptedCatalog(d) /\ CanonicalCatalog(d) = CanonicalCatalog(c)
<1>1. WellFormedCatalog(d) /\ AcceptedCatalog(d)
  BY ReorderedIsWellFormed, ReorderedIsAccepted
<1>2. \A table \in CatalogTables :
         Reordered(c[table], d[table]) /\ ToSet(d[table]) = ToSet(c[table])
  BY TablesOfReordered DEF ReorderedCatalog
<1>3. \A table \in {"categories", "items", "buckets", "constraints", "evidence"} :
         Sorted(d[table], ByKey(ToSet(d[table]))) = Sorted(c[table], ByKey(ToSet(c[table])))
  BY <1>2, RowsAreDistinguished, SortingIgnoresOrder DEF CatalogTables
<1>4. Sorted(d.memberships, ByMembership(ToSet(d.memberships)))
        = Sorted(c.memberships, ByMembership(ToSet(c.memberships)))
  BY <1>2, RowsAreDistinguished, SortingIgnoresOrder DEF CatalogTables
<1>5. Sorted(d.taxRules, ByTaxRule(ToSet(d.taxRules))) = Sorted(c.taxRules, ByTaxRule(ToSet(c.taxRules)))
  BY <1>2, RowsAreDistinguished, SortingIgnoresOrder DEF CatalogTables
<1>6. Sorted(d.warnings, ByWarning(ToSet(d.warnings))) = Sorted(c.warnings, ByWarning(ToSet(c.warnings)))
  BY <1>2, RowsAreDistinguished, SortingIgnoresOrder DEF CatalogTables
<1>7. SortedTables(d) = SortedTables(c)
  BY <1>2, <1>3, <1>4, <1>5, <1>6 DEF SortedTables, CatalogTables
<1> QED BY <1>1, <1>7, CanonicalTables

-----------------------------------------------------------------------------
(* What content.js seals is a configuration for core.js.                   *)

\* The rows of s at the positions I.
Kept(s, I) == At(s, InOrder(I, Upward(I)))

LEMMA KeptRows ==
    ASSUME NEW s, IsSequence(s), NEW I \in SUBSET DOMAIN s
    PROVE  /\ IsSequence(Kept(s, I))
           /\ IsFiniteSet(I) /\ Len(Kept(s, I)) = Cardinality(I) /\ Cardinality(I) \in Nat
           /\ \E q \in [DOMAIN Kept(s, I) -> I] :
                 /\ \A k \in DOMAIN Kept(s, I) : Kept(s, I)[k] = s[q[k]]
                 /\ \A j, k \in DOMAIN Kept(s, I) : q[j] = q[k] => j = k
<1> DEFINE q == InOrder(I, Upward(I))
<1>1. Climbs(q, I) /\ Cardinality(I) \in Nat /\ DOMAIN q = 1..Cardinality(I)
  BY FilteredRows
<1>2. IsFiniteSet(I)
  BY SequenceShape, UpwardClimbs
<1> HIDE DEF q
<1>3. /\ IsSequence(At(s, q)) /\ Len(At(s, q)) = Cardinality(I) /\ DOMAIN At(s, q) = DOMAIN q
  BY <1>1, AtIsSequence
<1>4. q \in [DOMAIN q -> I] /\ \A k \in DOMAIN q : At(s, q)[k] = s[q[k]]
  BY <1>1 DEF Climbs, At
<1>5. ASSUME NEW j \in DOMAIN q, NEW k \in DOMAIN q, q[j] = q[k]
      PROVE  j = k
  <2>1. j < k <=> q[j] < q[k]
    BY <1>1 DEF Climbs
  <2>2. k < j <=> q[k] < q[j]
    BY <1>1 DEF Climbs
  <2>3. q[j] \in Int
    BY <1>4, SequenceShape
  <2> QED BY <1>1, <1>5, <2>1, <2>2, <2>3
<1>6. Kept(s, I) = At(s, q)
  BY DEF Kept, q
<1> QED BY <1>1, <1>2, <1>3, <1>4, <1>5, <1>6

\* The body of a sealed version: the rows of an accepted catalog c, and its
\* capabilities as a set.
BodyOf(c, body) ==
    /\ WellFormedCatalog(c) /\ AcceptedCatalog(c)
    /\ body.capabilities = ToSet(c.capabilities)
    /\ body.categories = c.categories
    /\ body.items = c.items
    /\ body.buckets = c.buckets
    /\ body.memberships = c.memberships
    /\ body.taxRules = c.taxRules
    /\ body.constraints = c.constraints
    /\ body.warnings = c.warnings

LEMMA CanonicalBody ==
    ASSUME NEW c, WellFormedCatalog(c), AcceptedCatalog(c)
    PROVE  \E d : ReorderedCatalog(c, d) /\ BodyOf(d, CanonicalCatalog(c))
<1> DEFINE body == SortedTables(c)
           d == [body EXCEPT !.capabilities = c.capabilities]
<1>1. /\ body.capabilities = ToSet(c.capabilities)
      /\ body.categories = Sorted(c.categories, ByKey(ToSet(c.categories)))
      /\ body.items = Sorted(c.items, ByKey(ToSet(c.items)))
      /\ body.buckets = Sorted(c.buckets, ByKey(ToSet(c.buckets)))
      /\ body.memberships = Sorted(c.memberships, ByMembership(ToSet(c.memberships)))
      /\ body.taxRules = Sorted(c.taxRules, ByTaxRule(ToSet(c.taxRules)))
      /\ body.constraints = Sorted(c.constraints, ByKey(ToSet(c.constraints)))
      /\ body.warnings = Sorted(c.warnings, ByWarning(ToSet(c.warnings)))
      /\ body.evidence = Sorted(c.evidence, ByKey(ToSet(c.evidence)))
      /\ DOMAIN body = CatalogTables
  BY DEF SortedTables, CatalogTables
<1>2. ASSUME NEW s, NEW keyOf, IsSequence(s), Distinguishes(keyOf, s)
      PROVE  Reordered(s, Sorted(s, keyOf))
  BY <1>2, SortedIsReordered DEF Distinguishes
<1>3. /\ \A table \in {"categories", "items", "buckets", "constraints", "evidence"} :
            Reordered(c[table], Sorted(c[table], ByKey(ToSet(c[table]))))
      /\ Reordered(c.memberships, Sorted(c.memberships, ByMembership(ToSet(c.memberships))))
      /\ Reordered(c.taxRules, Sorted(c.taxRules, ByTaxRule(ToSet(c.taxRules))))
      /\ Reordered(c.warnings, Sorted(c.warnings, ByWarning(ToSet(c.warnings))))
  BY <1>2, RowsAreDistinguished, KeysOfCatalog DEF CatalogTables
<1>4. Reordered(c.capabilities, c.capabilities)
  <2>1. IsSequence(c.capabilities)
    BY KeysOfCatalog DEF CatalogTables
  <2> QED BY <2>1, SameIsReordered
<1> HIDE DEF body
<1>5. /\ DOMAIN d = CatalogTables /\ d.capabilities = c.capabilities
      /\ \A table \in CatalogTables \ {"capabilities"} : d[table] = body[table]
  BY <1>1 DEF CatalogTables
<1> HIDE DEF d
<1>6. ReorderedCatalog(c, d)
  <2>1. Reordered(c.capabilities, d.capabilities)
    BY <1>4, <1>5
  <2>2. \A table \in {"categories", "items", "buckets", "constraints", "evidence"} :
           body[table] = Sorted(c[table], ByKey(ToSet(c[table]))) /\ d[table] = body[table]
    BY <1>1, <1>5 DEF CatalogTables
  <2>3. \A table \in {"categories", "items", "buckets", "constraints", "evidence"} :
           Reordered(c[table], d[table])
    BY <1>3, <2>2
  <2>4. /\ Reordered(c.memberships, d.memberships)
        /\ Reordered(c.taxRules, d.taxRules)
        /\ Reordered(c.warnings, d.warnings)
    BY <1>1, <1>3, <1>5 DEF CatalogTables
  <2> QED BY <1>5, <2>1, <2>3, <2>4 DEF ReorderedCatalog, CatalogTables
<1>7. WellFormedCatalog(d) /\ AcceptedCatalog(d)
  BY <1>6, ReorderedIsWellFormed, ReorderedIsAccepted
<1>8. BodyOf(d, body)
  BY <1>1, <1>5, <1>7 DEF BodyOf, CatalogTables
<1>9. CanonicalCatalog(c) = body
  BY CanonicalTables DEF body
<1> QED BY <1>6, <1>8, <1>9

\* Of rules with different priorities one is the first.
LEMMA OneFirst ==
    ASSUME NEW S, IsFiniteSet(S), S # {}, \A r \in S : r.priority \in Int,
           \A r, s \in S : r.priority = s.priority => r = s
    PROVE  \E first \in S : {r \in S : \A s \in S : s.priority <= r.priority} = {first}
<1> DEFINE before == {p \in S \X S : p[2].priority < p[1].priority}
           q == InOrder(S, before)
<1>1. \A r, s \in S : <<r, s>> \in before <=> s.priority < r.priority
  OBVIOUS
<1> HIDE DEF before
<1>2. Orders(before, S)
  BY <1>1 DEF Orders
<1>3. Lists(q, S, before)
  BY <1>2, InOrderLists
<1>4. Cardinality(S) \in Nat /\ Cardinality(S) # 0
  BY FS_CardinalityType, FS_EmptySet
<1> HIDE DEF q
<1>5. q[1] \in S
  BY <1>3, <1>4 DEF Lists
<1>6. ASSUME NEW s \in S  PROVE s.priority <= q[1].priority
  <2>1. PICK k \in 1..Cardinality(S) : q[k] = s
    BY <1>3 DEF Lists
  <2>2. CASE k = 1
    BY <1>5, <2>1, <2>2
  <2>3. CASE 1 < k
    <3>1. <<q[1], q[k]>> \in before
      BY <1>3, <1>4, <2>3 DEF Lists
    <3> QED BY <1>1, <1>5, <2>1, <3>1
  <2> QED BY <2>1, <2>2, <2>3
<1>7. ASSUME NEW r \in S, \A s \in S : s.priority <= r.priority
      PROVE  r = q[1]
  BY <1>5, <1>6, <1>7
<1> QED BY <1>5, <1>6, <1>7

\* The three scopes of tax rules that can apply to an item.
ItemRules(rows, item) == {rule \in ToSet(rows) : rule.scope = "item" /\ rule.item = item.key}

CategoryRules(rows, item) ==
    {rule \in ToSet(rows) : rule.scope = "category" /\ rule.category = item.category}

TemplateRules(rows) == {rule \in ToSet(rows) : rule.scope = "template"}

LEMMA ApplicableByScope ==
    ASSUME NEW body, NEW item
    PROVE  ApplicableTaxRules(body, item) =
             IF ItemRules(body.taxRules, item) # {} THEN ItemRules(body.taxRules, item)
             ELSE IF CategoryRules(body.taxRules, item) # {} THEN CategoryRules(body.taxRules, item)
             ELSE TemplateRules(body.taxRules)
BY Zenon DEF ApplicableTaxRules, ItemRules, CategoryRules, TemplateRules

\* configurationProjector.js, resolveTaxTreatment: where a tax rule applies to
\* an item, one wins; two never tie in sealed content.
LEMMA OneTaxRuleWins ==
    ASSUME NEW c, NEW body, BodyOf(c, body), NEW item, ApplicableTaxRules(body, item) # {}
    PROVE  \E i \in DOMAIN c.taxRules : WinningTaxRules(body, item) = {c.taxRules[i]}
<1> DEFINE A == ApplicableTaxRules(body, item)
<1>1. body.taxRules = c.taxRules /\ WellFormedCatalog(c) /\ AcceptedCatalog(c)
  BY DEF BodyOf
<1>2. \/ A = ItemRules(c.taxRules, item)
      \/ A = CategoryRules(c.taxRules, item)
      \/ A = TemplateRules(c.taxRules)
  BY <1>1, ApplicableByScope
<1> HIDE DEF A
<1>3. A \subseteq ToSet(c.taxRules)
  BY <1>2 DEF ItemRules, CategoryRules, TemplateRules
<1>4. IsFiniteSet(A)
  <2>1. IsSequence(c.taxRules)
    BY <1>1, KeysOfCatalog DEF CatalogTables
  <2>2. IsFiniteSet(ToSet(c.taxRules))
    BY <2>1, FiniteRows
  <2> QED BY <1>3, <2>2, FS_Subset
<1>5. \A r \in ToSet(c.taxRules) : r.priority \in Int /\ ScopeMatchesTarget(r)
  <2>1. \A i \in DOMAIN c.taxRules :
           c.taxRules[i].priority \in Int /\ ScopeMatchesTarget(c.taxRules[i])
    BY <1>1 DEF WellFormedCatalog, AcceptedCatalog, AcceptedRows, AcceptedTaxRule
  <2> QED BY <2>1 DEF ToSet
<1>6. ASSUME NEW r \in A, NEW s \in A
      PROVE  r.scope = s.scope /\ r.category = s.category /\ r.item = s.item
  <2>1. ScopeMatchesTarget(r) /\ ScopeMatchesTarget(s)
    BY <1>3, <1>5
  <2>2. CASE A = ItemRules(c.taxRules, item)
    BY <2>1, <2>2 DEF ItemRules, ScopeMatchesTarget
  <2>3. CASE A = CategoryRules(c.taxRules, item)
    BY <2>1, <2>3 DEF CategoryRules, ScopeMatchesTarget
  <2>4. CASE A = TemplateRules(c.taxRules)
    BY <2>1, <2>4 DEF TemplateRules, ScopeMatchesTarget
  <2> QED BY <1>2, <2>2, <2>3, <2>4
<1>7. ASSUME NEW r \in A, NEW s \in A, r.priority = s.priority
      PROVE  r = s
  <2>1. TaxRulePosition(r) = TaxRulePosition(s)
    BY <1>6, <1>7 DEF TaxRulePosition
  <2>2. PICK i \in DOMAIN c.taxRules : r = c.taxRules[i]
    BY <1>3 DEF ToSet
  <2>3. PICK j \in DOMAIN c.taxRules : s = c.taxRules[j]
    BY <1>3 DEF ToSet
  <2>4. UniqueOn(c.taxRules, TaxRulePosition)
    BY <1>1 DEF AcceptedCatalog, RowsAreUnique
  <2>5. i = j
    BY <2>1, <2>2, <2>3, <2>4, Zenon DEF UniqueOn
  <2> QED BY <2>2, <2>3, <2>5
<1>8. PICK first \in A : {r \in A : \A s \in A : s.priority <= r.priority} = {first}
  <2>1. A # {} /\ \A r \in A : r.priority \in Int
    BY <1>3, <1>5 DEF A
  <2> QED BY <1>4, <1>7, <2>1, OneFirst
<1>9. WinningTaxRules(body, item) = {first}
  BY <1>8, Zenon DEF WinningTaxRules, A
<1> QED BY <1>3, <1>8, <1>9 DEF ToSet

-----------------------------------------------------------------------------
(* An item, projected.                                                     *)

\* Positions of the memberships and of the warnings of an item, and of the
\* warnings of the template.
ItemMemberships(body, item) == {i \in DOMAIN body.memberships : body.memberships[i].item = item.key}

ItemWarnings(body, item) == {i \in DOMAIN body.warnings : body.warnings[i].item = item.key}

TemplateWarnings(body) == {i \in DOMAIN body.warnings : body.warnings[i].scope = "template"}

LEMMA ProjectItemKeeps ==
    ASSUME NEW body, NEW item
    PROVE  LET m == Kept(body.memberships, ItemMemberships(body, item))
               w == Kept(body.warnings, ItemWarnings(body, item))
               row == ProjectItem(body, item)
           IN /\ row.key = item.key
              /\ row.priceState = item.priceState /\ row.price = item.price
              /\ row.minimum = item.minimum /\ row.maximum = item.maximum /\ row.step = item.step
              /\ row.tax = ResolveTaxTreatment(body, item)
              /\ DOMAIN row.memberships = DOMAIN m
              /\ \A i \in DOMAIN m : /\ row.memberships[i].bucket = m[i].bucket
                                   /\ row.memberships[i].primary = m[i].primary
              /\ DOMAIN row.warnings = DOMAIN w
              /\ \A i \in DOMAIN w : /\ row.warnings[i].code = w[i].code
                                   /\ row.warnings[i].severity = w[i].severity
<1> DEFINE m == Kept(body.memberships, ItemMemberships(body, item))
           w == Kept(body.warnings, ItemWarnings(body, item))
<1>1. Filter(body.memberships, LAMBDA r : r.item = item.key) = m
  BY Zenon DEF Filter, Kept, At, Upward, ItemMemberships
<1>2. Filter(body.warnings, LAMBDA r : r.item = item.key) = w
  BY Zenon DEF Filter, Kept, At, Upward, ItemWarnings
<1> HIDE DEF m, w
<1>3. ProjectItem(body, item) =
        [key |-> item.key, order |-> item.order,
         priceState |-> item.priceState, price |-> item.price,
         minimum |-> item.minimum, maximum |-> item.maximum, step |-> item.step,
         availability |-> item.availability,
         tax |-> ResolveTaxTreatment(body, item),
         memberships |-> [i \in DOMAIN m |->
            [bucket |-> m[i].bucket, type |-> m[i].type, primary |-> m[i].primary]],
         warnings |-> [i \in DOMAIN w |-> [code |-> w[i].code, severity |-> w[i].severity]]]
  BY <1>1, <1>2, Zenon DEF ProjectItem
<1> QED BY <1>3 DEF m, w

\* Each row of a projected item is a row of the catalog, and two are two.
MembershipsFrom(c, item, row, q) ==
    /\ q \in [DOMAIN row.memberships -> DOMAIN c.memberships]
    /\ \A k \in DOMAIN row.memberships :
          /\ c.memberships[q[k]].item = item.key
          /\ row.memberships[k].bucket = c.memberships[q[k]].bucket
          /\ row.memberships[k].primary = c.memberships[q[k]].primary
    /\ \A j, k \in DOMAIN row.memberships : q[j] = q[k] => j = k

WarningsFrom(c, item, row, q) ==
    /\ q \in [DOMAIN row.warnings -> DOMAIN c.warnings]
    /\ \A k \in DOMAIN row.warnings :
          /\ c.warnings[q[k]].item = item.key
          /\ row.warnings[k].code = c.warnings[q[k]].code
          /\ row.warnings[k].severity = c.warnings[q[k]].severity
    /\ \A j, k \in DOMAIN row.warnings : q[j] = q[k] => j = k

LEMMA ProjectedRows ==
    ASSUME NEW c, NEW body, BodyOf(c, body), NEW item
    PROVE  LET row == ProjectItem(body, item)
           IN /\ \E q : MembershipsFrom(c, item, row, q)
              /\ \E q : WarningsFrom(c, item, row, q)
              /\ IsFiniteSet(DOMAIN row.memberships) /\ IsFiniteSet(DOMAIN row.warnings)
<1> DEFINE m == Kept(body.memberships, ItemMemberships(body, item))
           w == Kept(body.warnings, ItemWarnings(body, item))
           row == ProjectItem(body, item)
<1>1. body.memberships = c.memberships /\ body.warnings = c.warnings
      /\ IsSequence(c.memberships) /\ IsSequence(c.warnings)
  BY KeysOfCatalog DEF BodyOf, CatalogTables
<1>2. ItemMemberships(body, item) \in SUBSET DOMAIN c.memberships
      /\ ItemWarnings(body, item) \in SUBSET DOMAIN c.warnings
  BY <1>1 DEF ItemMemberships, ItemWarnings
<1>3. PICK q \in [DOMAIN m -> ItemMemberships(body, item)] :
         /\ \A k \in DOMAIN m : m[k] = c.memberships[q[k]]
         /\ \A j, k \in DOMAIN m : q[j] = q[k] => j = k
  BY <1>1, <1>2, KeptRows
<1>4. PICK r \in [DOMAIN w -> ItemWarnings(body, item)] :
         /\ \A k \in DOMAIN w : w[k] = c.warnings[r[k]]
         /\ \A j, k \in DOMAIN w : r[j] = r[k] => j = k
  BY <1>1, <1>2, KeptRows
<1>5. IsFiniteSet(DOMAIN m) /\ IsFiniteSet(DOMAIN w)
  BY <1>1, <1>2, KeptRows, FiniteRows
<1>6. /\ DOMAIN row.memberships = DOMAIN m
      /\ \A i \in DOMAIN m : /\ row.memberships[i].bucket = m[i].bucket
                           /\ row.memberships[i].primary = m[i].primary
      /\ DOMAIN row.warnings = DOMAIN w
      /\ \A i \in DOMAIN w : /\ row.warnings[i].code = w[i].code
                           /\ row.warnings[i].severity = w[i].severity
  BY ProjectItemKeeps
<1> HIDE DEF m, w, row
<1>7. \A k \in DOMAIN m : q[k] \in DOMAIN c.memberships /\ c.memberships[q[k]].item = item.key
  BY <1>1 DEF ItemMemberships
<1>8. \A k \in DOMAIN w : r[k] \in DOMAIN c.warnings /\ c.warnings[r[k]].item = item.key
  BY <1>1 DEF ItemWarnings
<1>9. \A k \in DOMAIN m : /\ row.memberships[k].bucket = c.memberships[q[k]].bucket
                          /\ row.memberships[k].primary = c.memberships[q[k]].primary
  BY <1>3, <1>6
<1>10. \A k \in DOMAIN w : /\ row.warnings[k].code = c.warnings[r[k]].code
                           /\ row.warnings[k].severity = c.warnings[r[k]].severity
  BY <1>4, <1>6
<1>11. q \in [DOMAIN row.memberships -> DOMAIN c.memberships] /\ r \in [DOMAIN row.warnings -> DOMAIN c.warnings]
  BY <1>6, <1>7, <1>8
<1>12. MembershipsFrom(c, item, row, q)
  <2>1. \A k \in DOMAIN row.memberships :
           /\ c.memberships[q[k]].item = item.key
           /\ row.memberships[k].bucket = c.memberships[q[k]].bucket
           /\ row.memberships[k].primary = c.memberships[q[k]].primary
    BY <1>6, <1>7, <1>9
  <2>2. \A j, k \in DOMAIN row.memberships : q[j] = q[k] => j = k
    BY <1>3, <1>6
  <2> QED BY <1>11, <2>1, <2>2, Zenon DEF MembershipsFrom
<1>13. WarningsFrom(c, item, row, r)
  <2>1. \A k \in DOMAIN row.warnings :
           /\ c.warnings[r[k]].item = item.key
           /\ row.warnings[k].code = c.warnings[r[k]].code
           /\ row.warnings[k].severity = c.warnings[r[k]].severity
    BY <1>6, <1>8, <1>10
  <2>2. \A j, k \in DOMAIN row.warnings : r[j] = r[k] => j = k
    BY <1>4, <1>6
  <2> QED BY <1>11, <2>1, <2>2, Zenon DEF WarningsFrom
<1> QED BY <1>5, <1>6, <1>12, <1>13 DEF row

\* The keys that both files accept.
UsableKeys(c) == (KeysOf(c.items) \cup KeysOf(c.buckets)) \cap IdentityOnlyKeys = {}

LEMMA WarningsOfOneScope ==
    ASSUME NEW c, WellFormedCatalog(c), AcceptedCatalog(c),
           NEW i \in DOMAIN c.warnings, NEW j \in DOMAIN c.warnings,
           c.warnings[i].item = c.warnings[j].item,
           WarningIdentity(c.warnings[i]) = WarningIdentity(c.warnings[j])
    PROVE  i = j
<1>1. c.warnings[i].scope = c.warnings[j].scope
  <2>1. AcceptedCatalogWarning(c.warnings[i]) /\ AcceptedCatalogWarning(c.warnings[j])
    BY DEF AcceptedCatalog, AcceptedRows
  <2>2. c.warnings[i].scope \in {"template", "item"} /\ c.warnings[j].scope \in {"template", "item"}
    BY DEF WellFormedCatalog
  <2> QED BY <2>1, <2>2 DEF AcceptedCatalogWarning
<1>2. /\ SeverityOrder[c.warnings[i].severity] = SeverityOrder[c.warnings[j].severity]
      /\ c.warnings[i].code = c.warnings[j].code
  BY DEF WarningIdentity
<1>3. CatalogWarningIdentity(c.warnings[i]) = CatalogWarningIdentity(c.warnings[j])
  BY <1>1, <1>2 DEF CatalogWarningIdentity
<1>4. UniqueOn(c.warnings, CatalogWarningIdentity)
  BY DEF AcceptedCatalog, RowsAreUnique
<1> QED BY <1>3, <1>4, Zenon DEF UniqueOn

LEMMA AcceptedTaxByFields ==
    ASSUME NEW rule, AcceptedTax(rule)
    PROVE  AcceptedTax([state |-> rule.state, rate |-> rule.rate,
                        inclusive |-> rule.inclusive, rounding |-> rule.rounding])
BY DEF AcceptedTax

\* An item of sealed content is an item the engine accepts.
LEMMA ProjectedItemIsAccepted ==
    ASSUME NEW c, NEW body, BodyOf(c, body), UsableKeys(c), NEW n \in DOMAIN c.items,
           ApplicableTaxRules(body, c.items[n]) # {}
    PROVE  AcceptedItem(ProjectItem(body, c.items[n]))
<1> DEFINE item == c.items[n]
           row == ProjectItem(body, item)
<1>1. WellFormedCatalog(c) /\ AcceptedCatalog(c)
  BY DEF BodyOf
<1>2. /\ row.key = item.key
      /\ row.priceState = item.priceState /\ row.price = item.price
      /\ row.minimum = item.minimum /\ row.maximum = item.maximum /\ row.step = item.step
      /\ row.tax = ResolveTaxTreatment(body, item)
  BY ProjectItemKeeps
<1>3. AcceptedCatalogItem(item)
  BY <1>1 DEF AcceptedCatalog, AcceptedRows
<1>4. IsRuleKey(item.key)
  <2>1. item.key \in KeysOf(c.items)
    BY DEF KeysOf
  <2> QED BY <1>3, <2>1 DEF UsableKeys, IsRuleKey, AcceptedCatalogItem, IsIdentityKey
<1>5. PICK q : MembershipsFrom(c, item, row, q)
  BY ProjectedRows
<1>6. PICK r : WarningsFrom(c, item, row, r)
  BY ProjectedRows
<1>7. IsFiniteSet(DOMAIN row.memberships)
  BY ProjectedRows
<1>8. PICK rule \in DOMAIN c.taxRules : WinningTaxRules(body, item) = {c.taxRules[rule]}
  BY OneTaxRuleWins
<1>9. AcceptedTax(ResolveTaxTreatment(body, item))
  <2>1. AcceptedTax(c.taxRules[rule])
    BY <1>1 DEF AcceptedCatalog, AcceptedRows, AcceptedTaxRule
  <2>2. (CHOOSE winner \in WinningTaxRules(body, item) : TRUE) = c.taxRules[rule]
    BY <1>8
  <2>3. ResolveTaxTreatment(body, item) =
          [state |-> c.taxRules[rule].state, rate |-> c.taxRules[rule].rate,
           inclusive |-> c.taxRules[rule].inclusive, rounding |-> c.taxRules[rule].rounding]
    BY <2>2 DEF ResolveTaxTreatment
  <2> QED BY <2>1, <2>3, AcceptedTaxByFields
<1> HIDE DEF row
<1>10. \A k \in DOMAIN row.memberships : IsRuleKey(row.memberships[k].bucket)
  <2> SUFFICES ASSUME NEW k \in DOMAIN row.memberships  PROVE IsRuleKey(row.memberships[k].bucket)
    OBVIOUS
  <2>1. row.memberships[k].bucket \in KeysOf(c.buckets)
    BY <1>1, <1>5 DEF AcceptedCatalog, ReferencesResolve, MembershipsFrom
  <2>2. IsIdentityKey(row.memberships[k].bucket)
    BY <1>1, <2>1 DEF KeysOf, AcceptedCatalog, AcceptedRows, AcceptedCatalogBucket
  <2> QED BY <2>1, <2>2 DEF UsableKeys, IsRuleKey, IsIdentityKey
<1>11. UniqueOn(row.memberships, BucketOf)
  <2> SUFFICES ASSUME NEW j \in DOMAIN row.memberships, NEW k \in DOMAIN row.memberships,
                      row.memberships[j].bucket = row.memberships[k].bucket
               PROVE  j = k
    BY Zenon DEF UniqueOn, BucketOf
  <2>1. q[j] \in DOMAIN c.memberships /\ q[k] \in DOMAIN c.memberships
    BY <1>5 DEF MembershipsFrom
  <2>2. MembershipIdentity(c.memberships[q[j]]) = MembershipIdentity(c.memberships[q[k]])
    BY <1>5 DEF MembershipIdentity, MembershipsFrom
  <2>3. UniqueOn(c.memberships, MembershipIdentity)
    BY <1>1 DEF AcceptedCatalog, RowsAreUnique
  <2>4. q[j] = q[k]
    BY <2>1, <2>2, <2>3, Zenon DEF UniqueOn
  <2> QED BY <1>5, <2>4 DEF MembershipsFrom
<1>12. Cardinality({k \in DOMAIN row.memberships : row.memberships[k].primary}) <= 1
  <2> DEFINE P == {k \in DOMAIN row.memberships : row.memberships[k].primary}
  <2>1. P \in SUBSET DOMAIN row.memberships
    BY Zenon
  <2>2. \A k \in P : q[k] \in PrimaryOf(c.memberships, item.key)
    <3>1. \A k \in P : /\ q[k] \in DOMAIN c.memberships
                       /\ c.memberships[q[k]].item = item.key
                       /\ row.memberships[k].primary = c.memberships[q[k]].primary
      BY <1>5, <2>1 DEF MembershipsFrom
    <3> QED BY <3>1, Zenon DEF PrimaryOf
  <2> HIDE DEF P
  <2>3. Cardinality(PrimaryOf(c.memberships, item.key)) <= 1
    <3>1. item.key \in KeysOf(c.items)
      BY DEF KeysOf
    <3> QED BY <1>1, <3>1, AcceptedIsPrimaryOnce
  <2>4. IsFiniteSet(PrimaryOf(c.memberships, item.key))
    <3>1. IsFiniteSet(DOMAIN c.memberships)
      BY <1>1, KeysOfCatalog, FiniteRows DEF CatalogTables
    <3>2. PrimaryOf(c.memberships, item.key) \in SUBSET DOMAIN c.memberships
      BY Zenon DEF PrimaryOf
    <3> QED BY <3>1, <3>2, FS_Subset
  <2>5. \A j, k \in P : q[j] = q[k]
    BY <2>2, <2>3, <2>4, AtMostOneMember
  <2>6. \A j, k \in P : j = k
    BY <1>5, <2>1, <2>5 DEF MembershipsFrom
  <2>7. Cardinality(P) <= 1
    BY <1>7, <2>1, <2>6, FS_Subset, AtMostOneMember
  <2> QED BY <2>7 DEF P
<1>13. UniqueOn(row.warnings, WarningIdentity)
  <2> SUFFICES ASSUME NEW j \in DOMAIN row.warnings, NEW k \in DOMAIN row.warnings,
                      WarningIdentity(row.warnings[j]) = WarningIdentity(row.warnings[k])
               PROVE  j = k
    BY Zenon DEF UniqueOn
  <2>1. /\ r[j] \in DOMAIN c.warnings /\ r[k] \in DOMAIN c.warnings
        /\ c.warnings[r[j]].item = c.warnings[r[k]].item
    BY <1>6 DEF WarningsFrom
  <2>2. WarningIdentity(c.warnings[r[j]]) = WarningIdentity(c.warnings[r[k]])
    BY <1>6 DEF WarningIdentity, WarningsFrom
  <2>3. r[j] = r[k]
    BY <1>1, <2>1, <2>2, WarningsOfOneScope
  <2> QED BY <1>6, <2>3 DEF WarningsFrom
<1>14. AcceptedItem(row)
  <2>1. /\ IsRuleKey(row.key)
        /\ KnownAmount(row.priceState, row.price, MaxMoneyMinor)
        /\ {row.minimum, row.maximum, row.step} \subseteq 1..MaxQuantity
        /\ row.minimum <= row.maximum
    BY <1>2, <1>3, <1>4 DEF AcceptedCatalogItem
  <2>2. AcceptedTax(row.tax)
    BY <1>2, <1>9
  <2> QED BY <1>10, <1>11, <1>12, <1>13, <2>1, <2>2, Zenon DEF AcceptedItem
<1> QED BY <1>14 DEF row

-----------------------------------------------------------------------------
(* A catalog, projected.                                                   *)

LEMMA MappedRows ==
    ASSUME NEW s, IsSequence(s), NEW t, DOMAIN t = DOMAIN s, t = [i \in DOMAIN t |-> t[i]]
    PROVE  Len(t) = Len(s) /\ ((t = <<>>) <=> (s = <<>>))
<1>1. DOMAIN s = 1..Len(s) /\ Len(s) \in Nat
  BY SequenceShape
<1>2. Len(t) = Len(s)
  BY <1>1
<1>3. (t = <<>>) <=> (s = <<>>)
  BY <1>1 DEF IsSequence
<1> QED BY <1>2, <1>3

\* The five tables of the projection, row by row.
ProjectedFrom(c, body, conf) ==
    /\ conf.capabilities = ToSet(c.capabilities)
    /\ /\ DOMAIN conf.items = DOMAIN c.items /\ Len(conf.items) = Len(c.items)
       /\ \A i \in DOMAIN c.items : conf.items[i] = ProjectItem(body, c.items[i])
    /\ /\ DOMAIN conf.buckets = DOMAIN c.buckets /\ Len(conf.buckets) = Len(c.buckets)
       /\ (conf.buckets = <<>>) <=> (c.buckets = <<>>)
       /\ \A i \in DOMAIN c.buckets : /\ conf.buckets[i].key = c.buckets[i].key
                                      /\ conf.buckets[i].limitState = c.buckets[i].limitState
                                      /\ conf.buckets[i].limit = c.buckets[i].limit
    /\ /\ DOMAIN conf.constraints = DOMAIN c.constraints
       /\ Len(conf.constraints) = Len(c.constraints)
       /\ (conf.constraints = <<>>) <=> (c.constraints = <<>>)
       /\ \A i \in DOMAIN c.constraints :
             /\ conf.constraints[i].key = c.constraints[i].key
             /\ conf.constraints[i].comparator = c.constraints[i].comparator
             /\ conf.constraints[i].limitState = c.constraints[i].limitState
             /\ conf.constraints[i].limit = c.constraints[i].limit
    /\ /\ Len(conf.warnings) = Cardinality(TemplateWarnings(c))
       /\ \E q \in [DOMAIN conf.warnings -> TemplateWarnings(c)] :
             /\ \A k \in DOMAIN conf.warnings :
                   /\ conf.warnings[k].code = c.warnings[q[k]].code
                   /\ conf.warnings[k].severity = c.warnings[q[k]].severity
             /\ \A j, k \in DOMAIN conf.warnings : q[j] = q[k] => j = k

LEMMA ProjectedTables ==
    ASSUME NEW c, NEW body, BodyOf(c, body)
    PROVE  ProjectedFrom(c, body, ProjectedConfiguration(body))
<1> DEFINE w == Kept(c.warnings, TemplateWarnings(c))
           items == [i \in DOMAIN c.items |-> ProjectItem(body, c.items[i])]
           buckets == [i \in DOMAIN c.buckets |->
            [key |-> c.buckets[i].key, order |-> c.buckets[i].order,
             limitState |-> c.buckets[i].limitState, limit |-> c.buckets[i].limit]]
           constraints == [i \in DOMAIN c.constraints |->
               [key |-> c.constraints[i].key, order |-> c.constraints[i].priority,
                measure |-> c.constraints[i].measure, comparator |-> c.constraints[i].comparator,
                limitState |-> c.constraints[i].limitState, limit |-> c.constraints[i].limit]]
           warnings == [i \in DOMAIN w |-> [code |-> w[i].code, severity |-> w[i].severity]]
           conf == [capabilities |-> ToSet(c.capabilities), items |-> items, buckets |-> buckets,
                    constraints |-> constraints, warnings |-> warnings]
<1>1. /\ body.capabilities = ToSet(c.capabilities) /\ body.items = c.items /\ body.buckets = c.buckets
      /\ body.constraints = c.constraints /\ body.warnings = c.warnings
      /\ WellFormedCatalog(c) /\ AcceptedCatalog(c)
  BY DEF BodyOf
<1>2. Filter(c.warnings, LAMBDA r : r.scope = "template") = w
  BY Zenon DEF Filter, Kept, At, Upward, TemplateWarnings
<1> HIDE DEF w
<1>3. ProjectedConfiguration(body) = conf
  BY <1>1, <1>2, Zenon DEF ProjectedConfiguration
<1>4. IsSequence(c.items) /\ IsSequence(c.buckets) /\ IsSequence(c.constraints) /\ IsSequence(c.warnings)
  BY <1>1, KeysOfCatalog DEF CatalogTables
<1>5. /\ DOMAIN items = DOMAIN c.items
      /\ \A i \in DOMAIN c.items : items[i] = ProjectItem(body, c.items[i])
      /\ items = [i \in DOMAIN items |-> items[i]]
  OBVIOUS
<1>6. /\ DOMAIN buckets = DOMAIN c.buckets
      /\ \A i \in DOMAIN c.buckets : /\ buckets[i].key = c.buckets[i].key
                                     /\ buckets[i].limitState = c.buckets[i].limitState
                                     /\ buckets[i].limit = c.buckets[i].limit
      /\ buckets = [i \in DOMAIN buckets |-> buckets[i]]
  OBVIOUS
<1>7. /\ DOMAIN constraints = DOMAIN c.constraints
      /\ \A i \in DOMAIN c.constraints :
             /\ constraints[i].key = c.constraints[i].key
             /\ constraints[i].comparator = c.constraints[i].comparator
             /\ constraints[i].limitState = c.constraints[i].limitState
             /\ constraints[i].limit = c.constraints[i].limit
      /\ constraints = [i \in DOMAIN constraints |-> constraints[i]]
  OBVIOUS
<1>8. /\ DOMAIN warnings = DOMAIN w
      /\ \A i \in DOMAIN w : warnings[i].code = w[i].code /\ warnings[i].severity = w[i].severity
      /\ warnings = [i \in DOMAIN warnings |-> warnings[i]]
  OBVIOUS
<1> HIDE DEF items, buckets, constraints, warnings
<1>9. /\ Len(items) = Len(c.items) /\ Len(buckets) = Len(c.buckets)
      /\ Len(constraints) = Len(c.constraints)
      /\ (buckets = <<>>) <=> (c.buckets = <<>>)
      /\ (constraints = <<>>) <=> (c.constraints = <<>>)
  <2>1. Len(items) = Len(c.items)
    BY <1>4, <1>5, MappedRows
  <2>2. Len(buckets) = Len(c.buckets) /\ ((buckets = <<>>) <=> (c.buckets = <<>>))
    BY <1>4, <1>6, MappedRows
  <2>3. Len(constraints) = Len(c.constraints) /\ ((constraints = <<>>) <=> (c.constraints = <<>>))
    BY <1>4, <1>7, MappedRows
  <2> QED BY <2>1, <2>2, <2>3
<1>10. TemplateWarnings(c) \in SUBSET DOMAIN c.warnings
  BY DEF TemplateWarnings
<1>11. IsSequence(w) /\ Len(w) = Cardinality(TemplateWarnings(c))
  BY <1>4, <1>10, KeptRows DEF w
<1>12. PICK q \in [DOMAIN w -> TemplateWarnings(c)] :
          /\ \A k \in DOMAIN w : w[k] = c.warnings[q[k]]
          /\ \A j, k \in DOMAIN w : q[j] = q[k] => j = k
  BY <1>4, <1>10, KeptRows DEF w
<1>13. Len(warnings) = Cardinality(TemplateWarnings(c))
  BY <1>8, <1>11, MappedRows
<1>14. \E p \in [DOMAIN warnings -> TemplateWarnings(c)] :
          /\ \A k \in DOMAIN warnings : /\ warnings[k].code = c.warnings[p[k]].code
                                        /\ warnings[k].severity = c.warnings[p[k]].severity
          /\ \A j, k \in DOMAIN warnings : p[j] = p[k] => j = k
  <2>1. \A k \in DOMAIN warnings : /\ warnings[k].code = c.warnings[q[k]].code
                                   /\ warnings[k].severity = c.warnings[q[k]].severity
    BY <1>8, <1>12
  <2>2. q \in [DOMAIN warnings -> TemplateWarnings(c)] /\ \A j, k \in DOMAIN warnings : q[j] = q[k] => j = k
    BY <1>8, <1>12
  <2> QED BY <2>1, <2>2, Zenon
<1>15. /\ conf.capabilities = ToSet(c.capabilities) /\ conf.items = items /\ conf.buckets = buckets
       /\ conf.constraints = constraints /\ conf.warnings = warnings
  OBVIOUS
<1> HIDE DEF conf
<1>16. ProjectedFrom(c, body, conf)
  <2>1. /\ DOMAIN conf.items = DOMAIN c.items /\ Len(conf.items) = Len(c.items)
        /\ \A i \in DOMAIN c.items : conf.items[i] = ProjectItem(body, c.items[i])
    BY <1>5, <1>9, <1>15
  <2>2. /\ DOMAIN conf.buckets = DOMAIN c.buckets /\ Len(conf.buckets) = Len(c.buckets)
        /\ (conf.buckets = <<>>) <=> (c.buckets = <<>>)
        /\ \A i \in DOMAIN c.buckets : /\ conf.buckets[i].key = c.buckets[i].key
                                       /\ conf.buckets[i].limitState = c.buckets[i].limitState
                                       /\ conf.buckets[i].limit = c.buckets[i].limit
    BY <1>6, <1>9, <1>15
  <2>3. /\ DOMAIN conf.constraints = DOMAIN c.constraints
        /\ Len(conf.constraints) = Len(c.constraints)
        /\ (conf.constraints = <<>>) <=> (c.constraints = <<>>)
        /\ \A i \in DOMAIN c.constraints :
              /\ conf.constraints[i].key = c.constraints[i].key
              /\ conf.constraints[i].comparator = c.constraints[i].comparator
              /\ conf.constraints[i].limitState = c.constraints[i].limitState
              /\ conf.constraints[i].limit = c.constraints[i].limit
    BY <1>7, <1>9, <1>15
  <2>4. /\ Len(conf.warnings) = Cardinality(TemplateWarnings(c))
        /\ \E p \in [DOMAIN conf.warnings -> TemplateWarnings(c)] :
              /\ \A k \in DOMAIN conf.warnings :
                    /\ conf.warnings[k].code = c.warnings[p[k]].code
                    /\ conf.warnings[k].severity = c.warnings[p[k]].severity
              /\ \A j, k \in DOMAIN conf.warnings : p[j] = p[k] => j = k
    BY <1>13, <1>14, <1>15
  <2> QED BY <1>15, <2>1, <2>2, <2>3, <2>4, Zenon DEF ProjectedFrom
<1> QED BY <1>3, <1>16

\* No warning is counted twice: those of the template and those of the items
\* are different rows of the catalog.
LEMMA WarningsAreCountedOnce ==
    ASSUME NEW c, NEW body, BodyOf(c, body), NEW conf, ProjectedFrom(c, body, conf)
    PROVE  WarningCount(conf) \in Nat /\ WarningCount(conf) <= Len(c.warnings)
<1>1. WellFormedCatalog(c) /\ AcceptedCatalog(c)
  BY DEF BodyOf
<1> DEFINE T == TemplateWarnings(c)
           W == DOMAIN c.warnings
           P == UNION {{i} \X (DOMAIN conf.items[i].warnings) : i \in DOMAIN conf.items}
           Shown(i) == ProjectItem(body, c.items[i])
           from == [i \in DOMAIN c.items |-> CHOOSE r : WarningsFrom(c, c.items[i], Shown(i), r)]
           row == [p \in P |-> from[p[1]][p[2]]]
<1>2. DOMAIN conf.items = DOMAIN c.items /\ \A i \in DOMAIN c.items : conf.items[i] = Shown(i)
  BY DEF ProjectedFrom
<1>3. ASSUME NEW i \in DOMAIN c.items  PROVE WarningsFrom(c, c.items[i], Shown(i), from[i])
  <2>1. \E r : WarningsFrom(c, c.items[i], Shown(i), r)
    BY ProjectedRows
  <2> QED BY <2>1
<1> HIDE DEF from
<1>4. \A p \in P : p[1] \in DOMAIN c.items /\ p[2] \in DOMAIN Shown(p[1]).warnings
                   /\ p = <<p[1], p[2]>>
  <2> SUFFICES ASSUME NEW p \in P
               PROVE  p[1] \in DOMAIN c.items /\ p[2] \in DOMAIN Shown(p[1]).warnings
                      /\ p = <<p[1], p[2]>>
    OBVIOUS
  <2>1. PICK i \in DOMAIN conf.items : p \in {i} \X (DOMAIN conf.items[i].warnings)
    OBVIOUS
  <2> QED BY <1>2, <2>1
<1>5. row = [p \in P |-> row[p]] /\ \A p \in P : row[p] = from[p[1]][p[2]]
  OBVIOUS
<1> HIDE DEF row, P
<1>6. ASSUME NEW p \in P
      PROVE  /\ row[p] \in W
             /\ c.warnings[row[p]].item = c.items[p[1]].key
  <2>1. WarningsFrom(c, c.items[p[1]], Shown(p[1]), from[p[1]]) /\ p[2] \in DOMAIN Shown(p[1]).warnings
    BY <1>3, <1>4
  <2> QED BY <1>5, <2>1 DEF WarningsFrom
<1>7. \A i \in DOMAIN c.items : c.items[i].key # Null
  BY <1>1, KeysOfCatalog, CalculationAssumption
<1>8. \A p \in P : row[p] \in W \ T
  <2> SUFFICES ASSUME NEW p \in P  PROVE row[p] \in W \ T
    OBVIOUS
  <2>1. row[p] \in W /\ c.warnings[row[p]].item # Null
    BY <1>4, <1>6, <1>7
  <2>2. AcceptedCatalogWarning(c.warnings[row[p]])
    BY <1>1, <2>1 DEF AcceptedCatalog, AcceptedRows
  <2> QED BY <2>1, <2>2 DEF AcceptedCatalogWarning, TemplateWarnings
<1>9. ASSUME NEW p \in P, NEW q \in P, row[p] = row[q]
      PROVE  p = q
  <2>1. c.items[p[1]].key = c.items[q[1]].key
    BY <1>6, <1>9
  <2>2. UniqueOn(c.items, KeyOf)
    BY <1>1 DEF AcceptedCatalog, RowsAreUnique
  <2>3. p[1] = q[1]
    BY <1>4, <2>1, <2>2 DEF UniqueOn, KeyOf
  <2>4. from[p[1]][p[2]] = from[p[1]][q[2]]
    BY <1>9, <1>5, <2>3
  <2>5. /\ WarningsFrom(c, c.items[p[1]], Shown(p[1]), from[p[1]])
        /\ p[2] \in DOMAIN Shown(p[1]).warnings /\ q[2] \in DOMAIN Shown(p[1]).warnings
    BY <1>3, <1>4, <2>3
  <2>6. p[2] = q[2]
    BY <2>4, <2>5 DEF WarningsFrom
  <2>7. p = <<p[1], p[2]>> /\ q = <<q[1], q[2]>>
    BY <1>4
  <2> QED BY <2>3, <2>6, <2>7, Zenon
<1>10. row \in [P -> W \ T]
  BY <1>8, <1>5
<1> HIDE DEF T, W
<1>11. row \in Injection(P, W \ T)
  BY <1>9, <1>10 DEF Injection, IsInjective
<1>12. IsSequence(c.warnings)
  BY <1>1, KeysOfCatalog DEF CatalogTables
<1>13. IsFiniteSet(W) /\ Cardinality(W) = Len(c.warnings) /\ Len(c.warnings) \in Nat
  BY <1>12, SequenceShape, FS_Interval DEF W
<1>14. T \subseteq W
  BY DEF T, W, TemplateWarnings
<1>15. IsFiniteSet(W \ T) /\ Cardinality(W \ T) = Cardinality(W) - Cardinality(T)
  <2>1. W \cap T = T
    BY <1>14
  <2>2. IsFiniteSet(W \ T) /\ Cardinality(W \ T) = Cardinality(W) - Cardinality(W \cap T)
    BY <1>13, FS_Difference
  <2> QED BY <2>1, <2>2
<1>16. Cardinality(P) <= Cardinality(W \ T) /\ IsFiniteSet(P)
  BY <1>11, <1>15, FS_Injection
<1>17. Cardinality(P) \in Nat /\ Cardinality(T) \in Nat
  BY <1>13, <1>14, <1>16, FS_CardinalityType, FS_Subset
<1>18. WarningCount(conf) = Cardinality(T) + Cardinality(P)
  BY Zenon DEF WarningCount, ProjectedFrom, P, T
<1>19. Cardinality(P) <= Len(c.warnings) - Cardinality(T)
  BY <1>13, <1>15, <1>16
<1> HIDE DEF P
<1> QED BY <1>13, <1>17, <1>18, <1>19

\* configurationProjector.js:196: what content.js sealed is a configuration
\* that core.js accepts, where every item has a tax rule and no key is one
\* that only content.js takes for a key.
THEOREM SealedContentIsAConfiguration ==
    ASSUME NEW c, NEW body, BodyOf(c, body), UsableKeys(c),
           \A item \in ToSet(c.items) : ApplicableTaxRules(body, item) # {}
    PROVE  AcceptedConfiguration(ProjectedConfiguration(body))
<1> DEFINE conf == ProjectedConfiguration(body)
<1>1. ProjectedFrom(c, body, conf)
  BY ProjectedTables
<1> HIDE DEF conf
<1>2. /\ WellFormedCatalog(c) /\ WithinContentBounds(c) /\ AcceptedRows(c) /\ RowsAreUnique(c)
      /\ ReferencesResolve(c) /\ DeclaresCapabilities(c) /\ AcceptedCatalog(c)
  BY DEF BodyOf, AcceptedCatalog
<1>3. \A i \in DOMAIN c.items : c.items[i] \in ToSet(c.items)
  BY DEF ToSet
<1>4. /\ DOMAIN conf.items = DOMAIN c.items /\ Len(conf.items) = Len(c.items)
      /\ \A i \in DOMAIN c.items : conf.items[i] = ProjectItem(body, c.items[i])
  BY <1>1 DEF ProjectedFrom
<1>5. Len(conf.items) \in 1..MaxRows
  <2>1. Len(c.items) \in Nat
    BY <1>2, KeysOfCatalog, SequenceShape DEF CatalogTables
  <2> QED BY <1>2, <1>4, <2>1, CalculationAssumption DEF WithinContentBounds
<1>6. \A i \in DOMAIN conf.items : AcceptedItem(conf.items[i])
  BY <1>3, <1>4, ProjectedItemIsAccepted
<1>7. UniqueOn(conf.items, KeyOf)
  <2>1. \A i \in DOMAIN c.items : conf.items[i].key = c.items[i].key
    BY <1>4, ProjectItemKeeps
  <2>2. UniqueOn(c.items, KeyOf)
    BY <1>2 DEF RowsAreUnique
  <2> QED BY <1>4, <2>1, <2>2 DEF UniqueOn, KeyOf
<1>8. /\ DOMAIN conf.buckets = DOMAIN c.buckets /\ Len(conf.buckets) = Len(c.buckets)
      /\ \A i \in DOMAIN c.buckets : /\ conf.buckets[i].key = c.buckets[i].key
                                     /\ conf.buckets[i].limitState = c.buckets[i].limitState
                                     /\ conf.buckets[i].limit = c.buckets[i].limit
  BY <1>1 DEF ProjectedFrom
<1>9. Len(conf.buckets) <= MaxRows
  BY <1>2, <1>8 DEF WithinContentBounds
<1>10. \A i \in DOMAIN conf.buckets : AcceptedBucket(conf.buckets[i])
  <2> SUFFICES ASSUME NEW i \in DOMAIN c.buckets  PROVE AcceptedBucket(conf.buckets[i])
    BY <1>8
  <2>1. AcceptedCatalogBucket(c.buckets[i]) /\ c.buckets[i].key \in KeysOf(c.buckets)
    BY <1>2 DEF AcceptedRows, KeysOf
  <2> QED BY <1>8, <2>1 DEF AcceptedBucket, AcceptedCatalogBucket, UsableKeys, IsRuleKey, IsIdentityKey
<1>11. UniqueOn(conf.buckets, KeyOf)
  BY <1>2, <1>8 DEF RowsAreUnique, UniqueOn, KeyOf
<1>12. \A i \in DOMAIN conf.items : \A j \in DOMAIN conf.items[i].memberships :
          \E b \in DOMAIN conf.buckets : conf.buckets[b].key = conf.items[i].memberships[j].bucket
  <2> SUFFICES ASSUME NEW i \in DOMAIN conf.items, NEW j \in DOMAIN conf.items[i].memberships
               PROVE  \E b \in DOMAIN conf.buckets :
                         conf.buckets[b].key = conf.items[i].memberships[j].bucket
    OBVIOUS
  <2>1. i \in DOMAIN c.items /\ conf.items[i] = ProjectItem(body, c.items[i])
    BY <1>4
  <2>2. PICK q : MembershipsFrom(c, c.items[i], conf.items[i], q)
    BY <2>1, ProjectedRows
  <2>3. /\ q[j] \in DOMAIN c.memberships
        /\ conf.items[i].memberships[j].bucket = c.memberships[q[j]].bucket
    BY <2>2 DEF MembershipsFrom
  <2>4. c.memberships[q[j]].bucket \in KeysOf(c.buckets)
    BY <1>2, <2>3 DEF ReferencesResolve
  <2>5. PICK b \in DOMAIN c.buckets : c.buckets[b].key = c.memberships[q[j]].bucket
    BY <2>4 DEF KeysOf
  <2> QED BY <1>8, <2>3, <2>5
<1>13. /\ DOMAIN conf.constraints = DOMAIN c.constraints
       /\ Len(conf.constraints) = Len(c.constraints)
       /\ \A i \in DOMAIN c.constraints :
             /\ conf.constraints[i].key = c.constraints[i].key
             /\ conf.constraints[i].comparator = c.constraints[i].comparator
             /\ conf.constraints[i].limitState = c.constraints[i].limitState
             /\ conf.constraints[i].limit = c.constraints[i].limit
  BY <1>1 DEF ProjectedFrom
<1>14. Len(conf.constraints) <= MaxRows
  BY <1>2, <1>13 DEF WithinContentBounds
<1>15. \A i \in DOMAIN conf.constraints : AcceptedConstraint(conf.constraints[i])
  <2> SUFFICES ASSUME NEW i \in DOMAIN c.constraints  PROVE AcceptedConstraint(conf.constraints[i])
    BY <1>13
  <2>1. AcceptedCatalogConstraint(c.constraints[i])
    BY <1>2 DEF AcceptedRows
  <2> QED BY <1>13, <2>1 DEF AcceptedConstraint, AcceptedCatalogConstraint
<1>16. UniqueOn(conf.constraints, KeyOf)
  BY <1>2, <1>13 DEF RowsAreUnique, UniqueOn, KeyOf
<1>17. UniqueOn(conf.warnings, WarningIdentity)
  <2> SUFFICES ASSUME NEW j \in DOMAIN conf.warnings, NEW k \in DOMAIN conf.warnings,
                      WarningIdentity(conf.warnings[j]) = WarningIdentity(conf.warnings[k])
               PROVE  j = k
    BY Zenon DEF UniqueOn
  <2>1. PICK q \in [DOMAIN conf.warnings -> TemplateWarnings(c)] :
             /\ \A i \in DOMAIN conf.warnings :
                   /\ conf.warnings[i].code = c.warnings[q[i]].code
                   /\ conf.warnings[i].severity = c.warnings[q[i]].severity
             /\ \A h, i \in DOMAIN conf.warnings : q[h] = q[i] => h = i
    BY <1>1 DEF ProjectedFrom
  <2>2. /\ q[j] \in DOMAIN c.warnings /\ c.warnings[q[j]].scope = "template"
        /\ q[k] \in DOMAIN c.warnings /\ c.warnings[q[k]].scope = "template"
    BY <2>1 DEF TemplateWarnings
  <2>3. c.warnings[q[j]].item = Null /\ c.warnings[q[k]].item = Null
    BY <1>2, <2>2 DEF AcceptedRows, AcceptedCatalogWarning
  <2>4. WarningIdentity(c.warnings[q[j]]) = WarningIdentity(c.warnings[q[k]])
    BY <2>1 DEF WarningIdentity
  <2>5. q[j] = q[k]
    BY <1>2, <2>2, <2>3, <2>4, WarningsOfOneScope
  <2> QED BY <2>1, <2>5
<1>18. WarningCount(conf) <= MaxRows
  <2>1. WarningCount(conf) \in Nat /\ WarningCount(conf) <= Len(c.warnings)
        /\ Len(c.warnings) <= MaxRows
    BY <1>1, <1>2, WarningsAreCountedOnce DEF WithinContentBounds
  <2>2. Len(c.warnings) \in Nat
    BY <1>2, KeysOfCatalog, SequenceShape DEF CatalogTables
  <2> QED BY <2>1, <2>2, CalculationAssumption
<1>19. InferredCapabilities({conf.items[i].tax.state : i \in DOMAIN conf.items},
                            conf.buckets # <<>>, conf.constraints # <<>>) \subseteq conf.capabilities
  <2> DEFINE states == {conf.items[i].tax.state : i \in DOMAIN conf.items}
             declared == {c.taxRules[i].state : i \in DOMAIN c.taxRules}
  <2>1. \A i \in DOMAIN conf.items : conf.items[i].tax.state \in declared
    <3> SUFFICES ASSUME NEW i \in DOMAIN c.items
                 PROVE  ProjectItem(body, c.items[i]).tax.state \in declared
      BY <1>4
    <3>1. PICK rule \in DOMAIN c.taxRules : WinningTaxRules(body, c.items[i]) = {c.taxRules[rule]}
      BY <1>3, OneTaxRuleWins
    <3>2. (CHOOSE winner \in WinningTaxRules(body, c.items[i]) : TRUE) = c.taxRules[rule]
      BY <3>1
    <3>3. ResolveTaxTreatment(body, c.items[i]).state = c.taxRules[rule].state
      BY <3>2 DEF ResolveTaxTreatment
    <3>4. ProjectItem(body, c.items[i]).tax = ResolveTaxTreatment(body, c.items[i])
      BY ProjectItemKeeps
    <3> QED BY <3>3, <3>4
  <2>2. states \subseteq declared
    BY <2>1
  <2> HIDE DEF states, declared
  <2>3. InferredCapabilities(declared, c.buckets # <<>>, c.constraints # <<>>) \subseteq ToSet(c.capabilities)
    BY <1>2 DEF DeclaresCapabilities, declared
  <2>4. /\ (conf.buckets = <<>>) <=> (c.buckets = <<>>)
        /\ (conf.constraints = <<>>) <=> (c.constraints = <<>>)
        /\ conf.capabilities = ToSet(c.capabilities)
    BY <1>1 DEF ProjectedFrom
  <2>5. InferredCapabilities(states, conf.buckets # <<>>, conf.constraints # <<>>)
          \subseteq InferredCapabilities(declared, c.buckets # <<>>, c.constraints # <<>>)
    BY <2>2, <2>4 DEF InferredCapabilities
  <2> QED BY <2>3, <2>4, <2>5 DEF states
<1>20. AcceptedConfiguration(conf)
  BY <1>5, <1>6, <1>7, <1>9, <1>10, <1>11, <1>12, <1>14, <1>15, <1>16, <1>17, <1>18, <1>19, Zenon
     DEF AcceptedConfiguration
<1> QED BY <1>20 DEF conf

\* A tax rule of the catalog that can apply to the item.
HasTaxRule(c, item) ==
    ItemRules(c.taxRules, item) # {} \/ CategoryRules(c.taxRules, item) # {} \/ TemplateRules(c.taxRules) # {}

\* configurationProjector.js: what becomes of sealed content that the engine
\* can calculate with.  It projects, or an item has no tax rule; tax rules
\* never tie, and core.js never refuses what is projected.
THEOREM ProjectionOfSealedContent ==
    ASSUME NEW c, WellFormedCatalog(c), AcceptedCatalog(c), UsableKeys(c),
           ToSet(c.capabilities) \subseteq EngineCapabilities
    PROVE  LET projection == ProjectCatalogVersionContent(CanonicalCatalog(c))
           IN IF \A item \in ToSet(c.items) : HasTaxRule(c, item)
              THEN projection.state = "projected"
              ELSE projection = ProjectionFails("CATALOG_TAX_TREATMENT_MISSING")
<1> DEFINE body == CanonicalCatalog(c)
           winners == {Cardinality(WinningTaxRules(body, item)) : item \in ToSet(body.items)}
<1>1. PICK d : ReorderedCatalog(c, d) /\ BodyOf(d, body)
  BY CanonicalBody
<1> HIDE DEF body
<1>2. /\ ToSet(d.items) = ToSet(c.items) /\ ToSet(d.taxRules) = ToSet(c.taxRules)
      /\ ToSet(d.capabilities) = ToSet(c.capabilities)
      /\ KeysOf(d.items) = KeysOf(c.items) /\ KeysOf(d.buckets) = KeysOf(c.buckets)
  BY <1>1, TablesOfReordered DEF CatalogTables
<1>3. /\ body.items = d.items /\ body.taxRules = d.taxRules
      /\ body.capabilities \subseteq EngineCapabilities /\ UsableKeys(d)
  BY <1>1, <1>2 DEF BodyOf, UsableKeys
<1>4. \A item : (ApplicableTaxRules(body, item) # {}) <=> HasTaxRule(c, item)
  <2> SUFFICES ASSUME NEW item  PROVE (ApplicableTaxRules(body, item) # {}) <=> HasTaxRule(c, item)
    OBVIOUS
  <2>1. /\ ItemRules(body.taxRules, item) = ItemRules(c.taxRules, item)
        /\ CategoryRules(body.taxRules, item) = CategoryRules(c.taxRules, item)
        /\ TemplateRules(body.taxRules) = TemplateRules(c.taxRules)
    BY <1>2, <1>3 DEF ItemRules, CategoryRules, TemplateRules
  <2> QED BY <2>1, ApplicableByScope DEF HasTaxRule
<1>5. CASE \A item \in ToSet(c.items) : HasTaxRule(c, item)
  <2>1. \A item \in ToSet(body.items) : ApplicableTaxRules(body, item) # {}
    BY <1>2, <1>3, <1>4, <1>5
  <2>2. ASSUME NEW item \in ToSet(body.items)
        PROVE  Cardinality(WinningTaxRules(body, item)) = 1
    <3>1. PICK i \in DOMAIN d.taxRules : WinningTaxRules(body, item) = {d.taxRules[i]}
      BY <1>1, <2>1, OneTaxRuleWins
    <3> QED BY <3>1, FS_Singleton
  <2>3. ToSet(body.items) # {}
    <3>1. IsSequence(d.items) /\ Len(d.items) >= 1
      BY <1>1, KeysOfCatalog DEF BodyOf, AcceptedCatalog, WithinContentBounds, CatalogTables
    <3>2. 1 \in DOMAIN d.items
      BY <3>1, SequenceShape
    <3> QED BY <1>3, <3>2 DEF ToSet
  <2>4. winners = {1}
    <3>1. winners \subseteq {1}
      BY <2>2
    <3>2. winners # {}
      BY <2>3
    <3> QED BY <3>1, <3>2
  <2>5. AcceptedConfiguration(ProjectedConfiguration(body))
    BY <1>1, <1>3, <2>1, SealedContentIsAConfiguration
  <2> HIDE DEF winners
  <2>6. 0 \notin winners
    BY <2>4
  <2>7. ProjectCatalogVersionContent(body) =
           [state |-> "projected",
            configuration |-> SealResolvedConfiguration(ProjectedConfiguration(body))]
    BY <1>3, <2>4, <2>5, <2>6, Zenon DEF ProjectCatalogVersionContent, winners
  <2>8. ProjectCatalogVersionContent(body).state = "projected"
    BY <2>7
  <2> QED BY <1>5, <2>8 DEF body
<1>6. CASE ~\A item \in ToSet(c.items) : HasTaxRule(c, item)
  <2>1. PICK item \in ToSet(body.items) : ApplicableTaxRules(body, item) = {}
    BY <1>2, <1>3, <1>4, <1>6
  <2>2. WinningTaxRules(body, item) = {}
    BY <2>1 DEF WinningTaxRules
  <2>3. 0 \in winners
    BY <2>2, FS_EmptySet
  <2> HIDE DEF winners
  <2>4. ProjectCatalogVersionContent(body) = ProjectionFails("CATALOG_TAX_TREATMENT_MISSING")
    BY <1>3, <2>3, Zenon DEF ProjectCatalogVersionContent, winners
  <2> QED BY <1>6, <2>4 DEF body
<1> QED BY <1>5, <1>6

=============================================================================
