-------------------------- MODULE AuditOutboxProofs --------------------------
(***************************************************************************)
(* What AuditOutbox promises for any number of threads, events, crashes    *)
(* and failures: an acknowledged event is on the disk, the file skips and  *)
(* reorders nothing, and what is acknowledged is a prefix.                 *)
(***************************************************************************)
EXTENDS AuditOutbox, FiniteSetTheorems, SequenceTheorems, TLAPS

-----------------------------------------------------------------------------
(* The inductive invariant.                                                *)

\* There are lines for the events 1 .. w among the first n lines.
Lined(w, n) == \A i \in 1 .. w : \E p \in 1 .. n : file[p].event = i

Undisturbed == crashes = 0 /\ faults = 0

\* The holder of the lock has the events m + 1 .. b in its batch, and those up
\* to w are in the file.
Flushing(m, w, b) ==
  /\ m <= w /\ w <= b /\ b <= events
  /\ flushed = 1 .. m /\ batch = m + 1 .. b /\ todo = w + 1 .. b
  /\ Lined(w, Len(file))
  /\ Undisturbed => Len(file) = w

Batches == \A t \in AllThreads : at[t] \in Holding =>
  \E m, w, b \in Nat :
    /\ Flushing(m, w, b)
    /\ at[t] = "mark" => w = b /\ Lined(b, stable)

Prefix == \E m \in Nat :
  /\ m <= events
  /\ flushed = 1 .. m
  /\ LockFree /\ Undisturbed => Len(file) = m

\* The process is down only after a crash or a flush that raised.
DownAfterFault == alive \/ ~Undisturbed

IInv ==
  /\ TypeOK /\ FlushedIsDurable /\ NoGaps /\ NoDuplicateNoReorder
  /\ Prefix /\ Batches /\ DownAfterFault

-----------------------------------------------------------------------------
(* Intervals.                                                              *)

\* A batch is the interval of the first pending events.
LEMMA SelectionIsInterval ==
  ASSUME events \in Nat, NEW m \in Nat, m <= events, flushed = 1 .. m
  PROVE  \E b \in Nat : m <= b /\ b <= events /\ Selection = m + 1 .. b
  <1> USE LimitsAssumption
  <1>1. Pending = m + 1 .. events
    BY DEF Pending
  <1>2. \A i \in m + 1 .. events : Cardinality({j \in Pending : j < i}) = i - 1 - m
    <2> SUFFICES ASSUME NEW i \in m + 1 .. events
                 PROVE  Cardinality({j \in Pending : j < i}) = i - 1 - m
      OBVIOUS
    <2>1. {j \in Pending : j < i} = m + 1 .. i - 1
      BY <1>1
    <2>2. Cardinality(m + 1 .. i - 1) = IF m + 1 > i - 1 THEN 0 ELSE i - 1 - (m + 1) + 1
      BY FS_Interval
    <2>3. Cardinality({j \in Pending : j < i}) = Cardinality(m + 1 .. i - 1)
      BY <2>1, Zenon
    <2> DEFINE k == Cardinality({j \in Pending : j < i})
    <2>4. k = IF m + 1 > i - 1 THEN 0 ELSE i - 1 - (m + 1) + 1
      BY <2>2, <2>3, Zenon
    <2> HIDE DEF k
    <2>5. k = i - 1 - m
      BY <2>4
    <2> QED BY <2>5 DEF k
  <1>3. Selection = {i \in m + 1 .. events : i - 1 - m < BatchLimit}
    BY <1>1, <1>2 DEF Selection
  <1>4. CASE m + BatchLimit <= events
    <2>1. Selection = m + 1 .. m + BatchLimit
      <3>1. \A i \in Selection : i \in m + 1 .. m + BatchLimit
        BY <1>3
      <3>2. \A i \in m + 1 .. m + BatchLimit : i \in Selection
        BY <1>3, <1>4
      <3> QED BY <3>1, <3>2
    <2> DEFINE b == m + BatchLimit
    <2>2. b \in Nat /\ m <= b /\ b <= events /\ Selection = m + 1 .. b
      BY <2>1, <1>4
    <2> HIDE DEF b
    <2> QED BY <2>2
  <1>5. CASE ~(m + BatchLimit <= events)
    <2>1. Selection = m + 1 .. events
      <3>1. \A i \in Selection : i \in m + 1 .. events
        BY <1>3
      <3>2. \A i \in m + 1 .. events : i \in Selection
        BY <1>3, <1>5
      <3> QED BY <3>1, <3>2
    <2> QED BY <2>1
  <1> QED BY <1>4, <1>5

LEMMA SmallestOfInterval ==
  ASSUME NEW w \in Nat, NEW b \in Nat, w + 1 .. b # {}
  PROVE  /\ w + 1 <= b /\ Smallest(w + 1 .. b) = w + 1
         /\ (w + 1 .. b) \ {w + 1} = w + 2 .. b
  <1> DEFINE S == w + 1 .. b
             i == Smallest(S)
  <1>1. w + 1 \in S /\ \A j \in S : w + 1 <= j
    OBVIOUS
  <1>2. i \in S /\ \A j \in S : i <= j
    <2> HIDE DEF S
    <2> QED BY <1>1 DEF Smallest
  <1>3. i = w + 1
    BY <1>1, <1>2
  <1> QED BY <1>1, <1>3

LEMMA LinedMore ==
  ASSUME NEW w, NEW n \in Nat, NEW k \in Nat, n <= k, Lined(w, n)
  PROVE  Lined(w, k)
  <1>1. 1 .. n \subseteq 1 .. k
    OBVIOUS
  <1> QED BY <1>1 DEF Lined

LEMMA LinesTyped ==
  ASSUME TypeOK
  PROVE  /\ Len(file) \in Nat /\ stable \in Nat /\ stable <= Len(file)
         /\ \A p \in 1 .. Len(file) : file[p] \in Lines /\ file[p].event \in Nat \ {0}
         /\ events \in Nat
  <1>1. file \in Seq(Lines) /\ stable \in 0 .. Len(file) /\ events \in 0 .. MaxEvents
    BY DEF TypeOK
  <1>2. Len(file) \in Nat /\ stable \in Nat /\ stable <= Len(file) /\ events \in Nat
    BY <1>1, LimitsAssumption
  <1>3. \A p \in 1 .. Len(file) : file[p] \in Lines
    BY <1>1
  <1> QED BY <1>2, <1>3 DEF Lines

-----------------------------------------------------------------------------
LEMMA InitIInv == ASSUME Init PROVE IInv
  <1> USE LimitsAssumption, ThreadsAssumption DEF Init
  <1>1. TypeOK
    BY DEF TypeOK, AllThreads, Places, Holding
  <1>2. FlushedIsDurable /\ NoGaps /\ NoDuplicateNoReorder
    BY DEF FlushedIsDurable, NoGaps, NoDuplicateNoReorder
  <1>3. Prefix
    <2>1. flushed = 1 .. 0 /\ Len(file) = 0
      OBVIOUS
    <2> QED BY <2>1 DEF Prefix
  <1>4. Batches
    BY DEF Batches, Holding
  <1> QED BY <1>1, <1>2, <1>3, <1>4 DEF IInv, DownAfterFault

-----------------------------------------------------------------------------
(* Steps that leave the file, its durable part and the marks alone.        *)

\* A longer table or another place of a thread changes nothing of the file.
LEMMA FileKept ==
  ASSUME IInv, UNCHANGED <<flushed, file, stable>>,
         crashes' = crashes \/ crashes' # 0, faults' = faults \/ faults' # 0
  PROVE  /\ FlushedIsDurable' /\ NoGaps' /\ NoDuplicateNoReorder'
         /\ Undisturbed' => Undisturbed
         /\ \A w, n : Lined(w, n)' <=> Lined(w, n)
  <1>1. FlushedIsDurable'
    BY DEF IInv, FlushedIsDurable
  <1>2. NoGaps'
    BY DEF IInv, NoGaps
  <1>3. NoDuplicateNoReorder'
    BY DEF IInv, NoDuplicateNoReorder
  <1>4. \A w, n : Lined(w, n)' <=> Lined(w, n)
    BY DEF Lined
  <1> QED BY <1>1, <1>2, <1>3, <1>4 DEF Undisturbed

LEMMA CommitEventKeeps ==
  ASSUME IInv, NEW t \in AllThreads, CommitEvent(t) \/ FlushOnly(t)
  PROVE  IInv'
  <1> USE LimitsAssumption
  <1>1. /\ UNCHANGED <<flushed, file, stable, alive, todo, batch, crashes, faults, tears>>
        /\ at' = [at EXCEPT ![t] = "owesFlush"]
        /\ events' = events \/ (events < MaxEvents /\ events' = events + 1)
        /\ LockFree
    BY DEF CommitEvent, FlushOnly, Goto, disk, durable, bounds
  <1>2. /\ events \in 0 .. MaxEvents /\ at \in [AllThreads -> Places]
    BY DEF IInv, TypeOK
  <1>3. /\ at' \in [AllThreads -> Places] /\ \A u \in AllThreads : at'[u] \notin Holding
    BY <1>1, <1>2 DEF Places, Holding, LockFree
  <1>4. events' \in 0 .. MaxEvents /\ events <= events'
    BY <1>1, <1>2
  <1>5. TypeOK'
    <2>1. 1 .. events \subseteq 1 .. events'
      BY <1>2, <1>4
    <2> QED BY <1>1, <1>3, <1>4, <2>1 DEF IInv, TypeOK
  <1>6. Prefix'
    <2>1. PICK m \in Nat : m <= events /\ flushed = 1 .. m
                            /\ (LockFree /\ Undisturbed => Len(file) = m)
      BY DEF IInv, Prefix
    <2>2. m <= events'
      BY <2>1, <1>2, <1>4
    <2> QED BY <2>1, <2>2, <1>1 DEF Prefix, Undisturbed
  <1>7. Batches'
    BY <1>3 DEF Batches
  <1> QED BY <1>1, <1>5, <1>6, <1>7, FileKept DEF IInv, DownAfterFault, Undisturbed

LEMMA SelectKeeps ==
  ASSUME IInv, NEW t \in AllThreads, Select(t)
  PROVE  IInv'
  <1> USE LimitsAssumption
  <1>1. /\ UNCHANGED <<events, flushed, file, stable, alive, crashes, faults, tears>>
        /\ batch' = Selection /\ todo' = Selection /\ LockFree
        /\ at' = [at EXCEPT ![t] = IF Selection = {} THEN "idle" ELSE "open"]
    BY DEF Select, Goto, disk, durable, bounds
  <1>2. PICK m \in Nat : m <= events /\ flushed = 1 .. m
                            /\ (LockFree /\ Undisturbed => Len(file) = m)
    BY DEF IInv, Prefix
  <1>3. PICK b \in Nat : m <= b /\ b <= events /\ Selection = m + 1 .. b
    BY <1>2, SelectionIsInterval, LinesTyped DEF IInv
  <1>4. at' \in [AllThreads -> Places] /\ \A u \in AllThreads \ {t} : at'[u] \notin Holding
    BY <1>1 DEF IInv, TypeOK, Places, Holding, LockFree
  <1>5. TypeOK'
    <2>1. Selection \subseteq 1 .. events
      BY DEF Selection, Pending
    <2>2. \A u, v \in AllThreads : at'[u] \in Holding /\ at'[v] \in Holding => u = v
      BY <1>4
    <2> QED BY <1>1, <1>4, <2>1, <2>2 DEF IInv, TypeOK
  <1>6. Prefix'
    BY <1>1, <1>2 DEF Prefix, Undisturbed
  <1>7. Batches'
    <2>1. Lined(m, stable)
      BY <1>2 DEF IInv, FlushedIsDurable, Lined
    <2>2. Lined(m, Len(file))
      BY <2>1, LinedMore, LinesTyped DEF IInv
    <2>3. Flushing(m, m, b)'
      BY <1>1, <1>2, <1>3, <2>2 DEF Flushing, Lined, Undisturbed
    <2>4. at'[t] # "mark"
      BY <1>1 DEF IInv, TypeOK
    <2> QED BY <1>4, <2>3, <2>4 DEF Batches
  <1> QED BY <1>1, <1>5, <1>6, <1>7, FileKept DEF IInv, DownAfterFault, Undisturbed

LEMMA OpenFileKeeps ==
  ASSUME IInv, NEW t \in AllThreads, OpenFile(t)
  PROVE  IInv'
  <1>1. /\ UNCHANGED <<events, flushed, file, stable, alive, todo, batch, crashes, faults, tears>>
        /\ at' = [at EXCEPT ![t] = "write"] /\ at[t] = "open"
    BY DEF OpenFile, Goto, disk, durable, bounds
  <1>2. /\ at \in [AllThreads -> Places] /\ at' \in [AllThreads -> Places]
        /\ \A u \in AllThreads : at'[u] \in Holding <=> at[u] \in Holding
        /\ \A u \in AllThreads : at'[u] = "mark" => at[u] = "mark"
    BY <1>1 DEF IInv, TypeOK, Places, Holding
  <1>3. TypeOK'
    BY <1>1, <1>2 DEF IInv, TypeOK
  <1>4. Prefix'
    BY <1>1, <1>2 DEF IInv, Prefix, LockFree, Undisturbed
  <1>5. Batches'
    <2> SUFFICES ASSUME NEW u \in AllThreads, at'[u] \in Holding
                 PROVE  \E m, w, b \in Nat :
                           /\ Flushing(m, w, b)'
                           /\ at'[u] = "mark" => w = b /\ Lined(b, stable)'
      BY DEF Batches
    <2>1. PICK m \in Nat, w \in Nat, b \in Nat :
              Flushing(m, w, b) /\ (at[u] = "mark" => w = b /\ Lined(b, stable))
      BY <1>2 DEF IInv, Batches
    <2>2. Flushing(m, w, b)'
      BY <2>1, <1>1 DEF Flushing, Lined, Undisturbed
    <2>3. Lined(b, stable) => Lined(b, stable)'
      BY <1>1 DEF Lined
    <2> QED BY <2>1, <2>2, <2>3, <1>2
  <1> QED BY <1>1, <1>3, <1>4, <1>5, FileKept DEF IInv, DownAfterFault, Undisturbed

-----------------------------------------------------------------------------
\* The next event of the batch is appended.
LEMMA WriteLineKeeps ==
  ASSUME IInv, NEW t \in AllThreads, WriteLine(t)
  PROVE  IInv'
  <1> USE LimitsAssumption
  <1> DEFINE n == Len(file)
  <1>1. PICK whole \in BOOLEAN :
          /\ file' = Append(file, [event |-> Smallest(todo), whole |-> whole])
          /\ IF whole THEN UNCHANGED tears ELSE tears < MaxTears /\ tears' = tears + 1
    BY DEF WriteLine
  <1>2. /\ UNCHANGED <<events, flushed, stable, alive, at, batch, crashes, faults>>
        /\ todo' = todo \ {Smallest(todo)} /\ at[t] = "write" /\ todo # {}
    BY DEF WriteLine, durable
  <1>3. PICK m \in Nat, w \in Nat, b \in Nat : Flushing(m, w, b)
    BY <1>2 DEF IInv, Batches, Holding
  <1>4. /\ w + 1 <= b /\ Smallest(todo) = w + 1 /\ todo' = w + 2 .. b
    <2>1. todo = w + 1 .. b
      BY <1>3 DEF Flushing
    <2> QED BY <2>1, <1>2, SmallestOfInterval
  <1>5. /\ n \in Nat /\ stable \in 0 .. n /\ file \in Seq(Lines)
        /\ tears \in 0 .. MaxTears
    BY LinesTyped DEF IInv, TypeOK
  <1>6. [event |-> w + 1, whole |-> whole] \in Lines
    BY DEF Lines
  <1>7. /\ file' \in Seq(Lines) /\ Len(file') = n + 1
        /\ \A p \in 1 .. n : file'[p] = file[p]
        /\ file'[n + 1].event = w + 1
    BY <1>1, <1>4, <1>5, <1>6
  <1>8. TypeOK'
    <2>1. tears' \in 0 .. MaxTears
      BY <1>1, <1>5
    <2>2. stable' \in 0 .. Len(file')
      BY <1>2, <1>5, <1>7
    <2>3. todo' \subseteq batch'
      BY <1>2 DEF IInv, TypeOK
    <2> QED BY <1>2, <1>7, <2>1, <2>2, <2>3 DEF IInv, TypeOK
  <1>9. FlushedIsDurable'
    <2>1. 1 .. stable \subseteq 1 .. n
      BY <1>5
    <2> QED BY <1>2, <1>7, <2>1 DEF IInv, FlushedIsDurable
  <1>10. \A i \in 1 .. w + 1 : \E p \in 1 .. n + 1 : file'[p].event = i
    <2>1. Lined(w, n)
      BY <1>3 DEF Flushing
    <2> SUFFICES ASSUME NEW i \in 1 .. w + 1
                 PROVE  \E p \in 1 .. n + 1 : file'[p].event = i
      OBVIOUS
    <2>2. CASE i = w + 1
      BY <2>2, <1>5, <1>7
    <2>3. CASE i # w + 1
      <3>1. PICK p \in 1 .. n : file[p].event = i
        BY <2>1, <2>3 DEF Lined
      <3> QED BY <3>1, <1>5, <1>7
    <2> QED BY <2>2, <2>3
  <1>11. NoGaps'
    <2> SUFFICES ASSUME NEW p \in 1 .. n + 1, NEW i \in 1 .. file'[p].event
                 PROVE  \E q \in 1 .. p : file'[q].event = i
      BY <1>7 DEF NoGaps
    <2>1. CASE p = n + 1
      BY <2>1, <1>7, <1>10
    <2>2. CASE p # n + 1
      <3>1. p \in 1 .. n /\ file'[p] = file[p]
        BY <2>2, <1>5, <1>7
      <3>2. PICK q \in 1 .. p : file[q].event = i
        BY <3>1 DEF IInv, NoGaps
      <3>3. q \in 1 .. n
        BY <3>1, <1>5
      <3> QED BY <3>2, <3>3, <1>7
    <2> QED BY <2>1, <2>2
  <1>12. Undisturbed' => n = w
    BY <1>2, <1>3 DEF Flushing, Undisturbed
  <1>13. NoDuplicateNoReorder'
    <2> SUFFICES ASSUME Undisturbed', NEW p \in 1 .. n + 1
                 PROVE  file'[p].event = p
      BY <1>7 DEF NoDuplicateNoReorder, Undisturbed
    <2>1. CASE p = n + 1
      BY <2>1, <1>7, <1>12
    <2>2. CASE p # n + 1
      <3>1. p \in 1 .. n /\ file'[p] = file[p]
        BY <2>2, <1>5, <1>7
      <3> QED BY <3>1, <1>2 DEF IInv, NoDuplicateNoReorder, Undisturbed
    <2> QED BY <2>1, <2>2
  <1>14. Prefix'
    <2>1. ~LockFree'
      BY <1>2 DEF LockFree, Holding
    <2> QED BY <2>1, <1>2 DEF IInv, Prefix
  <1>15. Batches'
    <2>1. Flushing(m, w + 1, b)'
      <3>1. Lined(w + 1, Len(file))'
        BY <1>7, <1>10 DEF Lined
      <3>2. m <= w + 1 /\ w + 1 <= b /\ b <= events'
        BY <1>2, <1>3, <1>4 DEF Flushing
      <3>3. flushed' = 1 .. m /\ batch' = m + 1 .. b /\ todo' = (w + 1) + 1 .. b
        BY <1>2, <1>3, <1>4 DEF Flushing
      <3>4. Undisturbed' => Len(file') = w + 1
        BY <1>7, <1>12
      <3> QED BY <3>1, <3>2, <3>3, <3>4 DEF Flushing
    <2>2. \A u \in AllThreads : at'[u] \in Holding => u = t
      BY <1>2 DEF IInv, TypeOK, Holding
    <2>3. at'[t] # "mark" /\ w + 1 \in Nat
      BY <1>2
    <2> QED BY <2>1, <2>2, <2>3 DEF Batches
  <1> QED BY <1>2, <1>8, <1>9, <1>11, <1>13, <1>14, <1>15 DEF IInv, DownAfterFault, Undisturbed

\* The whole batch is written: what the file holds becomes durable.
LEMMA SyncKeeps ==
  ASSUME IInv, NEW t \in AllThreads, Sync(t)
  PROVE  IInv'
  <1> DEFINE n == Len(file)
  <1>1. /\ UNCHANGED <<events, flushed, file, alive, todo, batch, crashes, faults, tears>>
        /\ at[t] = "write" /\ todo = {} /\ stable' = n
        /\ at' = [at EXCEPT ![t] = "mark"]
    BY DEF Sync, SyncedLength, Goto, durable, bounds
  <1>2. n \in Nat /\ stable \in 0 .. n
    BY LinesTyped DEF IInv, TypeOK
  <1>3. /\ at' \in [AllThreads -> Places] /\ at'[t] = "mark"
        /\ \A u \in AllThreads : at'[u] \in Holding <=> at[u] \in Holding
        /\ \A u \in AllThreads : at'[u] \in Holding => u = t
    BY <1>1 DEF IInv, TypeOK, Places, Holding
  <1>4. TypeOK'
    BY <1>1, <1>2, <1>3 DEF IInv, TypeOK
  <1>5. FlushedIsDurable'
    <2>1. 1 .. stable \subseteq 1 .. n
      BY <1>2
    <2> QED BY <1>1, <2>1 DEF IInv, FlushedIsDurable
  <1>6. NoGaps' /\ NoDuplicateNoReorder'
    BY <1>1 DEF IInv, NoGaps, NoDuplicateNoReorder
  <1>7. Prefix'
    BY <1>1, <1>3 DEF IInv, Prefix, LockFree, Undisturbed
  <1>8. Batches'
    <2>1. PICK m \in Nat, w \in Nat, b \in Nat : Flushing(m, w, b)
      BY <1>1 DEF IInv, Batches, Holding
    <2>2. w = b
      BY <2>1, <1>1 DEF Flushing
    <2>3. Lined(b, n)
      BY <2>1, <2>2 DEF Flushing
    <2>4. Flushing(m, w, b)' /\ Lined(b, stable)'
      BY <2>1, <2>3, <1>1 DEF Flushing, Lined, Undisturbed
    <2> QED BY <2>2, <2>4, <1>3 DEF Batches
  <1> QED BY <1>1, <1>4, <1>5, <1>6, <1>7, <1>8 DEF IInv, DownAfterFault, Undisturbed

LEMMA MarkFlushedKeeps ==
  ASSUME IInv, NEW t \in AllThreads, MarkFlushed(t)
  PROVE  IInv'
  <1>1. /\ UNCHANGED <<events, file, stable, alive, todo, batch, crashes, faults, tears>>
        /\ at[t] = "mark" /\ flushed' = flushed \cup batch
        /\ at' = [at EXCEPT ![t] = "idle"]
    BY DEF MarkFlushed, Acknowledged, Goto, disk, bounds
  <1>2. PICK m \in Nat, w \in Nat, b \in Nat :
            Flushing(m, w, b) /\ w = b /\ Lined(b, stable)
    BY <1>1 DEF IInv, Batches, Holding
  <1>3. flushed' = 1 .. b /\ b <= events
    BY <1>1, <1>2 DEF Flushing
  <1>4. /\ at' \in [AllThreads -> Places]
        /\ \A u \in AllThreads : at'[u] \notin Holding
    BY <1>1 DEF IInv, TypeOK, Places, Holding
  <1>5. TypeOK'
    BY <1>1, <1>3, <1>4 DEF IInv, TypeOK
  <1>6. FlushedIsDurable'
    BY <1>1, <1>2, <1>3 DEF FlushedIsDurable, Lined
  <1>7. NoGaps' /\ NoDuplicateNoReorder'
    BY <1>1 DEF IInv, NoGaps, NoDuplicateNoReorder
  <1>8. Prefix'
    <2>1. Undisturbed' => Len(file') = b
      BY <1>1, <1>2 DEF Flushing, Undisturbed
    <2> QED BY <2>1, <1>1, <1>3 DEF Prefix
  <1>9. Batches'
    BY <1>4 DEF Batches
  <1> QED BY <1>1, <1>5, <1>6, <1>7, <1>8, <1>9 DEF IInv, DownAfterFault, Undisturbed

-----------------------------------------------------------------------------
(* Failures.                                                               *)

LEMMA FlushRaisesKeeps ==
  ASSUME IInv, NEW t \in AllThreads, FlushRaises(t)
  PROVE  IInv'
  <1> USE LimitsAssumption
  <1>1. /\ UNCHANGED <<events, flushed, file, stable, todo, batch, crashes, tears>>
        /\ faults < MaxFaults /\ faults' = faults + 1 /\ at[t] \in Holding
    BY DEF FlushRaises, disk, durable
  <1>2. faults \in 0 .. MaxFaults /\ at \in [AllThreads -> Places] /\ alive \in BOOLEAN
    BY DEF IInv, TypeOK
  <1>3. faults' \in 0 .. MaxFaults /\ faults' # 0
    BY <1>1, <1>2
  <1>4. /\ alive' \in BOOLEAN /\ at' \in [AllThreads -> Places]
        /\ \A u \in AllThreads : at'[u] \notin Holding
    <2>1. CASE t = Main
      BY <2>1, <1>2 DEF FlushRaises, Places, Holding
    <2>2. CASE t # Main
      <3>1. at' = [at EXCEPT ![t] = "idle"] /\ UNCHANGED alive
        BY <2>2 DEF FlushRaises, Goto
      <3> QED BY <3>1, <1>1, <1>2 DEF IInv, TypeOK, Places, Holding
    <2> QED BY <2>1, <2>2
  <1>5. TypeOK'
    BY <1>1, <1>3, <1>4 DEF IInv, TypeOK
  <1>6. Prefix'
    BY <1>1, <1>3 DEF IInv, Prefix, Undisturbed
  <1>7. Batches'
    BY <1>4 DEF Batches
  <1> QED BY <1>1, <1>3, <1>5, <1>6, <1>7, FileKept DEF IInv, DownAfterFault, Undisturbed

LEMMA AfterDeath ==
  ASSUME IInv, Dies
  PROVE  /\ alive' \in BOOLEAN /\ crashes' \in 0 .. MaxCrashes /\ crashes' # 0
         /\ at' \in [AllThreads -> Places] /\ \A u \in AllThreads : at'[u] \notin Holding
         /\ Batches' /\ ~Undisturbed'
  <1>1. crashes \in 0 .. MaxCrashes
    BY DEF IInv, TypeOK
  <1>2. crashes' \in 0 .. MaxCrashes /\ crashes' # 0
    BY <1>1, LimitsAssumption DEF Dies
  <1>3. /\ at' \in [AllThreads -> Places] /\ \A u \in AllThreads : at'[u] \notin Holding
    BY DEF Dies, Places, Holding
  <1> QED BY <1>2, <1>3 DEF Dies, Batches, Undisturbed

LEMMA ProcessDiesKeeps ==
  ASSUME IInv, ProcessDies
  PROVE  IInv'
  <1>1. Dies /\ UNCHANGED <<events, flushed, file, stable, todo, batch, faults, tears>>
    BY DEF ProcessDies, disk, durable
  <1>2. TypeOK'
    BY <1>1, AfterDeath DEF IInv, TypeOK
  <1>3. Prefix'
    BY <1>1, AfterDeath DEF IInv, Prefix
  <1> QED BY <1>1, <1>2, <1>3, AfterDeath, FileKept DEF IInv, DownAfterFault

\* What the disk keeps is a prefix that contains the durable part.
LEMMA PowerLossKeeps ==
  ASSUME IInv, PowerLoss
  PROVE  IInv'
  <1> USE LimitsAssumption
  <1> DEFINE n == Len(file)
  <1>1. Dies /\ UNCHANGED <<events, flushed, todo, batch, faults>>
    BY DEF PowerLoss, durable
  <1>2. PICK kept \in stable .. n :
          /\ stable' = kept
          /\ \/ file' = SubSeq(file, 1, kept) /\ UNCHANGED tears
             \/ /\ kept > stable /\ tears < MaxTears /\ tears' = tears + 1
                /\ file' = [SubSeq(file, 1, kept) EXCEPT ![kept].whole = FALSE]
    BY DEF PowerLoss
  <1>3. /\ n \in Nat /\ stable \in 0 .. n /\ file \in Seq(Lines) /\ tears \in 0 .. MaxTears
        /\ \A p \in 1 .. n : file[p] \in Lines
    BY LinesTyped DEF IInv, TypeOK
  <1>4. kept \in 0 .. n /\ stable <= kept
    BY <1>3
  <1> DEFINE part == SubSeq(file, 1, kept)
  <1>5. part \in Seq(Lines) /\ Len(part) = kept /\ \A p \in 1 .. kept : part[p] = file[p]
    BY <1>3, <1>4
  <1>6. /\ file' \in Seq(Lines) /\ Len(file') = kept
        /\ \A p \in 1 .. kept : file'[p].event = file[p].event
        /\ tears' \in 0 .. MaxTears
    <2>1. CASE file' = part /\ UNCHANGED tears
      BY <2>1, <1>3, <1>5
    <2>2. CASE kept > stable /\ tears < MaxTears /\ tears' = tears + 1
               /\ file' = [part EXCEPT ![kept].whole = FALSE]
      <3>1. kept \in 1 .. kept
        BY <2>2, <1>3, <1>4
      <3>2. part[kept] \in Lines /\ [part[kept] EXCEPT !.whole = FALSE] \in Lines
            /\ [part[kept] EXCEPT !.whole = FALSE].event = part[kept].event
        <4>1. part[kept] \in Lines
          BY <3>1, <1>3, <1>4, <1>5
        <4> HIDE DEF part
        <4> QED BY <4>1 DEF Lines
      <3>3. file' = [part EXCEPT ![kept] = [part[kept] EXCEPT !.whole = FALSE]]
        BY <2>2
      <3>4. file' \in Seq(Lines) /\ Len(file') = kept
            /\ \A p \in 1 .. kept : file'[p] = IF p = kept
                                       THEN [part[kept] EXCEPT !.whole = FALSE] ELSE part[p]
        <4> HIDE DEF part
        <4> QED BY <3>1, <3>2, <3>3, <1>5
      <3>5. \A p \in 1 .. kept : file'[p].event = file[p].event
        <4> SUFFICES ASSUME NEW p \in 1 .. kept PROVE file'[p].event = file[p].event
          OBVIOUS
        <4>1. part[p].event = file[p].event
          BY <1>5
        <4> HIDE DEF part
        <4>2. CASE p = kept
          BY <4>1, <4>2, <3>2, <3>4
        <4>3. CASE p # kept
          BY <4>1, <4>3, <3>4
        <4> QED BY <4>2, <4>3
      <3>6. tears' \in 0 .. MaxTears
        <4>1. tears < MaxTears /\ tears' = tears + 1
          BY <2>2, Zenon
        <4>2. tears \in 0 .. MaxTears
          BY <1>3, Zenon
        <4> HIDE DEF part, n
        <4> QED BY <4>1, <4>2
      <3> QED BY <3>4, <3>5, <3>6
    <2> QED BY <1>2, <2>1, <2>2
  <1>7. TypeOK'
    <2>1. stable' \in 0 .. Len(file')
      BY <1>2, <1>3, <1>4, <1>6
    <2> QED BY <1>1, <1>6, <2>1, AfterDeath DEF IInv, TypeOK
  <1>8. FlushedIsDurable'
    <2>1. 1 .. stable \subseteq 1 .. kept
      BY <1>3, <1>4
    <2>2. \A i \in flushed : \E p \in 1 .. stable : file[p].event = i
      BY DEF IInv, FlushedIsDurable
    <2> QED BY <1>1, <1>2, <1>6, <2>1, <2>2 DEF FlushedIsDurable
  <1>9. NoGaps'
    <2> SUFFICES ASSUME NEW p \in 1 .. kept, NEW i \in 1 .. file'[p].event
                 PROVE  \E q \in 1 .. p : file'[q].event = i
      BY <1>6 DEF NoGaps
    <2>1. p \in 1 .. n /\ i \in 1 .. file[p].event
      BY <1>3, <1>4, <1>6
    <2>2. PICK q \in 1 .. p : file[q].event = i
      BY <2>1 DEF IInv, NoGaps
    <2>3. q \in 1 .. kept
      BY <1>4
    <2> QED BY <2>2, <2>3, <1>6
  <1>10. NoDuplicateNoReorder'
    BY <1>1, AfterDeath DEF NoDuplicateNoReorder, Undisturbed
  <1>11. Prefix'
    BY <1>1, AfterDeath DEF IInv, Prefix
  <1> QED BY <1>1, <1>7, <1>8, <1>9, <1>10, <1>11, AfterDeath DEF IInv, DownAfterFault

LEMMA StartKeeps ==
  ASSUME IInv, Start
  PROVE  IInv'
  <1> USE LimitsAssumption
  <1>1. /\ UNCHANGED <<flushed, file, stable, todo, batch, crashes, faults, tears>>
        /\ alive' = TRUE /\ at' = [t \in AllThreads |-> PlaceAtStart(t)]
        /\ events' = events \/ (events < MaxEvents /\ events' = events + 1)
    BY DEF Start, disk, bounds
  <1>2. events \in 0 .. MaxEvents
    BY DEF IInv, TypeOK
  <1>3. /\ at' \in [AllThreads -> Places] /\ \A u \in AllThreads : at'[u] \notin Holding
    BY <1>1 DEF PlaceAtStart, Places, Holding
  <1>4. events' \in 0 .. MaxEvents /\ events <= events'
    BY <1>1, <1>2
  <1>5. TypeOK'
    <2>1. 1 .. events \subseteq 1 .. events'
      BY <1>2, <1>4
    <2> QED BY <1>1, <1>3, <1>4, <2>1 DEF IInv, TypeOK
  <1>6. Prefix'
    <2>1. PICK m \in Nat : m <= events /\ flushed = 1 .. m
      BY DEF IInv, Prefix
    <2>2. m <= events'
      BY <2>1, <1>2, <1>4
    <2>3. ~Undisturbed'
      BY <1>1 DEF IInv, DownAfterFault, Undisturbed, Start
    <2> QED BY <2>1, <2>2, <2>3, <1>1 DEF Prefix
  <1>7. Batches'
    BY <1>3 DEF Batches
  <1> QED BY <1>1, <1>5, <1>6, <1>7, FileKept DEF IInv, DownAfterFault, Undisturbed

LEMMA NextKeeps ==
  ASSUME IInv, [Next]_vars
  PROVE  IInv'
  <1>1. CASE \E t \in AllThreads : CommitEvent(t) \/ FlushOnly(t)
    BY <1>1, CommitEventKeeps
  <1>2. CASE \E t \in AllThreads : Flush(t)
    <2>1. PICK t \in AllThreads : Flush(t)
      BY <1>2
    <2> QED BY <2>1, SelectKeeps, OpenFileKeeps, WriteLineKeeps, SyncKeeps, MarkFlushedKeeps
            DEF Flush
  <1>3. CASE \E t \in AllThreads : FlushRaises(t)
    BY <1>3, FlushRaisesKeeps
  <1>4. CASE ProcessDies \/ PowerLoss \/ Start
    BY <1>4, ProcessDiesKeeps, PowerLossKeeps, StartKeeps
  <1>5. CASE UNCHANGED vars
    <2>1. TypeOK' /\ FlushedIsDurable' /\ NoGaps' /\ NoDuplicateNoReorder'
      BY <1>5 DEF vars, durable, disk, bounds, IInv, TypeOK, FlushedIsDurable, NoGaps,
         NoDuplicateNoReorder
    <2>2. Prefix' /\ Batches' /\ DownAfterFault'
      <3>1. UNCHANGED <<events, flushed, file, stable, alive, at, todo, batch, crashes, faults>>
        BY <1>5 DEF vars, durable, disk, bounds
      <3>2. Prefix' /\ DownAfterFault'
        BY <3>1 DEF IInv, Prefix, LockFree, Undisturbed, DownAfterFault
      <3>3. \A m, w, b : Flushing(m, w, b)' <=> Flushing(m, w, b)
        BY <3>1 DEF Flushing, Lined, Undisturbed
      <3>4. \A b : Lined(b, stable)' <=> Lined(b, stable)
        BY <3>1 DEF Lined
      <3>5. Batches'
        BY <3>1, <3>3, <3>4 DEF IInv, Batches
      <3> QED BY <3>2, <3>5
    <2> QED BY <2>1, <2>2 DEF IInv
  <1> QED BY <1>1, <1>2, <1>3, <1>4, <1>5 DEF Next

-----------------------------------------------------------------------------
(* Damage: a tear breaks one line, which costs the event of that line and  *)
(* the one of the line appended after it.                                  *)

Broken(f) == {p \in 1 .. Len(f) : ~f[p].whole}

TearsCounted == Cardinality(Broken(file)) <= tears

LEMMA BrokenIsFinite ==
  ASSUME NEW f \in Seq(Lines)
  PROVE  IsFiniteSet(Broken(f)) /\ Cardinality(Broken(f)) \in Nat
  <1>1. IsFiniteSet(1 .. Len(f))
    BY FS_Interval
  <1>2. IsFiniteSet(Broken(f))
    BY <1>1, FS_Subset DEF Broken
  <1> QED BY <1>2, FS_CardinalityType

\* Nothing more is broken, or one line when a tear is counted.
LEMMA OneMoreBroken ==
  ASSUME TypeOK, file' \in Seq(Lines), TearsCounted, NEW p,
         \/ Broken(file') \subseteq Broken(file) /\ tears' = tears
         \/ Broken(file') \subseteq Broken(file) \cup {p} /\ tears' = tears + 1
  PROVE  TearsCounted'
  <1>1. /\ IsFiniteSet(Broken(file)) /\ Cardinality(Broken(file)) \in Nat
        /\ IsFiniteSet(Broken(file')) /\ Cardinality(Broken(file')) \in Nat
    BY BrokenIsFinite DEF TypeOK
  <1>2. tears \in Nat
    BY LimitsAssumption DEF TypeOK
  <1>3. CASE Broken(file') \subseteq Broken(file) /\ tears' = tears
    <2>1. Cardinality(Broken(file')) <= Cardinality(Broken(file))
      BY <1>1, <1>3, FS_Subset
    <2> QED BY <2>1, <1>1, <1>2, <1>3 DEF TearsCounted
  <1>4. CASE Broken(file') \subseteq Broken(file) \cup {p} /\ tears' = tears + 1
    <2> DEFINE S == Broken(file) \cup {p}
    <2>1. IsFiniteSet(S) /\ Cardinality(S) <= Cardinality(Broken(file)) + 1
      <3>1. /\ IsFiniteSet(S)
            /\ Cardinality(S) = IF p \in Broken(file) THEN Cardinality(Broken(file))
                                                     ELSE Cardinality(Broken(file)) + 1
        BY <1>1, FS_AddElement, Zenon
      <3> HIDE DEF S
      <3> QED BY <3>1, <1>1
    <2>2. Cardinality(Broken(file')) <= Cardinality(S) /\ Cardinality(S) \in Nat
      BY <1>4, <2>1, FS_Subset, FS_CardinalityType
    <2> HIDE DEF S
    <2> QED BY <2>1, <2>2, <1>1, <1>2, <1>4 DEF TearsCounted
  <1> QED BY <1>3, <1>4

\* A line is appended, or the disk keeps a part of the file.
LEMMA TearsStep ==
  ASSUME IInv, TypeOK', TearsCounted, [Next]_vars
  PROVE  TearsCounted'
  <1> DEFINE n == Len(file)
  <1>1. n \in Nat /\ file \in Seq(Lines) /\ file' \in Seq(Lines) /\ stable \in 0 .. n
    BY LinesTyped DEF IInv, TypeOK
  <1>2. CASE UNCHANGED <<file, tears>>
    BY <1>2 DEF TearsCounted
  <1>3. ASSUME NEW t \in AllThreads, WriteLine(t)
        PROVE  TearsCounted'
    <2>1. PICK whole \in BOOLEAN :
            /\ file' = Append(file, [event |-> Smallest(todo), whole |-> whole])
            /\ IF whole THEN UNCHANGED tears ELSE tears < MaxTears /\ tears' = tears + 1
      BY <1>3 DEF WriteLine
    <2> DEFINE line == [event |-> Smallest(todo), whole |-> whole]
    <2>2. line.whole = whole /\ file' = Append(file, line)
      BY <2>1
    <2> HIDE DEF line
    <2>3. Len(file') = n + 1 /\ (\A p \in 1 .. n : file'[p] = file[p]) /\ file'[n + 1] = line
      <3> DEFINE S == Lines \cup {line}
      <3>1. file \in Seq(S) /\ line \in S
        BY <1>1, SeqMonotonic
      <3> HIDE DEF S
      <3> QED BY <3>1, <2>2, AppendProperties
    <2>4. whole => Broken(file') \subseteq Broken(file)
      <3>1. ASSUME line.whole PROVE Broken(file') \subseteq Broken(file)
        BY <3>1, <2>3, <1>1 DEF Broken
      <3> QED BY <2>2, <3>1, Zenon
    <2>5. Broken(file') \subseteq Broken(file) \cup {n + 1}
      BY <2>3, <1>1 DEF Broken
    <2> QED BY <2>1, <2>4, <2>5, <1>1, OneMoreBroken DEF IInv
  <1>4. CASE PowerLoss
    <2>1. PICK kept \in stable .. n :
            \/ file' = SubSeq(file, 1, kept) /\ UNCHANGED tears
            \/ /\ tears' = tears + 1
               /\ file' = [SubSeq(file, 1, kept) EXCEPT ![kept].whole = FALSE]
      BY <1>4 DEF PowerLoss
    <2> DEFINE part == SubSeq(file, 1, kept)
    <2>2. /\ kept \in 0 .. n /\ Len(part) = kept
          /\ part \in Seq(Lines) /\ \A p \in 1 .. kept : part[p] = file[p]
      BY <1>1
    <2>3. Broken(part) \subseteq Broken(file)
      BY <2>2, <1>1 DEF Broken
    <2> HIDE DEF part
    <2>4. CASE file' = part /\ UNCHANGED tears
      BY <2>3, <2>4, <1>1, OneMoreBroken DEF IInv
    <2>5. CASE tears' = tears + 1 /\ file' = [part EXCEPT ![kept].whole = FALSE]
      <3>1. Len(file') = kept /\ \A p \in 1 .. kept : p # kept => file'[p] = part[p]
        BY <2>2, <2>5
      <3>2. Broken(file') \subseteq Broken(part) \cup {kept}
        BY <2>2, <3>1 DEF Broken
      <3> QED BY <2>3, <2>5, <3>2, <1>1, OneMoreBroken DEF IInv
    <2> QED BY <2>1, <2>4, <2>5 DEF part
  <1>5. ASSUME NEW t \in AllThreads,
               CommitEvent(t) \/ FlushOnly(t) \/ Select(t) \/ OpenFile(t) \/ Sync(t)
               \/ MarkFlushed(t) \/ FlushRaises(t)
        PROVE  UNCHANGED <<file, tears>>
    BY <1>5 DEF CommitEvent, FlushOnly, Select, OpenFile, Sync, MarkFlushed, FlushRaises,
       disk, bounds
  <1>6. CASE ProcessDies \/ Start \/ UNCHANGED vars
    BY <1>6, <1>2 DEF ProcessDies, Start, vars, disk, bounds
  <1> QED BY <1>2, <1>3, <1>4, <1>5, <1>6 DEF Next, Flush

\* The values that a function takes on a finite set are not more than its
\* elements.
LEMMA ImageIsSmaller ==
  ASSUME NEW S, IsFiniteSet(S), NEW f, f \in [S -> Nat]
  PROVE  LET T == {f[x] : x \in S} IN IsFiniteSet(T) /\ Cardinality(T) <= Cardinality(S)
  <1> DEFINE T == {f[x] : x \in S}
  <1>1. f \in Surjection(S, T)
    BY DEF Surjection
  <1> HIDE DEF T
  <1>2. IsFiniteSet(T) /\ Cardinality(T) <= Cardinality(S)
    BY <1>1, FS_Surjection
  <1> QED BY <1>2 DEF T

\* An acknowledged event that no reader finds has its line, or the one before
\* that, among the broken ones.
LEMMA DamageIsByTears ==
  ASSUME TypeOK, FlushedIsDurable, TearsCounted
  PROVE  DamageIsBounded
  <1> DEFINE n    == Len(file)
             B    == Broken(file)
             lost == {i \in flushed : \A p \in 1 .. n : file[p].event = i => ~Readable(p)}
             own  == [p \in B |-> file[p].event]
             next == [p \in B |-> IF p < n THEN file[p + 1].event ELSE 0]
             O    == {own[p] : p \in B}
             N    == {next[p] : p \in B}
  <1>1. /\ n \in Nat /\ stable \in Nat /\ stable <= n
        /\ \A p \in 1 .. n : file[p].event \in Nat /\ file[p].whole \in BOOLEAN
    BY LinesTyped DEF Lines
  <1>2. IsFiniteSet(B) /\ Cardinality(B) \in Nat /\ B \subseteq 1 .. n
    BY BrokenIsFinite DEF TypeOK, Broken
  <1>3. own \in [B -> Nat] /\ next \in [B -> Nat]
    BY <1>1, <1>2
  <1>4. lost \subseteq O \cup N
    <2> SUFFICES ASSUME NEW i \in lost PROVE i \in O \cup N
      OBVIOUS
    <2>1. PICK p \in 1 .. stable : file[p].event = i
      BY DEF FlushedIsDurable
    <2>2. p \in 1 .. n /\ ~Readable(p)
      BY <1>1, <2>1
    <2>3. CASE ~file[p].whole
      <3>1. p \in B /\ own[p] = i
        BY <2>1, <2>2, <2>3 DEF Broken
      <3> QED BY <3>1
    <2>4. CASE p > 1 /\ ~file[p - 1].whole
      <3>1. p - 1 \in B /\ next[p - 1] = i
        BY <1>1, <2>1, <2>2, <2>4 DEF Broken
      <3> QED BY <3>1
    <2> QED BY <2>2, <2>3, <2>4 DEF Readable
  <1> HIDE DEF own, next
  <1>5. IsFiniteSet(O) /\ Cardinality(O) <= Cardinality(B)
    BY <1>2, <1>3, ImageIsSmaller
  <1>6. IsFiniteSet(N) /\ Cardinality(N) <= Cardinality(B)
    BY <1>2, <1>3, ImageIsSmaller
  <1> HIDE DEF O, N, lost, B
  <1>7. /\ IsFiniteSet(O \cup N) /\ Cardinality(O \cup N) <= Cardinality(O) + Cardinality(N)
        /\ Cardinality(O \cup N) \in Nat /\ Cardinality(O) \in Nat /\ Cardinality(N) \in Nat
    <2>1. /\ IsFiniteSet(O \cup N)
          /\ Cardinality(O \cup N) = Cardinality(O) + Cardinality(N) - Cardinality(O \cap N)
      BY <1>5, <1>6, FS_Union
    <2>2. IsFiniteSet(O \cap N)
      BY <1>5, FS_Intersection
    <2>3. /\ Cardinality(O \cap N) \in Nat /\ Cardinality(O \cup N) \in Nat
          /\ Cardinality(O) \in Nat /\ Cardinality(N) \in Nat
      BY <1>5, <1>6, <2>1, <2>2, FS_CardinalityType
    <2> QED BY <2>1, <2>3
  <1>8. IsFiniteSet(lost) /\ Cardinality(lost) <= Cardinality(O \cup N)
    BY <1>4, <1>7, FS_Subset
  <1>9. Cardinality(lost) \in Nat
    BY <1>8, FS_CardinalityType
  <1>10. Cardinality(B) <= tears /\ tears \in Nat
    BY LimitsAssumption DEF TearsCounted, TypeOK, B
  <1>11. Cardinality(lost) <= 2 * tears
    BY <1>2, <1>5, <1>6, <1>7, <1>8, <1>9, <1>10
  <1> QED BY <1>11 DEF DamageIsBounded, lost

-----------------------------------------------------------------------------
(* The theorems.                                                           *)

LEMMA Inductive == Spec => []IInv
  <1>1. Init => IInv
    BY InitIInv
  <1>2. IInv /\ [Next]_vars => IInv'
    BY NextKeeps
  <1> QED BY <1>1, <1>2, PTL DEF Spec

\* The rows, the file and the threads keep their types, and one thread at most
\* holds the lock of the store.
THEOREM OutboxTypeCorrect == Spec => []TypeOK
  <1>1. IInv => TypeOK
    BY DEF IInv
  <1> QED BY <1>1, Inductive, PTL

\* An acknowledged event has a line in the part of the file that survives a
\* power loss (_flush_audit: fsync before the closing transaction).
THEOREM FlushedIsDurableHolds == Spec => []FlushedIsDurable
  <1>1. IInv => FlushedIsDurable
    BY DEF IInv
  <1> QED BY <1>1, Inductive, PTL

\* The file has every event after its predecessors, without crashes once, and
\* what is acknowledged is a prefix of the events.
THEOREM FileInOrderHolds == Spec => []FileInOrder
  <1>1. IInv => FileInOrder
    <2> SUFFICES ASSUME IInv PROVE FlushedIsPrefix
      BY DEF IInv, FileInOrder
    <2>1. PICK m \in Nat : flushed = 1 .. m
      BY DEF IInv, Prefix
    <2>2. Cardinality(1 .. m) = IF 1 > m THEN 0 ELSE m - 1 + 1
      BY FS_Interval
    <2>3. Cardinality(flushed) = m
      BY <2>1, <2>2
    <2> QED BY <2>1, <2>3 DEF FlushedIsPrefix
  <1> QED BY <1>1, Inductive, PTL

\* Each line cut short, by os.write or by a power loss, costs at most two
\* acknowledged events (_flush_audit does not look at what os.write wrote).
THEOREM DamageIsBoundedHolds == Spec => []DamageIsBounded
  <1>1. Init => IInv /\ TearsCounted
    <2> SUFFICES ASSUME Init PROVE IInv /\ TearsCounted
      OBVIOUS
    <2>1. Broken(file) = {} /\ tears = 0
      BY DEF Init, Broken
    <2>2. Cardinality({}) = 0
      BY FS_EmptySet
    <2> QED BY <2>1, <2>2, InitIInv DEF TearsCounted
  <1>2. IInv /\ TearsCounted /\ [Next]_vars => (IInv /\ TearsCounted)'
    <2> SUFFICES ASSUME IInv, TearsCounted, [Next]_vars PROVE (IInv /\ TearsCounted)'
      OBVIOUS
    <2>1. IInv'
      BY NextKeeps
    <2>2. TypeOK'
      BY <2>1 DEF IInv
    <2> QED BY <2>1, <2>2, TearsStep
  <1>3. IInv /\ TearsCounted => DamageIsBounded
    BY DamageIsByTears DEF IInv
  <1> QED BY <1>1, <1>2, <1>3, PTL DEF Spec

=============================================================================
