----------------------------- MODULE AuditOutbox -----------------------------
(***************************************************************************)
(* The audit outbox of the job store (worker/store.py: _queue_audit and    *)
(* _flush_audit).  Every state change of a job inserts an audit event in   *)
(* the transaction that makes the change; after the commit the same thread *)
(* takes the store's lock, reads the events not yet flushed, appends them  *)
(* to audit.jsonl, syncs the file and only then marks them.  A dozen       *)
(* handler threads and the executor thread do this at once, and the        *)
(* process can die between any two steps.                                  *)
(*                                                                         *)
(* Events are their AUTOINCREMENT ids.  A line of the file is the event it *)
(* carries and whether its newline got there: os.write may write less than *)
(* it was given and its result is not looked at.                           *)
(***************************************************************************)
EXTENDS Naturals, FiniteSets, Sequences

CONSTANTS
  Threads,      \* the executor thread and the socket handler threads
  Main,         \* the thread that starts the process
  BatchLimit,   \* LIMIT of the selection (1000 in the code)
  MaxEvents,    \* bound: events committed
  MaxCrashes,   \* bound: process deaths and power losses
  MaxFaults,    \* bound: flushes that raise
  MaxTears      \* bound: lines cut short, by os.write or a power loss

ASSUME ThreadsAssumption == Main \notin Threads
ASSUME LimitsAssumption ==
  /\ BatchLimit \in Nat \ {0}
  /\ MaxEvents \in Nat
  /\ MaxCrashes \in Nat
  /\ MaxFaults \in Nat
  /\ MaxTears \in Nat

VARIABLES
  events,    \* number of rows of audit_events; their ids are 1 .. events
  flushed,   \* ids of the rows marked flushed
  file,      \* audit.jsonl
  stable,    \* length of the part of file that fsync has made durable
  alive,     \* the process serves requests, or Main is starting it
  at,        \* where each thread stands
  todo,      \* rows of the lock holder's batch not yet written
  batch,     \* rows of the lock holder's batch
  crashes, faults, tears

durable == <<events, flushed>>
disk    == <<file, stable>>
bounds  == <<crashes, faults, tears>>
vars    == <<durable, disk, alive, at, todo, batch, bounds>>

AllThreads == Threads \cup {Main}
Holding == {"open", "write", "sync", "mark"}
Places  == {"idle", "owesFlush", "dead"} \cup Holding
Lines   == [event: Nat \ {0}, whole: BOOLEAN]

Pending == {i \in 1 .. events : i \notin flushed}

\* ORDER BY event_id LIMIT BatchLimit
Selection == {i \in Pending : Cardinality({j \in Pending : j < i}) < BatchLimit}

\* Mutant of LockFree: _flush_audit without the lock.
NoLock == TRUE

LockFree == \A t \in AllThreads : at[t] \notin Holding

Smallest(S) == CHOOSE i \in S : \A j \in S : i <= j

Init ==
  /\ events = 0
  /\ flushed = {}
  /\ file = <<>>
  /\ stable = 0
  /\ alive = TRUE
  /\ at = [t \in AllThreads |-> "idle"]
  /\ todo = {}
  /\ batch = {}
  /\ crashes = 0
  /\ faults = 0
  /\ tears = 0

-----------------------------------------------------------------------------
Goto(t, place) == at' = [at EXCEPT ![t] = place]

\* start, next_job, cancel, transition or succeed: a transaction under the
\* lock that changes a row and inserts its event.
CommitEvent(t) ==
  /\ t # Main
  /\ alive
  /\ at[Main] = "idle"
  /\ at[t] = "idle"
  /\ LockFree
  /\ events < MaxEvents
  /\ events' = events + 1
  /\ Goto(t, "owesFlush")
  /\ UNCHANGED <<flushed, disk, alive, todo, batch, bounds>>

\* cancel of a job that is not queued or running commits nothing and flushes.
FlushOnly(t) ==
  /\ t # Main
  /\ alive
  /\ at[Main] = "idle"
  /\ at[t] = "idle"
  /\ LockFree
  /\ Goto(t, "owesFlush")
  /\ UNCHANGED <<durable, disk, alive, todo, batch, bounds>>

\* _flush_audit takes the lock and reads the batch; an empty one ends it.
Select(t) ==
  /\ at[t] = "owesFlush"
  /\ LockFree
  /\ batch' = Selection
  /\ todo' = Selection
  /\ Goto(t, IF Selection = {} THEN "idle" ELSE "open")
  /\ UNCHANGED <<durable, disk, alive, bounds>>

OpenFile(t) ==
  /\ at[t] = "open"
  /\ Goto(t, "write")
  /\ UNCHANGED <<durable, disk, alive, todo, batch, bounds>>

WriteLine(t) ==
  /\ at[t] = "write"
  /\ todo # {}
  /\ \E whole \in BOOLEAN :
       /\ file' = Append(file, [event |-> Smallest(todo), whole |-> whole])
       /\ IF whole THEN UNCHANGED tears
                   ELSE tears < MaxTears /\ tears' = tears + 1
  /\ todo' = todo \ {Smallest(todo)}
  /\ UNCHANGED <<durable, stable, alive, at, batch, crashes, faults>>

\* Mutant of SyncedLength: acknowledged without fsync.
NotSynced == stable

SyncedLength == Len(file)

Sync(t) ==
  /\ at[t] = "write"
  /\ todo = {}
  /\ stable' = SyncedLength
  /\ Goto(t, "mark")
  /\ UNCHANGED <<durable, file, alive, todo, batch, bounds>>

\* Mutant of Acknowledged: every pending row.
AllRows == 1 .. events

Acknowledged == flushed \cup batch

\* The closing transaction; the lock is released.
MarkFlushed(t) ==
  /\ at[t] = "mark"
  /\ flushed' = Acknowledged
  /\ Goto(t, "idle")
  /\ UNCHANGED <<events, disk, alive, todo, batch, bounds>>

\* An unsafe or full target, a write or fsync error, or a busy database: the
\* exception releases the lock.  Raised while starting, it ends the process.
FlushRaises(t) ==
  /\ at[t] \in Holding
  /\ faults < MaxFaults
  /\ faults' = faults + 1
  /\ IF t = Main
       THEN alive' = FALSE /\ at' = [u \in AllThreads |-> "dead"]
       ELSE Goto(t, "idle") /\ UNCHANGED alive
  /\ UNCHANGED <<durable, disk, todo, batch, crashes, tears>>

-----------------------------------------------------------------------------
Dies ==
  /\ alive
  /\ crashes < MaxCrashes
  /\ crashes' = crashes + 1
  /\ alive' = FALSE
  /\ at' = [t \in AllThreads |-> "dead"]

\* The process dies, the file stays as written.
ProcessDies ==
  /\ Dies
  /\ UNCHANGED <<durable, disk, todo, batch, faults, tears>>

\* The machine dies: of the lines not synced a part is kept, and the last one
\* kept may have lost its end.
PowerLoss ==
  /\ Dies
  /\ \E kept \in stable .. Len(file) :
       /\ stable' = kept
       /\ \/ /\ file' = SubSeq(file, 1, kept)
             /\ UNCHANGED tears
          \/ /\ kept > stable
             /\ tears < MaxTears
             /\ tears' = tears + 1
             /\ file' = [SubSeq(file, 1, kept) EXCEPT ![kept].whole = FALSE]
  /\ UNCHANGED <<durable, todo, batch, faults>>

\* Mutant of PlaceAtStart: the start does not flush what the crash left.
IdleAtStart(t) == "idle"

PlaceAtStart(t) == IF t = Main THEN "owesFlush" ELSE "idle"

\* JobStore._initialize: an interrupted job is queued again with its
\* "recovered" event, and Main flushes before any other thread starts.
Start ==
  /\ ~alive
  /\ alive' = TRUE
  /\ at' = [t \in AllThreads |-> PlaceAtStart(t)]
  /\ \/ UNCHANGED events
     \/ events < MaxEvents /\ events' = events + 1
  /\ UNCHANGED <<flushed, disk, todo, batch, bounds>>

-----------------------------------------------------------------------------
Flush(t) == Select(t) \/ OpenFile(t) \/ WriteLine(t) \/ Sync(t) \/ MarkFlushed(t)

Next ==
  \/ \E t \in AllThreads :
       CommitEvent(t) \/ FlushOnly(t) \/ Flush(t) \/ FlushRaises(t)
  \/ ProcessDies \/ PowerLoss \/ Start

Spec == Init /\ [][Next]_vars

\* Locks are handed to every waiter in the end; systemd starts a dead process.
FairSpec ==
  /\ Spec
  /\ \A t \in AllThreads : SF_vars(Select(t)) /\ WF_vars(Flush(t))
  /\ WF_vars(Start)

-----------------------------------------------------------------------------
(* Properties *)

\* Types of the rows, the file and the threads; one thread holds the lock.
TypeOK ==
  /\ events \in 0 .. MaxEvents
  /\ flushed \in SUBSET (1 .. events)
  /\ file \in Seq(Lines)
  /\ stable \in 0 .. Len(file)
  /\ alive \in BOOLEAN
  /\ at \in [AllThreads -> Places]
  /\ todo \in SUBSET batch
  /\ batch \in SUBSET (1 .. events)
  /\ crashes \in 0 .. MaxCrashes
  /\ faults \in 0 .. MaxFaults
  /\ tears \in 0 .. MaxTears
  /\ \A t, u \in AllThreads : at[t] \in Holding /\ at[u] \in Holding => t = u

\* A row marked flushed has a line in the part of the file that survives a
\* power loss: fsync comes before the acknowledgement, whatever fails between.
FlushedIsDurable ==
  \A i \in flushed : \E p \in 1 .. stable : file[p].event = i

Readable(p) == file[p].whole /\ (p > 1 => file[p - 1].whole)

\* An unfinished line swallows the one appended after it, and nothing repairs
\* either once they are marked: each line cut short costs at most two events.
DamageIsBounded ==
  Cardinality({i \in flushed : \A p \in 1 .. Len(file) :
                 file[p].event = i => ~Readable(p)}) <= 2 * tears

\* docs/threat-model.md: selection, append, fsync and acknowledgement share
\* one lock, so concurrent threads cannot duplicate or reorder a batch; only a
\* crash or a failed flush repeats lines.
NoDuplicateNoReorder == crashes = 0 /\ faults = 0 =>
  \A p \in 1 .. Len(file) : file[p].event = p

\* Even with crashes and failures the file never skips an event: before the
\* line of an event there is a line for every earlier event.
NoGaps == \A p \in 1 .. Len(file) : \A i \in 1 .. file[p].event :
  \E q \in 1 .. p : file[q].event = i

\* An acknowledged prefix: no row is marked while an earlier one waits.
FlushedIsPrefix == flushed = 1 .. Cardinality(flushed)

\* What a reader of audit.jsonl relies on, and an operator of audit_events:
\* batches neither overtake each other nor leave anything behind.
FileInOrder == NoDuplicateNoReorder /\ NoGaps /\ FlushedIsPrefix

\* Every committed event is marked in the end, unless some flush failed (the
\* thread whose flush raised does not try again) or several deaths left more
\* than the one batch a start flushes: the rest waits for the next event.
EventsReachFile == \A i \in 1 .. MaxEvents :
  events >= i ~> (i \in flushed \/ faults > 0 \/ (crashes > 1 /\ i > BatchLimit))

=============================================================================
