------------------------------ MODULE OpsRelay ------------------------------
(***************************************************************************)
(* The external controller of the operations worker                        *)
(* (ops/phishtopia-ops-mcp/controller): a comment starts a workflow run,   *)
(* the run publishes a request and waits for its response, the relay on    *)
(* the machine pulls the request, asks the worker over its socket,         *)
(* publishes the response and only then acknowledges the request.          *)
(*                                                                         *)
(* Pub/Sub delivers a message until it is acknowledged, in no order.  The  *)
(* worker is the abstract job of OpsJobSpec behind JobStore's idempotency  *)
(* key; that a cancelled job does not succeed is OpsWorker's invariant     *)
(* CancelExcludesSuccess.                                                  *)
(*                                                                         *)
(* Abstracted: message contents beyond the request id and whether the job  *)
(* reported was still open, the validation of envelopes (every request is  *)
(* published by the controller), tokens, retention of messages, and audit  *)
(* flushes that fail after a success (see OpsWorker).                      *)
(***************************************************************************)
EXTENDS Naturals

CONSTANTS
  Comments,     \* comments on the queue issue; a comment is its request id
  JobIds,       \* jobs the worker may create
  None,         \* no comment, no job
  MaxFaults,    \* bound: lost replies, failed calls, relay deaths and re-runs
  MaxReruns     \* bound: how many of these are re-runs

ASSUME NoneAssumption == None \notin Comments /\ None \notin JobIds
ASSUME BoundsAssumption == MaxFaults \in Nat /\ MaxReruns \in Nat

VARIABLES
  op, about,        \* what each comment asks, and of which job
  run, report,      \* its workflow run, and what the run reported
  requests,         \* unacknowledged copies of each request
  responses,        \* unacknowledged copies of each response
  relay, held, answer,          \* the relay process
  phase, effect, origin, cancelAsked,   \* the worker's jobs
  sent, answered,   \* history: requests published, requests responded to
  reruns, faults

runVars   == <<op, about, run, report, sent, reruns>>
relayVars == <<relay, held, answer>>
jobVars   == <<phase, effect, origin, cancelAsked>>
vars == <<runVars, requests, responses, relayVars, jobVars, answered, faults>>

Jobs == INSTANCE OpsJobSpec WITH Keys <- JobIds

\* What a response says: the job was open or closed when the worker answered;
\* the worker refused (any {"ok": false}); the worker could not be reached.
Views    == {"open", "closed"}
Outcomes == Views \cup {"invalid_worker_response", "worker_unavailable"}
Ended    == {"reported", "failed", "superseded"}

IsOpen(j) == phase[j] \in Jobs!Open

\* The job a comment is about: the one it names, or the one it created.
CreatedBy(c) == {j \in JobIds : origin[j] = c}
Subject(c) == IF op[c] = "start" THEN CreatedBy(c) ELSE {about[c]}

Init ==
  /\ op = [c \in Comments |-> "none"]
  /\ about = [c \in Comments |-> None]
  /\ run = [c \in Comments |-> "none"]
  /\ report = [c \in Comments |-> "none"]
  /\ requests = [c \in Comments |-> 0]
  /\ responses = [m \in Comments \X Outcomes |-> 0]
  /\ relay = "idle"
  /\ held = None
  /\ answer = "none"
  /\ Jobs!Init
  /\ origin = [j \in JobIds |-> None]
  /\ cancelAsked = {}
  /\ sent = {}
  /\ answered = {}
  /\ reruns = 0
  /\ faults = 0

Fault == faults + reruns < MaxFaults /\ faults' = faults + 1
NoFault == UNCHANGED faults

-----------------------------------------------------------------------------
(* The workflow *)

\* One pending run per concurrency group: an older pending run is cancelled.
Queued(c) ==
  [d \in Comments |-> CASE d = c -> "pending"
                        [] d # c /\ run[d] = "pending" -> "superseded"
                        [] OTHER -> run[d]]

\* The id of a job is known only from an earlier report.
KnownJobs ==
  {j \in JobIds : \E c \in Comments : report[c] \in Views /\ j \in CreatedBy(c)}

Comment(c) ==
  /\ op[c] = "none"
  /\ \/ /\ op' = [op EXCEPT ![c] = "start"]
        /\ UNCHANGED about
     \/ \E o \in {"get_job_status", "cancel_job"}, j \in KnownJobs :
          /\ op' = [op EXCEPT ![c] = o]
          /\ about' = [about EXCEPT ![c] = j]
  /\ run' = Queued(c)
  /\ UNCHANGED <<report, sent, reruns, requests, responses, relayVars, jobVars,
                 answered, faults>>

\* The owner re-runs a workflow: the same comment, hence the same request id.
Rerun(c) ==
  /\ run[c] \in Ended
  /\ reruns < MaxReruns /\ faults + reruns < MaxFaults
  /\ reruns' = reruns + 1
  /\ run' = Queued(c)
  /\ UNCHANGED <<op, about, report, sent, requests, responses, relayVars,
                 jobVars, answered, faults>>

GroupFree == \A c \in Comments : run[c] \notin {"publishing", "waiting"}

BeginRun(c) ==
  /\ run[c] = "pending"
  /\ GroupFree
  /\ run' = [run EXCEPT ![c] = "publishing"]
  /\ UNCHANGED <<op, about, report, sent, reruns, requests, responses,
                 relayVars, jobVars, answered, faults>>

\* github_transport: publish, which may fail before or after it took effect.
PublishRequest(c) ==
  /\ run[c] = "publishing"
  /\ \/ /\ requests' = [requests EXCEPT ![c] = @ + 1]
        /\ sent' = sent \cup {c}
        /\ \/ NoFault /\ run' = [run EXCEPT ![c] = "waiting"]
           \/ Fault /\ run' = [run EXCEPT ![c] = "failed"]
     \/ /\ Fault
        /\ run' = [run EXCEPT ![c] = "failed"]
        /\ UNCHANGED <<requests, sent>>
  /\ UNCHANGED <<op, about, report, reruns, responses, relayVars, jobVars,
                 answered>>

\* Mutant of IsReply: the id of a response is not looked at.
AnyReply(c, m) == TRUE

IsReply(c, m) == m[1] = c

\* wait_for_response: a response is acknowledged, then kept or dropped.
PullResponse(c) ==
  /\ run[c] = "waiting"
  /\ \E m \in DOMAIN responses :
       /\ responses[m] > 0
       /\ \/ /\ NoFault
             /\ responses' = [responses EXCEPT ![m] = @ - 1]
             /\ IF IsReply(c, m)
                  THEN /\ report' = [report EXCEPT ![c] = m[2]]
                       /\ run' = [run EXCEPT ![c] = "reported"]
                  ELSE UNCHANGED <<report, run>>
          \/ /\ Fault                          \* the acknowledgement failed
             /\ run' = [run EXCEPT ![c] = "failed"]
             /\ UNCHANGED <<responses, report>>
  /\ UNCHANGED <<op, about, sent, reruns, requests, relayVars, jobVars, answered>>

\* Mutant of GiveUp: the wait has no deadline.
WaitOn(c) == FALSE

\* response_timeout
GiveUp(c) ==
  /\ run[c] = "waiting"
  /\ run' = [run EXCEPT ![c] = "failed"]
  /\ UNCHANGED <<op, about, report, sent, reruns, requests, responses,
                 relayVars, jobVars, answered, faults>>

-----------------------------------------------------------------------------
(* The relay and the worker behind its socket *)

RelayTo(place, c, a) == relay' = place /\ held' = c /\ answer' = a

Pull(c) ==
  /\ relay = "idle"
  /\ requests[c] > 0
  /\ RelayTo("pulled", c, "none")
  /\ UNCHANGED <<runVars, requests, responses, jobVars, answered, faults>>

\* An empty subscription: the relay sleeps and asks again.
PullNothing ==
  /\ relay = "idle"
  /\ \A c \in Comments : requests[c] = 0
  /\ UNCHANGED vars

\* Mutant of Existing: a key is never found again.
Forgotten(c) == {}

Existing(c) == CreatedBy(c)

\* JobStore.start: the job of this key, or a new one if no job is open.
Start(c) ==
  \/ Existing(c) # {} /\ UNCHANGED jobVars
  \/ /\ Existing(c) = {}
     /\ \E j \in JobIds :
          /\ Jobs!Accept(j)
          /\ origin' = [origin EXCEPT ![j] = c]
     /\ UNCHANGED cancelAsked

\* JobStore.cancel: a queued job ends at once, also one queued for recovery;
\* a running one is flagged; a closed one is left alone.
Cancel(j) ==
  \/ ~IsOpen(j) /\ UNCHANGED jobVars
  \/ /\ Jobs!Refuse(j) \/ Jobs!Abandon(j)
     /\ cancelAsked' = cancelAsked \cup {j}
     /\ UNCHANGED origin
  \/ /\ IsOpen(j) /\ phase[j] # "waiting"
     /\ cancelAsked' = cancelAsked \cup {j}
     /\ UNCHANGED <<phase, effect, origin>>

Handle(c) ==
  \/ op[c] = "start" /\ Start(c)
  \/ op[c] = "get_job_status" /\ UNCHANGED jobVars
  \/ op[c] = "cancel_job" /\ Cancel(about[c])

\* What the worker answers, of the job as it is after the request.
Reply(c) == IF \E j \in Subject(c) : IsOpen(j) THEN "open" ELSE "closed"

\* exchange_worker: the worker acts and answers.
Exchange ==
  /\ relay = "pulled"
  /\ NoFault
  /\ UNCHANGED <<runVars, requests, responses, answered>>
  /\ Handle(held)
  /\ RelayTo("answered", held, Reply(held)')

\* The worker acts, but its answer is lost, or its audit flush raised.
ExchangeLost ==
  /\ relay = "pulled"
  /\ Handle(held)
  /\ \E a \in Outcomes \ Views : RelayTo("answered", held, a)
  /\ Fault
  /\ UNCHANGED <<runVars, requests, responses, answered>>

\* resource_busy, a full table, the start rate limit: nothing was done.  Or
\* the worker is down.
ExchangeRefused ==
  /\ relay = "pulled"
  /\ \/ /\ op[held] = "start"
        /\ RelayTo("answered", held, "invalid_worker_response")
        /\ NoFault
     \/ RelayTo("answered", held, "worker_unavailable") /\ Fault
  /\ UNCHANGED <<runVars, requests, responses, jobVars, answered>>

PublishResponse ==
  /\ relay = "answered"
  /\ responses' = [responses EXCEPT ![<<held, answer>>] = @ + 1]
  /\ answered' = answered \cup {held}
  /\ \/ NoFault /\ RelayTo("published", held, "none")
     \/ Fault /\ RelayTo("idle", None, "none")     \* published, but it raised
  /\ UNCHANGED <<runVars, requests, jobVars>>

\* Mutant of PublishFails: the request is acknowledged all the same.
FailsAndAcks ==
  /\ relay = "answered"
  /\ Fault
  /\ requests' = [requests EXCEPT ![held] = @ - 1]
  /\ RelayTo("idle", None, "none")
  /\ UNCHANGED <<runVars, responses, jobVars, answered>>

\* publish raises: run_once is left before its ack.
PublishFails ==
  /\ relay = "answered"
  /\ Fault
  /\ RelayTo("idle", None, "none")
  /\ UNCHANGED <<runVars, requests, responses, jobVars, answered>>

Ack ==
  /\ relay = "published"
  /\ \/ NoFault /\ requests' = [requests EXCEPT ![held] = @ - 1]
     \/ Fault /\ UNCHANGED requests
  /\ RelayTo("idle", None, "none")
  /\ UNCHANGED <<runVars, responses, jobVars, answered>>

RelayDies ==
  /\ held # None
  /\ Fault
  /\ RelayTo("idle", None, "none")
  /\ UNCHANGED <<runVars, requests, responses, jobVars, answered>>

\* systemd gives the unit up: the relay does not come back.
RelayStops ==
  /\ relay # "stopped"
  /\ Fault
  /\ RelayTo("stopped", None, "none")
  /\ UNCHANGED <<runVars, requests, responses, jobVars, answered>>

\* Mutant of MayCommit: the flag is not looked at.
CommitAnyway(j) == TRUE

\* JobStore.succeed: no success once a cancellation was accepted.
MayCommit(j) == j \notin cancelAsked

\* The worker proceeds with a job.
WorkerStep ==
  /\ \E j \in JobIds :
       \/ Jobs!Refuse(j) \/ Jobs!Begin(j) \/ Jobs!Work(j) \/ Jobs!HandOff(j)
       \/ MayCommit(j) /\ Jobs!Commit(j)
       \/ Jobs!Interrupt(j) \/ Jobs!Undo(j) \/ Jobs!Settle(j)
       \/ Jobs!Escalate(j) \/ Jobs!Abandon(j)
  /\ UNCHANGED <<runVars, requests, responses, relayVars, origin, cancelAsked,
                 answered, faults>>

-----------------------------------------------------------------------------
Run(c) == BeginRun(c) \/ PublishRequest(c) \/ PullResponse(c) \/ GiveUp(c)

Relay ==
  \/ \E c \in Comments : Pull(c)
  \/ Exchange \/ ExchangeLost \/ ExchangeRefused
  \/ PublishResponse \/ PublishFails \/ Ack

Next ==
  \/ \E c \in Comments : Comment(c) \/ Rerun(c) \/ Run(c)
  \/ Relay \/ PullNothing \/ RelayDies \/ RelayStops \/ WorkerStep

Spec == Init /\ [][Next]_vars

\* The run whose turn it is makes progress, since every step has a timeout; the
\* relay loops for ever and is restarted when it dies, unless it is given up; a
\* subscription that holds requests delivers one of them.
FairSpec ==
  /\ Spec
  /\ WF_vars(\E c \in Comments : Run(c))
  /\ WF_vars(Relay)

-----------------------------------------------------------------------------
(* Properties *)

\* Types; the relay holds a request exactly while it is busy with one.
TypeOK ==
  /\ op \in [Comments -> {"none", "start", "get_job_status", "cancel_job"}]
  /\ about \in [Comments -> JobIds \cup {None}]
  /\ run \in [Comments -> Ended \cup {"none", "pending", "publishing", "waiting"}]
  /\ report \in [Comments -> Outcomes \cup {"none"}]
  /\ requests \in [Comments -> Nat]
  /\ responses \in [Comments \X Outcomes -> Nat]
  /\ relay \in {"idle", "pulled", "answered", "published", "stopped"}
  /\ held \in Comments \cup {None}
  /\ (held = None) <=> (relay \in {"idle", "stopped"})
  /\ answer \in Outcomes \cup {"none"}
  /\ phase \in [JobIds -> Jobs!Phases]
  /\ effect \in [JobIds -> Jobs!Effects]
  /\ origin \in [JobIds -> Comments \cup {None}]
  /\ cancelAsked \subseteq JobIds
  /\ sent \subseteq Comments /\ answered \subseteq sent
  /\ reruns \in Nat /\ faults \in Nat /\ faults + reruns <= MaxFaults

\* docs/external-controller.md: "The idempotency key is derived from the
\* immutable issue comment ID, so redelivery resolves to the same durable
\* job": however often a request is delivered, published again or re-run, a
\* comment has at most one job, also when that job has long ended.
OneJobPerComment == \A i, j \in JobIds :
  origin[i] # None /\ origin[i] = origin[j] => i = j

\* A request leaves the subscription only when a response to it has been
\* published (run_once: publish, then ack), whatever call failed.
NoRequestDropped == \A c \in sent : requests[c] = 0 => c \in answered

\* A run reports a job only if the worker has acted on this very comment.
ReportIsOwn == \A c \in Comments : report[c] \in Views =>
  /\ Subject(c) # {}
  /\ op[c] = "cancel_job" => about[c] \in cancelAsked \/ ~IsOpen(about[c])

\* When the owner is told that a job he cancelled is still open, it will not
\* succeed, neither then nor later.
CancelIsKept == \A c \in Comments :
  op[c] = "cancel_job" /\ report[c] = "open" => phase[about[c]] # "succeeded"

\* Reports on one job never go back from closed to open, although responses
\* are delivered in any order and late ones stay in the subscription.  Without
\* re-runs: a re-run uses its request id a second time, and so may take a
\* response meant for the attempt before.
ReportsGoForward ==
  [][reruns' = 0 => \A c, d \in Comments :
       report[c] # "open" /\ report'[c] = "open" /\ Subject(c)' = Subject(d)'
         => report[d] # "closed"]_vars

\* Every request that reached Pub/Sub is answered in the end, through failed
\* calls and deaths of the relay, unless the relay is given up.  (What has been
\* sent and answered only grows, and the comments are finitely many: that all
\* are answered again and again says of each that it is answered in the end.)
RequestsAreAnswered == []<>(sent \subseteq answered \/ relay = "stopped")

\* Every run ends, so that the next comment of the group is served, also when
\* nothing on the machine answers any more: again and again no run is open.
RunsEnd == []<>(\A c \in Comments : run[c] \in Ended \cup {"none"})

\* The two ends of a command: neither the relay nor the workflow leaves one
\* without an end.
RequestsAreServed == RequestsAreAnswered /\ RunsEnd

\* github_transport.py, the report of an error: "was rejected with".
RejectedIsNotStarted == \A c \in Comments :
  op[c] = "start" /\ report[c] \in Outcomes \ Views => CreatedBy(c) = {}

=============================================================================
