--------------------------- MODULE OpsRelayProofs ---------------------------
(***************************************************************************)
(* Safety of the external controller, for any comments, jobs and bounds.   *)
(***************************************************************************)
EXTENDS OpsRelay, TLAPS

-----------------------------------------------------------------------------
(* The inductive invariant *)

\* A comment that is about a job names one that was created.
Named == \A c \in Comments :
  op[c] \in {"get_job_status", "cancel_job"} =>
    about[c] \in JobIds /\ origin[about[c]] # None

\* A request is published by the run of a comment, and only by it.
Published ==
  /\ \A c \in Comments : op[c] = "none" => run[c] = "none" /\ c \notin sent
  /\ \A c \in Comments : requests[c] > 0 => c \in sent

\* What the relay holds is not acknowledged, and is answered before it is.
Holding ==
  /\ held # None => requests[held] > 0
  /\ relay = "answered" => answer \in Outcomes
  /\ relay = "published" => held \in answered

\* A job of a comment has been accepted; one asked to cancel does not succeed.
JobsOf ==
  /\ \A j \in JobIds : origin[j] # None => phase[j] # "unknown"
  /\ \A j \in cancelAsked : phase[j] # "succeeded"

\* The worker has acted on the request of c.
Acted(c) ==
  /\ c \in sent
  /\ Subject(c) # {}
  /\ op[c] = "cancel_job" => about[c] \in cancelAsked \/ ~IsOpen(about[c])

\* A view of the job of c is on its way to the owner, or has arrived.
Told(c, a) == (held = c /\ answer = a) \/ responses[<<c, a>>] > 0 \/ report[c] = a

\* Whatever is told was so: the worker acted, and flagged what is still open.
Truth == \A c \in Comments, a \in Views : Told(c, a) =>
  /\ Acted(c)
  /\ a = "open" /\ op[c] = "cancel_job" => about[c] \in cancelAsked

IInv ==
  /\ TypeOK /\ OneJobPerComment /\ NoRequestDropped
  /\ Named /\ Published /\ Holding /\ JobsOf /\ Truth

-----------------------------------------------------------------------------
(* What a step of the worker does to the jobs *)

Progress(j) ==
  \/ Jobs!Refuse(j) \/ Jobs!Begin(j) \/ Jobs!Work(j) \/ Jobs!HandOff(j)
  \/ Jobs!Commit(j) \/ Jobs!Interrupt(j) \/ Jobs!Undo(j) \/ Jobs!Settle(j)
  \/ Jobs!Escalate(j) \/ Jobs!Abandon(j)

\* No step but Accept creates a job, none reopens one, and only Commit lets
\* one succeed.
LEMMA ProgressFacts ==
  ASSUME TypeOK, NEW j, Progress(j)
  PROVE  /\ phase' \in [JobIds -> Jobs!Phases]
         /\ effect' \in [JobIds -> Jobs!Effects]
         /\ \A k \in JobIds : phase[k] # "unknown" => phase'[k] # "unknown"
         /\ \A k \in JobIds : phase[k] # "unknown" /\ ~IsOpen(k) => ~IsOpen(k)'
         /\ \A k \in JobIds : phase'[k] = "succeeded" =>
              phase[k] = "succeeded" \/ (k = j /\ Jobs!Commit(j))
  <1> USE DEF TypeOK, IsOpen, Jobs!Open, Jobs!Closed, Jobs!Phases, Jobs!Effects,
        Jobs!Below, Jobs!Move
  <1>1. CASE Jobs!Refuse(j)    BY <1>1 DEF Jobs!Refuse
  <1>2. CASE Jobs!Begin(j)     BY <1>2 DEF Jobs!Begin
  <1>3. CASE Jobs!Work(j)      BY <1>3 DEF Jobs!Work
  <1>4. CASE Jobs!HandOff(j)   BY <1>4 DEF Jobs!HandOff
  <1>5. CASE Jobs!Commit(j)    BY <1>5 DEF Jobs!Commit
  <1>6. CASE Jobs!Interrupt(j) BY <1>6 DEF Jobs!Interrupt
  <1>7. CASE Jobs!Undo(j)      BY <1>7 DEF Jobs!Undo
  <1>8. CASE Jobs!Settle(j)    BY <1>8 DEF Jobs!Settle
  <1>9. CASE Jobs!Escalate(j)  BY <1>9 DEF Jobs!Escalate
  <1>10. CASE Jobs!Abandon(j)  BY <1>10 DEF Jobs!Abandon
  <1> QED BY <1>1, <1>2, <1>3, <1>4, <1>5, <1>6, <1>7, <1>8, <1>9, <1>10
       DEF Progress

\* An accepted job is a new one.
LEMMA AcceptFacts ==
  ASSUME TypeOK, NEW j \in JobIds, Jobs!Accept(j)
  PROVE  /\ phase[j] = "unknown"
         /\ phase' = [phase EXCEPT ![j] = "waiting"]
         /\ effect' = effect
  BY DEF Jobs!Accept, Jobs!Move

-----------------------------------------------------------------------------
(* Preservation, action by action *)

LEMMA InitInv == Init => IInv
  BY NoneAssumption, BoundsAssumption
  DEF Init, IInv, TypeOK, OneJobPerComment, NoRequestDropped, Named, Published,
      Holding, JobsOf, Truth, Told, Acted, Views, Outcomes, Ended, Jobs!Init,
      Jobs!Phases, Jobs!Effects, Jobs!Open, Jobs!Closed


\* A step that leaves the jobs alone leaves what is said of them alone.
LEMMA JobsUnchanged ==
  ASSUME IInv, UNCHANGED jobVars
  PROVE  OneJobPerComment' /\ JobsOf'
  BY DEF IInv, jobVars, OneJobPerComment, JobsOf

\* The jobs as they were, and nothing told that was not told before.
LEMMA TruthKept ==
  ASSUME IInv, UNCHANGED <<op, about, origin, phase, cancelAsked>>,
         sent \subseteq sent',
         \A c \in Comments, a \in Views : Told(c, a)' => Told(c, a)
  PROVE  Truth'
  <1> SUFFICES ASSUME NEW d \in Comments, NEW a \in Views, Told(d, a)'
               PROVE  /\ Acted(d)'
                      /\ a = "open" /\ op'[d] = "cancel_job"
                           => about'[d] \in cancelAsked'
    BY DEF Truth
  <1>1. Acted(d) /\ (a = "open" /\ op[d] = "cancel_job" => about[d] \in cancelAsked)
    BY DEF IInv, Truth
  <1> QED BY <1>1 DEF Acted, Subject, CreatedBy, IsOpen

LEMMA CommentKeeps ==
  ASSUME IInv, NEW c \in Comments, Comment(c)
  PROVE  IInv'
  <1> USE NoneAssumption, BoundsAssumption
      DEF IInv, TypeOK, Comment, Queued, relayVars, jobVars
  <1>1. TypeOK'
    <2>1. op' \in [Comments -> {"none", "start", "get_job_status", "cancel_job"}]
      OBVIOUS
    <2>2. about' \in [Comments -> JobIds \cup {None}]
      BY DEF KnownJobs
    <2>3. run' \in [Comments -> Ended \cup {"none", "pending", "publishing", "waiting"}]
      BY DEF Ended
    <2> QED BY <2>1, <2>2, <2>3 DEF Outcomes, Views
  <1>2. NoRequestDropped'  BY DEF NoRequestDropped, Published, Holding
  <1>3. Named'  BY DEF Named, KnownJobs, CreatedBy
  <1>4. Published'  BY DEF Published, Holding, Ended
  <1>5. Holding'  BY DEF Holding
  <1>6. Truth'
    <2> SUFFICES ASSUME NEW d \in Comments, NEW a \in Views, Told(d, a)'
                 PROVE  /\ Acted(d)'
                        /\ a = "open" /\ op'[d] = "cancel_job"
                             => about'[d] \in cancelAsked'
      BY DEF Truth
    <2>1. Told(d, a)  BY DEF Told
    <2>2. Acted(d) /\ (a = "open" /\ op[d] = "cancel_job" => about[d] \in cancelAsked)
      BY <2>1 DEF Truth
    <2>3. op'[d] = op[d] /\ about'[d] = about[d]
      BY <2>2 DEF Acted, Published
    <2>4. Subject(d)' = Subject(d) /\ d \in sent'
      BY <2>2, <2>3 DEF Subject, CreatedBy, Acted
    <2> QED BY <2>2, <2>3, <2>4 DEF Acted, IsOpen
  <1>7. OneJobPerComment' /\ JobsOf'  BY JobsUnchanged
  <1> QED BY <1>1, <1>2, <1>3, <1>4, <1>5, <1>6, <1>7

LEMMA RerunKeeps ==
  ASSUME IInv, NEW c \in Comments, Rerun(c)
  PROVE  IInv'
  <1> USE NoneAssumption, BoundsAssumption
      DEF IInv, TypeOK, Rerun, Queued, relayVars, jobVars, Ended
  <1>1. TypeOK'  BY DEF Ended, Outcomes, Views
  <1>2. NoRequestDropped'  BY DEF NoRequestDropped, Published, Holding
  <1>3. Named'  BY DEF Named, KnownJobs, CreatedBy
  <1>4. Published'  BY DEF Published, Holding, Ended
  <1>5. Holding'  BY DEF Holding
  <1>6. Truth'
    <2>1. \A d \in Comments, a \in Views : Told(d, a)' => Told(d, a)
      BY DEF Told, Views, Outcomes
    <2> QED BY <2>1, TruthKept
  <1>7. OneJobPerComment' /\ JobsOf'  BY JobsUnchanged
  <1> QED BY <1>1, <1>2, <1>3, <1>4, <1>5, <1>6, <1>7

LEMMA BeginRunKeeps ==
  ASSUME IInv, NEW c \in Comments, BeginRun(c)
  PROVE  IInv'
  <1> USE NoneAssumption, BoundsAssumption
      DEF IInv, TypeOK, BeginRun, relayVars, jobVars
  <1>1. TypeOK'  BY DEF Ended, Outcomes, Views
  <1>2. NoRequestDropped'  BY DEF NoRequestDropped, Published, Holding
  <1>3. Named'  BY DEF Named, KnownJobs, CreatedBy
  <1>4. Published'  BY DEF Published, Holding, Ended
  <1>5. Holding'  BY DEF Holding
  <1>6. Truth'
    <2>1. \A d \in Comments, a \in Views : Told(d, a)' => Told(d, a)
      BY DEF Told, Views, Outcomes
    <2> QED BY <2>1, TruthKept
  <1>7. OneJobPerComment' /\ JobsOf'  BY JobsUnchanged
  <1> QED BY <1>1, <1>2, <1>3, <1>4, <1>5, <1>6, <1>7

LEMMA PublishRequestKeeps ==
  ASSUME IInv, NEW c \in Comments, PublishRequest(c)
  PROVE  IInv'
  <1> USE NoneAssumption, BoundsAssumption
      DEF IInv, TypeOK, PublishRequest, Fault, NoFault, relayVars, jobVars
  <1>1. TypeOK'  BY DEF Ended, Outcomes, Views
  <1>2. NoRequestDropped'  BY DEF NoRequestDropped, Published, Holding
  <1>3. Named'  BY DEF Named, KnownJobs, CreatedBy
  <1>4. Published'  BY DEF Published, Holding, Ended
  <1>5. Holding'  BY DEF Holding
  <1>6. Truth'
    <2>1. \A d \in Comments, a \in Views : Told(d, a)' => Told(d, a)
      BY DEF Told, Views, Outcomes
    <2> QED BY <2>1, TruthKept
  <1>7. OneJobPerComment' /\ JobsOf'  BY JobsUnchanged
  <1> QED BY <1>1, <1>2, <1>3, <1>4, <1>5, <1>6, <1>7

LEMMA PullResponseKeeps ==
  ASSUME IInv, NEW c \in Comments, PullResponse(c)
  PROVE  IInv'
  <1> USE NoneAssumption, BoundsAssumption
      DEF IInv, TypeOK, PullResponse, IsReply, Fault, NoFault, relayVars, jobVars
  <1>1. TypeOK'  BY DEF Ended, Outcomes, Views
  <1>2. NoRequestDropped'  BY DEF NoRequestDropped, Published, Holding
  <1>3. Named'  BY DEF Named, KnownJobs, CreatedBy
  <1>4. Published'  BY DEF Published, Holding, Ended
  <1>5. Holding'  BY DEF Holding
  <1>6. Truth'
    <2> SUFFICES ASSUME NEW d \in Comments, NEW a \in Views, Told(d, a)'
                 PROVE  Told(d, a)
      BY TruthKept
    <2>1. PICK m \in Comments \X Outcomes : responses[m] > 0
            /\ (\/ UNCHANGED <<responses, report>>
                \/ /\ responses' = [responses EXCEPT ![m] = @ - 1]
                   /\ \/ report' = report
                      \/ m[1] = c /\ report' = [report EXCEPT ![c] = m[2]])
      OBVIOUS
    <2>2. m = <<m[1], m[2]>>  OBVIOUS
    <2>3. <<d, a>> \in Comments \X Outcomes  BY DEF Outcomes
    <2> QED BY <2>1, <2>2, <2>3 DEF Told
  <1>7. OneJobPerComment' /\ JobsOf'  BY JobsUnchanged
  <1> QED BY <1>1, <1>2, <1>3, <1>4, <1>5, <1>6, <1>7

LEMMA GiveUpKeeps ==
  ASSUME IInv, NEW c \in Comments, GiveUp(c)
  PROVE  IInv'
  <1> USE NoneAssumption, BoundsAssumption
      DEF IInv, TypeOK, GiveUp, relayVars, jobVars
  <1>1. TypeOK'  BY DEF Ended, Outcomes, Views
  <1>2. NoRequestDropped'  BY DEF NoRequestDropped, Published, Holding
  <1>3. Named'  BY DEF Named, KnownJobs, CreatedBy
  <1>4. Published'  BY DEF Published, Holding, Ended
  <1>5. Holding'  BY DEF Holding
  <1>6. Truth'
    <2>1. \A d \in Comments, a \in Views : Told(d, a)' => Told(d, a)
      BY DEF Told, Views, Outcomes
    <2> QED BY <2>1, TruthKept
  <1>7. OneJobPerComment' /\ JobsOf'  BY JobsUnchanged
  <1> QED BY <1>1, <1>2, <1>3, <1>4, <1>5, <1>6, <1>7

LEMMA PullKeeps ==
  ASSUME IInv, NEW c \in Comments, Pull(c)
  PROVE  IInv'
  <1> USE NoneAssumption, BoundsAssumption
      DEF IInv, TypeOK, Pull, RelayTo, runVars, jobVars
  <1>1. TypeOK'  BY DEF Ended, Outcomes, Views
  <1>2. NoRequestDropped'  BY DEF NoRequestDropped, Published, Holding
  <1>3. Named'  BY DEF Named, KnownJobs, CreatedBy
  <1>4. Published'  BY DEF Published, Holding, Ended
  <1>5. Holding'  BY DEF Holding
  <1>6. Truth'
    <2>1. \A d \in Comments, a \in Views : Told(d, a)' => Told(d, a)
      BY DEF Told, Views, Outcomes
    <2> QED BY <2>1, TruthKept
  <1>7. OneJobPerComment' /\ JobsOf'  BY JobsUnchanged
  <1> QED BY <1>1, <1>2, <1>3, <1>4, <1>5, <1>6, <1>7

LEMMA ExchangeRefusedKeeps ==
  ASSUME IInv, ExchangeRefused
  PROVE  IInv'
  <1> USE NoneAssumption, BoundsAssumption
      DEF IInv, TypeOK, ExchangeRefused, RelayTo, Fault, NoFault, runVars, jobVars
  <1>1. TypeOK'  BY DEF Ended, Outcomes, Views
  <1>2. NoRequestDropped'  BY DEF NoRequestDropped, Published, Holding
  <1>3. Named'  BY DEF Named, KnownJobs, CreatedBy
  <1>4. Published'  BY DEF Published, Holding, Ended
  <1>5. Holding'  BY DEF Holding, Outcomes
  <1>6. Truth'
    <2>1. \A d \in Comments, a \in Views : Told(d, a)' => Told(d, a)
      BY DEF Told, Views, Outcomes
    <2> QED BY <2>1, TruthKept
  <1>7. OneJobPerComment' /\ JobsOf'  BY JobsUnchanged
  <1> QED BY <1>1, <1>2, <1>3, <1>4, <1>5, <1>6, <1>7

LEMMA PublishResponseKeeps ==
  ASSUME IInv, PublishResponse
  PROVE  IInv'
  <1> USE NoneAssumption, BoundsAssumption
      DEF IInv, TypeOK, PublishResponse, RelayTo, Fault, NoFault, runVars, jobVars
  <1>1. TypeOK'
    <2>1. held \in sent  BY DEF Holding, Published
    <2> QED BY <2>1 DEF Holding, Outcomes, Views
  <1>2. NoRequestDropped'  BY DEF NoRequestDropped, Published, Holding
  <1>3. Named'  BY DEF Named, KnownJobs, CreatedBy
  <1>4. Published'  BY DEF Published, Holding, Ended
  <1>5. Holding'  BY DEF Holding
  <1>6. Truth'
    <2>1. \A d \in Comments, a \in Views : Told(d, a)' => Told(d, a)
      BY DEF Told, Views, Outcomes
    <2> QED BY <2>1, TruthKept
  <1>7. OneJobPerComment' /\ JobsOf'  BY JobsUnchanged
  <1> QED BY <1>1, <1>2, <1>3, <1>4, <1>5, <1>6, <1>7

LEMMA PublishFailsKeeps ==
  ASSUME IInv, PublishFails
  PROVE  IInv'
  <1> USE NoneAssumption, BoundsAssumption
      DEF IInv, TypeOK, PublishFails, RelayTo, Fault, NoFault, runVars, jobVars
  <1>1. TypeOK'  BY DEF Ended, Outcomes, Views
  <1>2. NoRequestDropped'  BY DEF NoRequestDropped, Published, Holding
  <1>3. Named'  BY DEF Named, KnownJobs, CreatedBy
  <1>4. Published'  BY DEF Published, Holding, Ended
  <1>5. Holding'  BY DEF Holding
  <1>6. Truth'
    <2>1. \A d \in Comments, a \in Views : Told(d, a)' => Told(d, a)
      BY DEF Told, Views, Outcomes
    <2> QED BY <2>1, TruthKept
  <1>7. OneJobPerComment' /\ JobsOf'  BY JobsUnchanged
  <1> QED BY <1>1, <1>2, <1>3, <1>4, <1>5, <1>6, <1>7

LEMMA AckKeeps ==
  ASSUME IInv, Ack
  PROVE  IInv'
  <1> USE NoneAssumption, BoundsAssumption
      DEF IInv, TypeOK, Ack, RelayTo, Fault, NoFault, runVars, jobVars
  <1>1. TypeOK'  BY DEF Holding, Ended, Outcomes, Views
  <1>2. NoRequestDropped'  BY DEF NoRequestDropped, Published, Holding
  <1>3. Named'  BY DEF Named, KnownJobs, CreatedBy
  <1>4. Published'  BY DEF Published, Holding, Ended
  <1>5. Holding'  BY DEF Holding
  <1>6. Truth'
    <2>1. \A d \in Comments, a \in Views : Told(d, a)' => Told(d, a)
      BY DEF Told, Views, Outcomes
    <2> QED BY <2>1, TruthKept
  <1>7. OneJobPerComment' /\ JobsOf'  BY JobsUnchanged
  <1> QED BY <1>1, <1>2, <1>3, <1>4, <1>5, <1>6, <1>7

LEMMA RelayDiesKeeps ==
  ASSUME IInv, RelayDies
  PROVE  IInv'
  <1> USE NoneAssumption, BoundsAssumption
      DEF IInv, TypeOK, RelayDies, RelayTo, Fault, NoFault, runVars, jobVars
  <1>1. TypeOK'  BY DEF Ended, Outcomes, Views
  <1>2. NoRequestDropped'  BY DEF NoRequestDropped, Published, Holding
  <1>3. Named'  BY DEF Named, KnownJobs, CreatedBy
  <1>4. Published'  BY DEF Published, Holding, Ended
  <1>5. Holding'  BY DEF Holding
  <1>6. Truth'
    <2>1. \A d \in Comments, a \in Views : Told(d, a)' => Told(d, a)
      BY DEF Told, Views, Outcomes
    <2> QED BY <2>1, TruthKept
  <1>7. OneJobPerComment' /\ JobsOf'  BY JobsUnchanged
  <1> QED BY <1>1, <1>2, <1>3, <1>4, <1>5, <1>6, <1>7

LEMMA RelayStopsKeeps ==
  ASSUME IInv, RelayStops
  PROVE  IInv'
  <1> USE NoneAssumption, BoundsAssumption
      DEF IInv, TypeOK, RelayStops, RelayTo, Fault, NoFault, runVars, jobVars
  <1>1. TypeOK'  BY DEF Ended, Outcomes, Views
  <1>2. NoRequestDropped'  BY DEF NoRequestDropped, Published, Holding
  <1>3. Named'  BY DEF Named, KnownJobs, CreatedBy
  <1>4. Published'  BY DEF Published, Holding, Ended
  <1>5. Holding'  BY DEF Holding
  <1>6. Truth'
    <2>1. \A d \in Comments, a \in Views : Told(d, a)' => Told(d, a)
      BY DEF Told, Views, Outcomes
    <2> QED BY <2>1, TruthKept
  <1>7. OneJobPerComment' /\ JobsOf'  BY JobsUnchanged
  <1> QED BY <1>1, <1>2, <1>3, <1>4, <1>5, <1>6, <1>7

-----------------------------------------------------------------------------
(* Steps that change jobs: a request the worker handles, and its own work *)

\* Jobs are neither removed nor reopened, and cancellations stay.
JobsMoveOn ==
  /\ phase' \in [JobIds -> Jobs!Phases]
  /\ effect' \in [JobIds -> Jobs!Effects]
  /\ origin' \in [JobIds -> Comments \cup {None}]
  /\ cancelAsked' \subseteq JobIds
  /\ cancelAsked \subseteq cancelAsked'
  /\ \A k \in JobIds : origin[k] # None => origin'[k] = origin[k]
  /\ \A k \in JobIds : phase[k] # "unknown" => phase'[k] # "unknown"
  /\ \A k \in JobIds : phase[k] # "unknown" /\ ~IsOpen(k) => ~IsOpen(k)'

LEMMA ActedStays ==
  ASSUME IInv, JobsMoveOn, UNCHANGED runVars
  PROVE  Named' /\ \A d \in Comments : Acted(d) => Acted(d)'
  <1> USE NoneAssumption DEF IInv, JobsMoveOn, runVars
  <1>1. Named'  BY DEF Named, TypeOK
  <1>2. ASSUME NEW d \in Comments, Acted(d)  PROVE Acted(d)'
    <2>1. Subject(d)' # {}
      BY <1>2 DEF Acted, Subject, CreatedBy, TypeOK
    <2>2. ASSUME op[d] = "cancel_job"
          PROVE  about[d] \in cancelAsked' \/ ~IsOpen(about[d])'
      <3>1. about[d] \in JobIds /\ phase[about[d]] # "unknown"
        BY <2>2 DEF Named, JobsOf
      <3> QED BY <1>2, <2>2, <3>1 DEF Acted
    <2> QED BY <1>2, <2>1, <2>2 DEF Acted
  <1> QED BY <1>1, <1>2

\* Handling the request of c: a new job has no other owner, and whoever is
\* told that a job he cancelled is open has flagged it.
LEMMA HandleFacts ==
  ASSUME IInv, NEW c \in Comments, c \in sent, Handle(c), UNCHANGED runVars
  PROVE  /\ JobsMoveOn /\ OneJobPerComment' /\ JobsOf'
         /\ Acted(c)'
         /\ op[c] = "cancel_job" /\ Reply(c)' = "open" => about[c] \in cancelAsked'
  <1> USE NoneAssumption DEF IInv, TypeOK, runVars, jobVars
  <1>1. CASE op[c] = "start" /\ Existing(c) # {} /\ UNCHANGED jobVars
    BY <1>1 DEF Existing, JobsMoveOn, OneJobPerComment, JobsOf, Acted, Subject,
         CreatedBy, IsOpen
  <1>2. CASE op[c] = "start" /\ Existing(c) = {} /\ Start(c)
    <2>1. PICK j \in JobIds : /\ Jobs!Accept(j)
                              /\ origin' = [origin EXCEPT ![j] = c]
                              /\ UNCHANGED cancelAsked
      BY <1>2 DEF Start
    <2>2. /\ phase[j] = "unknown" /\ effect' = effect
          /\ phase' = [phase EXCEPT ![j] = "waiting"]
      BY <2>1, AcceptFacts
    <2>3. origin[j] = None  BY <2>2 DEF JobsOf
    <2>4. JobsMoveOn
      BY <2>1, <2>2, <2>3 DEF JobsMoveOn, IsOpen, Jobs!Phases, Jobs!Open
    <2>5. OneJobPerComment'
      BY <1>2, <2>1, <2>3 DEF OneJobPerComment, Existing, CreatedBy
    <2>6. JobsOf'  BY <2>1, <2>2 DEF JobsOf
    <2>7. Acted(c)'  BY <1>2, <2>1 DEF Acted, Subject, CreatedBy
    <2> QED BY <1>2, <2>4, <2>5, <2>6, <2>7
  <1>3. CASE op[c] = "get_job_status" /\ UNCHANGED jobVars
    BY <1>3 DEF JobsMoveOn, OneJobPerComment, JobsOf, Acted, Subject, IsOpen
  <1>4. CASE op[c] = "cancel_job" /\ Cancel(about[c])
    <2> DEFINE j == about[c]
    <2>1. j \in JobIds /\ phase[j] # "unknown"  BY <1>4 DEF Named, JobsOf
    <2>2. Subject(c)' = {j}  BY <1>4 DEF Subject
    <2>3. CASE ~IsOpen(j) /\ UNCHANGED jobVars
      BY <1>4, <2>2, <2>3 DEF JobsMoveOn, OneJobPerComment, JobsOf, Acted, IsOpen, Reply
    <2>4. CASE /\ Jobs!Refuse(j) \/ Jobs!Abandon(j)
               /\ cancelAsked' = cancelAsked \cup {j}
               /\ UNCHANGED origin
      <3>1. Progress(j) /\ ~Jobs!Commit(j) /\ phase'[j] # "succeeded"
        BY <2>1, <2>4 DEF Progress, Jobs!Refuse, Jobs!Abandon, Jobs!Commit, Jobs!Move
      <3>2. JobsMoveOn
        BY <2>1, <2>4, <3>1, ProgressFacts DEF JobsMoveOn
      <3>3. OneJobPerComment' /\ JobsOf'
        BY <2>1, <2>4, <3>1, ProgressFacts DEF OneJobPerComment, JobsOf
      <3> QED BY <1>4, <2>2, <2>4, <3>2, <3>3 DEF Acted
    <2>5. CASE /\ IsOpen(j) /\ phase[j] # "waiting"
               /\ cancelAsked' = cancelAsked \cup {j}
               /\ UNCHANGED <<phase, effect, origin>>
      <3>1. phase[j] # "succeeded"  BY <2>5 DEF IsOpen, Jobs!Open
      <3> QED BY <1>4, <2>1, <2>2, <2>5, <3>1
            DEF JobsMoveOn, OneJobPerComment, JobsOf, Acted, IsOpen
    <2> QED BY <1>4, <2>3, <2>4, <2>5 DEF Cancel
  <1> QED BY <1>1, <1>2, <1>3, <1>4 DEF Handle, Start

\* The worker acts on the request held, whatever becomes of its answer.
LEMMA HandledKeeps ==
  ASSUME IInv, relay = "pulled", Handle(held),
         NEW a, a \in Outcomes, a = "open" => Reply(held)' = "open",
         RelayTo("answered", held, a),
         UNCHANGED <<runVars, requests, responses, answered>>,
         faults' \in Nat /\ faults' + reruns <= MaxFaults
  PROVE  IInv'
  <1> USE NoneAssumption DEF IInv, RelayTo, runVars
  <1>1. held \in Comments /\ held \in sent
    BY DEF TypeOK, Holding, Published
  <1>2. /\ JobsMoveOn /\ OneJobPerComment' /\ JobsOf' /\ Acted(held)'
        /\ op[held] = "cancel_job" /\ a = "open" => about[held] \in cancelAsked'
    BY <1>1, HandleFacts
  <1>3. Named' /\ \A d \in Comments : Acted(d) => Acted(d)'
    BY <1>2, ActedStays
  <1>4. TypeOK'  BY <1>2, BoundsAssumption DEF TypeOK, JobsMoveOn
  <1>5. NoRequestDropped' /\ Published' /\ Holding'
    BY DEF NoRequestDropped, Published, Holding
  <1>6. Truth'
    <2> SUFFICES ASSUME NEW d \in Comments, NEW v \in Views, Told(d, v)'
                 PROVE  /\ Acted(d)'
                        /\ v = "open" /\ op[d] = "cancel_job"
                             => about[d] \in cancelAsked'
      BY DEF Truth
    <2>1. CASE d = held /\ v = a  BY <1>2, <2>1
    <2>2. CASE Told(d, v)
      <3>1. /\ Acted(d)
            /\ v = "open" /\ op[d] = "cancel_job" => about[d] \in cancelAsked
        BY <2>2 DEF Truth
      <3> QED BY <1>2, <1>3, <3>1 DEF JobsMoveOn
    <2> QED BY <2>1, <2>2 DEF Told
  <1> QED BY <1>2, <1>3, <1>4, <1>5, <1>6

LEMMA ExchangeKeeps ==
  ASSUME IInv, Exchange
  PROVE  IInv'
  <1>1. Reply(held)' \in Outcomes  BY DEF Reply, Outcomes, Views
  <1>2. faults' \in Nat /\ faults' + reruns <= MaxFaults  BY DEF Exchange, NoFault, IInv, TypeOK
  <1>3. PICK a : a = Reply(held)'  OBVIOUS
  <1> QED BY <1>1, <1>2, <1>3, HandledKeeps DEF Exchange

LEMMA ExchangeLostKeeps ==
  ASSUME IInv, ExchangeLost
  PROVE  IInv'
  <1>1. PICK a \in Outcomes \ Views : RelayTo("answered", held, a)
    BY DEF ExchangeLost
  <1>2. faults' \in Nat /\ faults' + reruns <= MaxFaults
    BY BoundsAssumption DEF ExchangeLost, Fault, IInv, TypeOK
  <1>3. a # "open"  BY DEF Views
  <1> QED BY <1>1, <1>2, <1>3, HandledKeeps DEF ExchangeLost

\* A cancelled job is not committed, so the worker's own steps keep the jobs.
LEMMA WorkerStepKeeps ==
  ASSUME IInv, WorkerStep
  PROVE  IInv'
  <1> USE NoneAssumption DEF IInv
  <1>1. PICK j \in JobIds : Progress(j) /\ (Jobs!Commit(j) => j \notin cancelAsked)
    <2>1. PICK j \in JobIds :
            \/ Jobs!Refuse(j) \/ Jobs!Begin(j) \/ Jobs!Work(j) \/ Jobs!HandOff(j)
            \/ j \notin cancelAsked /\ Jobs!Commit(j)
            \/ Jobs!Interrupt(j) \/ Jobs!Undo(j) \/ Jobs!Settle(j)
            \/ Jobs!Escalate(j) \/ Jobs!Abandon(j)
      BY DEF WorkerStep, MayCommit
    <2>2. Progress(j)  BY <2>1 DEF Progress
    <2>3. Jobs!Commit(j) => j \notin cancelAsked
      BY <2>1 DEF TypeOK, Jobs!Refuse, Jobs!Begin, Jobs!Work, Jobs!HandOff,
           Jobs!Commit, Jobs!Interrupt, Jobs!Undo, Jobs!Settle, Jobs!Escalate,
           Jobs!Abandon, Jobs!Move
    <2> QED BY <2>2, <2>3
  <1>2. UNCHANGED <<runVars, requests, responses, relayVars, origin, cancelAsked,
                    answered, faults>>
    BY DEF WorkerStep
  <1>3. JobsMoveOn  BY <1>1, <1>2, ProgressFacts DEF JobsMoveOn, TypeOK
  <1>4. JobsOf'  BY <1>1, <1>2, ProgressFacts DEF JobsOf, TypeOK
  <1>5. Named' /\ \A d \in Comments : Acted(d) => Acted(d)'
    BY <1>2, <1>3, ActedStays
  <1>6. TypeOK'  BY <1>2, <1>3 DEF TypeOK, JobsMoveOn, runVars, relayVars
  <1>7. OneJobPerComment' /\ NoRequestDropped' /\ Published' /\ Holding'
    BY <1>2 DEF OneJobPerComment, NoRequestDropped, Published, Holding, runVars,
         relayVars
  <1>8. Truth'  BY <1>2, <1>5 DEF Truth, Told, runVars, relayVars
  <1> QED BY <1>4, <1>5, <1>6, <1>7, <1>8

LEMMA StutterKeeps ==
  ASSUME IInv, UNCHANGED vars
  PROVE  IInv'
  <1> USE DEF IInv, vars, runVars, relayVars, jobVars
  <1>1. TypeOK'  BY DEF TypeOK
  <1>2. NoRequestDropped' /\ Published' /\ Holding' /\ Named'
    BY DEF NoRequestDropped, Published, Holding, Named
  <1>3. Truth'
    <2>1. \A d \in Comments, a \in Views : Told(d, a)' => Told(d, a)  BY DEF Told
    <2> QED BY <2>1, TruthKept
  <1> QED BY <1>1, <1>2, <1>3, JobsUnchanged

LEMMA StepInv ==
  ASSUME IInv, [Next]_vars
  PROVE  IInv'
  <1>1. CASE \E c \in Comments : Comment(c) \/ Rerun(c) \/ Run(c)
    BY <1>1, CommentKeeps, RerunKeeps, BeginRunKeeps, PublishRequestKeeps,
       PullResponseKeeps, GiveUpKeeps DEF Run
  <1>2. CASE Relay
    BY <1>2, PullKeeps, ExchangeKeeps, ExchangeLostKeeps, ExchangeRefusedKeeps,
       PublishResponseKeeps, PublishFailsKeeps, AckKeeps DEF Relay
  <1>3. CASE PullNothing  BY <1>3, StutterKeeps DEF PullNothing
  <1>4. CASE RelayDies \/ RelayStops  BY <1>4, RelayDiesKeeps, RelayStopsKeeps
  <1>5. CASE WorkerStep  BY <1>5, WorkerStepKeeps
  <1>6. CASE UNCHANGED vars  BY <1>6, StutterKeeps
  <1> QED BY <1>1, <1>2, <1>3, <1>4, <1>5, <1>6 DEF Next

LEMMA Invariant == Spec => []IInv
  <1>1. IInv /\ [Next]_vars => IInv'  BY StepInv
  <1> QED BY InitInv, <1>1, PTL DEF Spec

-----------------------------------------------------------------------------
(* The theorems *)

\* Every variable keeps its type, and the relay holds a request exactly while
\* it is busy with one.
THEOREM RelayTypeCorrect == Spec => []TypeOK
  <1>1. IInv => TypeOK  BY DEF IInv
  <1> QED BY Invariant, <1>1, PTL

\* The idempotency key of JobStore.start: a comment has at most one job,
\* however often its request is published, delivered or handled.
THEOREM OneJobPerCommentHolds == Spec => []OneJobPerComment
  <1>1. IInv => OneJobPerComment  BY DEF IInv
  <1> QED BY Invariant, <1>1, PTL

\* Publish, then acknowledge (run_once): no request leaves the subscription
\* without a response, whatever fails.
THEOREM NoRequestDroppedHolds == Spec => []NoRequestDropped
  <1>1. IInv => NoRequestDropped  BY DEF IInv
  <1> QED BY Invariant, <1>1, PTL

\* wait_for_response compares the id: a reported job is that of the comment,
\* and the worker has acted on it.
THEOREM ReportIsOwnHolds == Spec => []ReportIsOwn
  <1>1. IInv => ReportIsOwn  BY DEF IInv, Truth, Told, Acted, ReportIsOwn
  <1> QED BY Invariant, <1>1, PTL

\* A job that a cancelling comment reports as open never succeeds.
THEOREM CancelIsKeptHolds == Spec => []CancelIsKept
  <1>1. IInv => CancelIsKept
    BY DEF IInv, Truth, Told, JobsOf, Views, CancelIsKept
  <1> QED BY Invariant, <1>1, PTL

-----------------------------------------------------------------------------
(* Reports go forward.  Without re-runs a run asks after every report that *)
(* came before it: runs do not overlap, and a request has no copy before   *)
(* its run.  What is closed stays closed, so an open answer to a run that  *)
(* waits cannot be about a job that was reported closed.                   *)

Active == {"publishing", "waiting"}

\* The concurrency group: one run at a time.
Serial == \A c, d \in Comments : run[c] \in Active /\ run[d] \in Active => c = d

\* A request is sent in the last step of its run's publishing, not before.
FirstRun == reruns = 0 => \A c \in Comments :
  run[c] \in {"none", "pending", "publishing"} => c \notin sent

\* All jobs of a comment are closed.
Finished(d) == \A j \in Subject(d) : phase[j] # "unknown" /\ ~IsOpen(j)

ClosedIsTrue == \A d \in Comments : Told(d, "closed") => Finished(d)

\* An open answer to c is under way.
Underway(c) == (held = c /\ answer = "open") \/ responses[<<c, "open">>] > 0

NoneOvertaken == reruns = 0 => \A c, d \in Comments :
  run[c] = "waiting" /\ report[d] = "closed" /\ Subject(c) = Subject(d)
    => ~Underway(c)

Forward == Serial /\ FirstRun /\ ClosedIsTrue /\ NoneOvertaken

\* What has been told is about jobs that exist.
LEMMA ToldOnceSent ==
  ASSUME IInv, NEW d \in Comments, NEW a \in Views, Told(d, a)
  PROVE  Acted(d)
  BY DEF IInv, Truth


\* Jobs move on with every step, and what a comment asks was decided before
\* its request was sent.
LEMMA StepMovesOn ==
  ASSUME IInv, [Next]_vars
  PROVE  /\ JobsMoveOn
         /\ \A d \in sent : op'[d] = op[d] /\ about'[d] = about[d]
  <1>1. CASE UNCHANGED <<op, about, jobVars>>
    BY <1>1 DEF IInv, TypeOK, jobVars, JobsMoveOn, IsOpen
  <1>2. CASE \E c \in Comments : Comment(c)
    <2>1. PICK c \in Comments : Comment(c)  BY <1>2
    <2>2. UNCHANGED jobVars  BY <2>1 DEF Comment
    <2>3. JobsMoveOn  BY <2>2 DEF IInv, TypeOK, jobVars, JobsMoveOn, IsOpen
    <2>4. ASSUME NEW d \in sent  PROVE op'[d] = op[d] /\ about'[d] = about[d]
      <3>1. d # c /\ d \in Comments  BY <2>1 DEF Comment, IInv, TypeOK, Published
      <3> QED BY <2>1, <3>1 DEF Comment, IInv, TypeOK
    <2> QED BY <2>3, <2>4
  <1>3. CASE Exchange \/ ExchangeLost
    <2>1. Handle(held) /\ UNCHANGED runVars  BY <1>3 DEF Exchange, ExchangeLost
    <2>2. held \in Comments /\ held \in sent
      BY <1>3, NoneAssumption DEF IInv, TypeOK, Holding, Published, Exchange, ExchangeLost
    <2> QED BY <2>1, <2>2, HandleFacts DEF runVars
  <1>4. CASE WorkerStep
    <2>1. PICK j \in JobIds : Progress(j)
      BY <1>4 DEF WorkerStep, Progress, MayCommit
    <2>2. UNCHANGED <<runVars, origin, cancelAsked>>  BY <1>4 DEF WorkerStep
    <2> QED BY <2>1, <2>2, ProgressFacts DEF IInv, TypeOK, JobsMoveOn, runVars
  <1>5. CASE \E c \in Comments : Rerun(c) \/ Run(c)
    BY <1>1, <1>5 DEF Rerun, Run, BeginRun, PublishRequest, PullResponse, GiveUp
  <1>6. CASE \/ \E c \in Comments : Pull(c)
             \/ ExchangeRefused \/ PublishResponse \/ PublishFails \/ Ack
             \/ PullNothing \/ RelayDies \/ RelayStops \/ UNCHANGED vars
    BY <1>1, <1>6 DEF Pull, ExchangeRefused, PublishResponse, PublishFails, Ack,
         PullNothing, RelayDies, RelayStops, vars, runVars
  <1> QED BY <1>2, <1>3, <1>4, <1>5, <1>6 DEF Next, Relay

\* The jobs of a comment the worker has acted on are settled, and their end is
\* final.
LEMMA SubjectStays ==
  ASSUME IInv, IInv', [Next]_vars, NEW d \in Comments, Acted(d)
  PROVE  /\ Subject(d)' = Subject(d)
         /\ Finished(d) => Finished(d)'
  <1> USE NoneAssumption
  <1>1. JobsMoveOn /\ op'[d] = op[d] /\ about'[d] = about[d]
    BY StepMovesOn DEF Acted
  <1>2. Subject(d)' = Subject(d)
    <2>1. CASE op[d] = "start"
      <3>1. PICK k \in JobIds : origin[k] = d
        BY <2>1 DEF Acted, Subject, CreatedBy
      <3>2. origin'[k] = d  BY <1>1, <3>1 DEF JobsMoveOn
      <3>3. \A j \in JobIds : origin[j] = d => j = k
        BY <3>1 DEF IInv, OneJobPerComment
      <3>4. \A j \in JobIds : origin'[j] = d => j = k
        BY <3>2 DEF IInv, OneJobPerComment
      <3> QED BY <1>1, <2>1, <3>1, <3>2, <3>3, <3>4 DEF Subject, CreatedBy
    <2>2. CASE op[d] # "start"  BY <1>1, <2>2 DEF Subject
    <2> QED BY <2>1, <2>2
  <1>3. Subject(d) \subseteq JobIds
    BY DEF Acted, Subject, CreatedBy, IInv, TypeOK, Named, Published
  <1> QED BY <1>1, <1>2, <1>3 DEF Finished, JobsMoveOn

\* What is told is what the worker answers in this step, or was told before.
LEMMA ToldByExchange ==
  ASSUME IInv, [Next]_vars, NEW d \in Comments, NEW a \in Views
  PROVE  /\ Told(d, a)' => Told(d, a) \/ (Exchange /\ held = d /\ a = Reply(d)')
         /\ Underway(d)' =>
              Underway(d) \/ (Exchange /\ held = d /\ "open" = Reply(d)')
  <1> USE DEF Told, Underway
  <1> DEFINE a1 == a \in Outcomes /\ "open" \in Outcomes /\ a # "none"
  <1>0. a1  BY DEF Views, Outcomes
  <1>1. CASE UNCHANGED <<held, answer, report, responses>>
    BY <1>1
  <1>2. CASE Exchange
    BY <1>2 DEF Exchange, RelayTo, runVars
  <1>3. CASE ExchangeLost \/ ExchangeRefused
    <2>1. answer' \notin Views /\ UNCHANGED <<report, responses>>
      BY <1>3 DEF ExchangeLost, ExchangeRefused, RelayTo, runVars, Views
    <2> QED BY <2>1 DEF Views
  <1>4. CASE PublishResponse
    <2>1. /\ responses' = [responses EXCEPT ![<<held, answer>>] = @ + 1]
          /\ report' = report /\ answer' = "none"
      BY <1>4 DEF PublishResponse, RelayTo, runVars
    <2>2. /\ responses'[<<d, a>>] > 0 => responses[<<d, a>>] > 0 \/ (held = d /\ answer = a)
          /\ responses'[<<d, "open">>] > 0 =>
                responses[<<d, "open">>] > 0 \/ (held = d /\ answer = "open")
      BY <1>0, <2>1 DEF IInv, TypeOK
    <2> QED BY <1>0, <2>1, <2>2
  <1>5. CASE \E c \in Comments : PullResponse(c)
    <2>1. PICK c \in Comments : PullResponse(c)  BY <1>5
    <2>2. PICK m \in Comments \X Outcomes : responses[m] > 0
            /\ (\/ UNCHANGED <<responses, report>>
                \/ /\ responses' = [responses EXCEPT ![m] = @ - 1]
                   /\ \/ report' = report
                      \/ m[1] = c /\ report' = [report EXCEPT ![c] = m[2]])
      BY <2>1 DEF PullResponse, IsReply, IInv, TypeOK
    <2>3. m = <<m[1], m[2]>> /\ UNCHANGED <<held, answer>>
      BY <2>1 DEF PullResponse, relayVars
    <2> QED BY <1>0, <2>2, <2>3 DEF IInv, TypeOK
  <1>6. CASE \E c \in Comments :
               Comment(c) \/ Rerun(c) \/ BeginRun(c) \/ PublishRequest(c) \/ GiveUp(c)
    BY <1>1, <1>6 DEF Comment, Rerun, BeginRun, PublishRequest, GiveUp, relayVars
  <1>7. CASE \/ \E c \in Comments : Pull(c)
             \/ PublishFails \/ Ack \/ RelayDies \/ RelayStops
    <2>1. answer' = "none" /\ UNCHANGED <<report, responses>>
      BY <1>7 DEF Pull, PublishFails, Ack, RelayDies, RelayStops, RelayTo, runVars
    <2> QED BY <1>0, <2>1
  <1>8. CASE PullNothing \/ WorkerStep \/ UNCHANGED vars
    BY <1>1, <1>8 DEF PullNothing, WorkerStep, vars, runVars, relayVars
  <1> QED BY <1>2, <1>3, <1>4, <1>5, <1>6, <1>7, <1>8 DEF Next, Relay, Run

\* Runs: only publishing is followed by waiting, and a report ends a run.
LEMMA RunSteps ==
  ASSUME IInv, [Next]_vars, NEW c \in Comments
  PROVE  /\ run'[c] = "waiting" => run[c] \in Active
         /\ run'[c] = "publishing" /\ run[c] # "publishing" =>
              run[c] = "pending" /\ (\A d \in Comments : d # c => run'[d] \notin Active)
         /\ run'[c] = "pending" => run[c] \in {"none", "pending"} \/ reruns' > reruns
         /\ run'[c] = "none" => run[c] = "none"
         /\ c \in sent' /\ c \notin sent => run'[c] \notin {"none", "pending", "publishing"}
         /\ sent \subseteq sent'
         /\ reruns' \in Nat /\ reruns' >= reruns
         /\ report'[c] # report[c] =>
              /\ run[c] = "waiting" /\ run'[c] = "reported"
              /\ responses[<<c, report'[c]>>] > 0
  <1> USE DEF IInv, TypeOK, Active
  <1>1. CASE UNCHANGED runVars
    BY <1>1 DEF runVars
  <1>2. CASE \E d \in Comments : Comment(d)
    <2>1. PICK d \in Comments : Comment(d)  BY <1>2
    <2>2. /\ op[d] = "none" /\ run' = Queued(d)
          /\ UNCHANGED <<report, sent, reruns>>
      BY <2>1 DEF Comment
    <2>3. run[d] = "none"  BY <2>2 DEF Published
    <2>4. run'[c] = run[c] \/ run'[c] = "superseded" \/ (c = d /\ run'[c] = "pending")
      BY <2>2 DEF Queued
    <2> QED BY <2>2, <2>3, <2>4
  <1>3. CASE \E d \in Comments : Rerun(d)
    <2>1. PICK d \in Comments : Rerun(d)  BY <1>3
    <2>2. run' = Queued(d) /\ reruns' = reruns + 1 /\ UNCHANGED <<report, sent>>
      BY <2>1 DEF Rerun
    <2>3. run'[c] = run[c] \/ run'[c] = "superseded" \/ run'[c] = "pending"
      BY <2>2 DEF Queued
    <2> QED BY <2>2, <2>3
  <1>4. CASE \E d \in Comments : BeginRun(d)
    BY <1>4 DEF BeginRun, GroupFree
  <1>5. CASE \E d \in Comments : PublishRequest(d)
    BY <1>5 DEF PublishRequest
  <1>6. CASE \E d \in Comments : PullResponse(d)
    <2>1. PICK d \in Comments : PullResponse(d)  BY <1>6
    <2>2. PICK m \in Comments \X Outcomes : responses[m] > 0
            /\ (\/ report' = report
                \/ m[1] = d /\ report' = [report EXCEPT ![d] = m[2]]
                       /\ run' = [run EXCEPT ![d] = "reported"])
      BY <2>1 DEF PullResponse, IsReply
    <2>3. m = <<m[1], m[2]>>  OBVIOUS
    <2> QED BY <2>1, <2>2, <2>3 DEF PullResponse
  <1>7. CASE \E d \in Comments : GiveUp(d)
    BY <1>7 DEF GiveUp
  <1>8. CASE Relay \/ PullNothing \/ RelayDies \/ RelayStops \/ WorkerStep \/ UNCHANGED vars
    <2>1. UNCHANGED runVars
      BY <1>8 DEF Relay, Pull, Exchange, ExchangeLost, ExchangeRefused, PublishResponse,
           PublishFails, Ack, PullNothing, RelayDies, RelayStops, WorkerStep, vars
    <2> QED BY <1>1, <2>1
  <1> QED BY <1>2, <1>3, <1>4, <1>5, <1>6, <1>7, <1>8 DEF Next, Run

LEMMA InitForward == Init => Forward
  BY NoneAssumption
  DEF Init, Forward, Serial, Active, FirstRun, ClosedIsTrue, Told, NoneOvertaken, Views, Outcomes

LEMMA StepForward ==
  ASSUME IInv, IInv', Forward, [Next]_vars
  PROVE  Forward'
  <1>1. Serial'
    <2> SUFFICES ASSUME NEW c \in Comments, NEW d \in Comments,
                        run'[c] \in Active, run'[d] \in Active
                 PROVE  c = d
      BY DEF Serial
    <2>1. CASE run[c] \in Active /\ run[d] \in Active  BY <2>1 DEF Forward, Serial
    <2>2. CASE run[c] \notin Active \/ run[d] \notin Active
      BY <2>2, RunSteps DEF Active
    <2> QED BY <2>1, <2>2
  <1>2. FirstRun'
    <2> SUFFICES ASSUME reruns' = 0, NEW c \in Comments,
                        run'[c] \in {"none", "pending", "publishing"}
                 PROVE  c \notin sent'
      BY DEF FirstRun
    <2>1. reruns = 0
      <3>1. reruns' >= reruns  BY RunSteps
      <3> QED BY <3>1 DEF IInv, TypeOK
    <2>2. run[c] \in {"none", "pending", "publishing"}
      <3>1. ~(reruns' > reruns)  BY <2>1
      <3>2. CASE run'[c] = "none"  BY <3>2, RunSteps
      <3>3. CASE run'[c] = "pending"  BY <3>1, <3>3, RunSteps
      <3>4. CASE run'[c] = "publishing"  BY <3>4, RunSteps
      <3> QED BY <3>2, <3>3, <3>4
    <2> QED BY <2>1, <2>2, RunSteps DEF Forward, FirstRun
  <1>3. ClosedIsTrue'
    <2> SUFFICES ASSUME NEW d \in Comments, Told(d, "closed")'
                 PROVE  Finished(d)'
      BY DEF ClosedIsTrue
    <2>1. CASE Told(d, "closed")
      BY <2>1, ToldOnceSent, SubjectStays DEF Forward, ClosedIsTrue, Views
    <2>2. CASE Exchange /\ held = d /\ "closed" = Reply(d)'
      <3>1. \A j \in Subject(d)' : ~IsOpen(j)'  BY <2>2 DEF Reply
      <3>2. Acted(d)'  BY ToldOnceSent DEF IInv, Truth, Views
      <3>3. \A j \in Subject(d)' : phase'[j] # "unknown"
        BY <3>2, NoneAssumption
           DEF Acted, Subject, CreatedBy, IInv, TypeOK, JobsOf, Named, Published
      <3> QED BY <3>1, <3>3 DEF Finished
    <2> QED BY <2>1, <2>2, ToldByExchange DEF Views
  <1>4. NoneOvertaken'
    <2> SUFFICES ASSUME reruns' = 0, NEW c \in Comments, NEW d \in Comments,
                        run'[c] = "waiting", report'[d] = "closed",
                        Subject(c)' = Subject(d)', Underway(c)'
                 PROVE  FALSE
      BY DEF NoneOvertaken
    <2>1. reruns = 0
      <3>1. reruns' >= reruns  BY RunSteps
      <3> QED BY <3>1 DEF IInv, TypeOK
    <2>2. CASE Underway(c)
      <3>1. Acted(c)  BY <2>2, ToldOnceSent DEF Underway, Told, Views
      <3>2. run[c] = "waiting"
        BY <2>1, <3>1, RunSteps DEF Forward, FirstRun, Acted, Active
      <3>3. report[d] = "closed"
        <4>1. ASSUME report[d] # "closed"  PROVE FALSE
          <5>1. run[d] = "waiting" /\ run'[d] = "reported"  BY <4>1, RunSteps
          <5>2. c = d  BY <3>2, <5>1 DEF Forward, Serial, Active
          <5> QED BY <5>1, <5>2
        <4> QED BY <4>1
      <3>4. Acted(d)  BY <3>3, ToldOnceSent DEF Told, Views
      <3>5. Subject(c)' = Subject(c) /\ Subject(d)' = Subject(d)
        BY <3>1, <3>4, SubjectStays
      <3> QED BY <2>1, <2>2, <3>2, <3>3, <3>5 DEF Forward, NoneOvertaken
    <2>3. CASE Exchange /\ held = c /\ "open" = Reply(c)'
      <3>1. PICK j \in Subject(c)' : IsOpen(j)'  BY <2>3 DEF Reply
      <3>2. Told(d, "closed")'  BY DEF Told
      <3>3. Finished(d)'  BY <1>3, <3>2 DEF ClosedIsTrue
      <3> QED BY <3>1, <3>3 DEF Finished
    <2> QED BY <2>2, <2>3, ToldByExchange DEF Views
  <1> QED BY <1>1, <1>2, <1>3, <1>4 DEF Forward

\* run_once and wait_for_response: although responses come in any order and
\* late ones stay, the owner never reads "closed" and then "open" of one job,
\* unless he re-runs a workflow.
THEOREM ReportsGoForwardHolds == Spec => ReportsGoForward
  <1>1. ASSUME IInv, IInv', Forward, [Next]_vars, reruns' = 0,
               NEW c \in Comments, NEW d \in Comments,
               report[c] # "open", report'[c] = "open", Subject(c)' = Subject(d)'
        PROVE  report[d] # "closed"
    <2> SUFFICES ASSUME report[d] = "closed"  PROVE FALSE
      OBVIOUS
    <2>1. run[c] = "waiting" /\ Underway(c) /\ reruns = 0
      <3>1. /\ run[c] = "waiting" /\ responses[<<c, "open">>] > 0
            /\ reruns' >= reruns
        BY <1>1, RunSteps
      <3> QED BY <1>1, <3>1 DEF Underway, IInv, TypeOK
    <2>2. Acted(c) /\ Acted(d)
      BY <1>1, <2>1, ToldOnceSent DEF Underway, Told, Views
    <2>3. Subject(c)' = Subject(c) /\ Subject(d)' = Subject(d)
      BY <1>1, <2>2, SubjectStays
    <2> QED BY <1>1, <2>1, <2>3 DEF Forward, NoneOvertaken
  <1> DEFINE GoesForward == reruns' = 0 => \A c, d \in Comments :
        report[c] # "open" /\ report'[c] = "open" /\ Subject(c)' = Subject(d)'
          => report[d] # "closed"
  <1>2. IInv /\ IInv' /\ Forward /\ [Next]_vars => [GoesForward]_vars
    BY <1>1
  <1>3. IInv /\ IInv' /\ Forward /\ [Next]_vars => Forward'
    BY StepForward
  <1>4. Spec => [][GoesForward]_vars
    <2> HIDE DEF GoesForward
    <2> QED BY <1>2, <1>3, InitForward, Invariant, PTL DEF Spec
  <1> QED BY <1>4 DEF ReportsGoForward

=============================================================================
