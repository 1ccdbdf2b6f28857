----------------------------- MODULE OpsJobSpec -----------------------------
(***************************************************************************)
(* What the operations worker promises about one production job, with no   *)
(* table, process, thread or file: production is changed only while the    *)
(* job is worked on, work is never resumed once interrupted, and the way   *)
(* out is a whole success, a complete undo, or a call for an operator.     *)
(*                                                                         *)
(* The promise is the state machine of docs/architecture.md, except for    *)
(* Abandon: a job interrupted after its mutation began and then cancelled  *)
(* while it is queued for recovery ends with its effect left in place.     *)
(***************************************************************************)
CONSTANT Keys

VARIABLES
  phase,    \* where each job stands
  effect    \* how much of its change production carries

vars == <<phase, effect>>

Open   == {"waiting", "working", "handedOff", "recovering"}
Closed == {"succeeded", "undone", "attention", "abandoned"}
Phases == Open \cup Closed \cup {"unknown"}
Effects == {"none", "partial", "full"}

Below(e, f) ==
  \/ e = "none" /\ f \in {"partial", "full"}
  \/ e = "partial" /\ f = "full"

Init ==
  /\ phase = [k \in Keys |-> "unknown"]
  /\ effect = [k \in Keys |-> "none"]

Move(k, from, to) ==
  /\ phase[k] \in from
  /\ phase' = [phase EXCEPT ![k] = to]

\* One open job at a time.
Accept(k) ==
  /\ \A j \in Keys : phase[j] \notin Open
  /\ Move(k, {"unknown"}, "waiting")
  /\ UNCHANGED effect

Refuse(k) == Move(k, {"waiting"}, "undone") /\ UNCHANGED effect

Begin(k) == Move(k, {"waiting"}, "working") /\ UNCHANGED effect

Work(k) ==
  /\ phase[k] = "working"
  /\ \E e \in Effects : Below(effect[k], e) /\ effect' = [effect EXCEPT ![k] = e]
  /\ UNCHANGED phase

HandOff(k) ==
  /\ effect[k] = "full"
  /\ Move(k, {"working"}, "handedOff")
  /\ UNCHANGED effect

Commit(k) ==
  /\ effect[k] = "full"
  /\ Move(k, {"working", "handedOff"}, "succeeded")
  /\ UNCHANGED effect

Interrupt(k) == Move(k, {"working"}, "recovering") /\ UNCHANGED effect

Undo(k) ==
  /\ \E e \in Effects : Below(e, effect[k]) /\ effect' = [effect EXCEPT ![k] = e]
  /\ Move(k, {"handedOff", "recovering"}, "recovering")

Settle(k) ==
  /\ effect[k] = "none"
  /\ Move(k, {"recovering"}, "undone")
  /\ UNCHANGED effect

Escalate(k) == Move(k, {"handedOff", "recovering"}, "attention") /\ UNCHANGED effect

Abandon(k) == Move(k, {"handedOff", "recovering"}, "abandoned") /\ UNCHANGED effect

Step(k) ==
  \/ Accept(k) \/ Refuse(k) \/ Begin(k) \/ Work(k) \/ HandOff(k) \/ Commit(k)
  \/ Interrupt(k) \/ Undo(k) \/ Settle(k) \/ Escalate(k) \/ Abandon(k)

Next == \E k \in Keys : Step(k)

Spec == Init /\ [][Next]_vars

=============================================================================
