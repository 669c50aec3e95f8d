------------------------------- MODULE Outbox --------------------------------
(****************************************************************************)
(* What the event emitter promises the rest of the system: an emitted event *)
(* ends up confirmed, reported as failed, or lost with the process; it is   *)
(* confirmed only after the consumer processed it, and the consumer         *)
(* processes it at most Limit times, possibly after it was reported.        *)
(****************************************************************************)
EXTENDS Naturals

CONSTANTS Event, Limit

VARIABLES
  outcome,    \* [Event -> where the event stands]
  processed   \* [Event -> how often the consumer processed it]

Outcome == {"unsent", "pending", "confirmed", "reported", "lost"}

Init ==
  /\ outcome = [e \in Event |-> "unsent"]
  /\ processed = [e \in Event |-> 0]

Emit(e) ==
  /\ outcome[e] = "unsent"
  /\ outcome' = [outcome EXCEPT ![e] = "pending"]
  /\ UNCHANGED processed

Process(e) ==
  /\ outcome[e] # "unsent"
  /\ processed[e] < Limit
  /\ processed' = [processed EXCEPT ![e] = @ + 1]
  /\ \/ UNCHANGED outcome
     \/ /\ outcome[e] = "pending"
        /\ outcome' = [outcome EXCEPT ![e] = "confirmed"]

Report(e) ==
  /\ outcome[e] = "pending"
  /\ outcome' = [outcome EXCEPT ![e] = "reported"]
  /\ UNCHANGED processed

\* The process stops: what was pending may be lost, together.
Lose(E) ==
  /\ \A e \in E : outcome[e] = "pending"
  /\ outcome' = [e \in Event |-> IF e \in E THEN "lost" ELSE outcome[e]]
  /\ UNCHANGED processed

Next ==
  \/ \E e \in Event : Emit(e) \/ Process(e) \/ Report(e)
  \/ \E E \in SUBSET Event : Lose(E)

Spec == Init /\ [][Next]_<<outcome, processed>>
==============================================================================
