------------------------------ MODULE Delivery -------------------------------
(****************************************************************************)
(* Delivery of domain events to n8n: emitEvent and fireWithRetry of         *)
(* utils/webhooks.ts.  Every service calls emitEvent after its write and    *)
(* goes on; the chain of attempts belongs to the process and is not stored. *)
(* A POST whose answer is lost or late may have been processed, and one     *)
(* that timed out may still be.                                             *)
(****************************************************************************)
EXTENDS Naturals, FiniteSets

CONSTANTS
  Event,
  MaxRetries,   \* MAX_RETRIES, 3 in the code
  MaxStops      \* bound: how often the process stops in a behaviour

ASSUME DeliveryAssumption ==
  MaxRetries \in Nat /\ MaxStops \in Nat

Attempt == 0..MaxRetries

VARIABLES
  chain,      \* [Event -> where its chain of attempts is]
  wire,       \* POSTs on their way, as <<event, attempt>>
  processed,  \* [Event -> how often the consumer processed it]
  stops,      \* history, for MaxStops
  excused     \* history: events hit by a stop or by a failed audit write

vars == <<chain, wire, processed, stops, excused>>

\* "Failing": the last attempt failed and the failure record is being written.
Chain ==
  UNION { [pc : {"unsent", "confirmed", "reported", "lost"}],
          [pc : {"posting", "backoff"}, attempt : Attempt],
          [pc : {"failing"}] }

TypeOK ==
  /\ chain \in [Event -> Chain]
  /\ wire \subseteq Event \X Attempt
  /\ processed \in [Event -> 0..(MaxRetries + 1)]
  /\ stops \in 0..MaxStops
  /\ excused \subseteq Event

Init ==
  /\ chain = [e \in Event |-> [pc |-> "unsent"]]
  /\ wire = {}
  /\ processed = [e \in Event |-> 0]
  /\ stops = 0
  /\ excused = {}

------------------------------------------------------------------------------
Post(e, k) ==
  /\ chain' = [chain EXCEPT ![e] = [pc |-> "posting", attempt |-> k]]
  /\ wire' = wire \cup {<<e, k>>}

\* emitEvent: the first POST leaves before emitEvent returns.
Emit(e) ==
  /\ chain[e].pc = "unsent"
  /\ Post(e, 0)
  /\ UNCHANGED <<processed, stops, excused>>

MutantNoLimit(k) == [pc |-> "backoff", attempt |-> 0]
MutantSilent(k) == IF k < MaxRetries THEN [pc |-> "backoff", attempt |-> k]
                   ELSE [pc |-> "lost"]
AfterFailure(k) == IF k < MaxRetries THEN [pc |-> "backoff", attempt |-> k]
                   ELSE [pc |-> "failing"]

MutantAnyAttempt(e, k) == chain[e].pc # "unsent"
Awaiting(e, k) == chain[e] = [pc |-> "posting", attempt |-> k]

\* The consumer processes a POST and answers 2xx, which reaches the emitter
\* only if it still waits for this attempt.
Process(e, k) ==
  /\ <<e, k>> \in wire
  /\ wire' = wire \ {<<e, k>>}
  /\ processed' = [processed EXCEPT ![e] = @ + 1]
  /\ \/ UNCHANGED chain
     \/ /\ Awaiting(e, k)
        /\ chain' = [chain EXCEPT ![e] = [pc |-> "confirmed"]]
  /\ UNCHANGED <<stops, excused>>

\* An answer other than 2xx, or a refused connection.
Refuse(e, k) ==
  /\ <<e, k>> \in wire
  /\ wire' = wire \ {<<e, k>>}
  /\ chain' = IF Awaiting(e, k) THEN [chain EXCEPT ![e] = AfterFailure(k)]
              ELSE chain
  /\ UNCHANGED <<processed, stops, excused>>

\* AbortSignal.timeout(5000)
MutantNoTimeout(e) == FALSE /\ UNCHANGED vars
Timeout(e) ==
  /\ chain[e].pc = "posting"
  /\ chain' = [chain EXCEPT ![e] = AfterFailure(chain[e].attempt)]
  /\ UNCHANGED <<wire, processed, stops, excused>>

\* The timer of the backoff fires.
Retry(e) ==
  /\ chain[e].pc = "backoff"
  /\ Post(e, chain[e].attempt + 1)
  /\ UNCHANGED <<processed, stops, excused>>

\* logWebhookFailure, which swallows the failure of its own write.
LogFailure(e) ==
  /\ chain[e].pc = "failing"
  /\ \/ /\ chain' = [chain EXCEPT ![e] = [pc |-> "reported"]]
        /\ UNCHANGED excused
     \/ /\ chain' = [chain EXCEPT ![e] = [pc |-> "lost"]]
        /\ excused' = excused \cup {e}
  /\ UNCHANGED <<wire, processed, stops>>

InProgress(e) == chain[e].pc \in {"posting", "backoff", "failing"}

\* gracefulShutdown closes the HTTP server and exits; a crash does no better.
Stop ==
  /\ stops < MaxStops
  /\ stops' = stops + 1
  /\ chain' = [e \in Event |-> IF InProgress(e) THEN [pc |-> "lost"]
                               ELSE chain[e]]
  /\ excused' = excused \cup {e \in Event : InProgress(e)}
  /\ UNCHANGED <<wire, processed>>

Continue(e) == Timeout(e) \/ Retry(e) \/ LogFailure(e)

Next ==
  \/ \E e \in Event : Emit(e) \/ Continue(e)
  \/ \E e \in Event, k \in Attempt : Process(e, k) \/ Refuse(e, k)
  \/ Stop

Spec == Init /\ [][Next]_vars

\* Timers fire and awaited writes end; nothing is assumed of the consumer.
FairSpec == Spec /\ \A e \in Event : WF_vars(Continue(e))

------------------------------------------------------------------------------
(* Properties                                                               *)

OnTheWire(e) == {k \in Attempt : <<e, k>> \in wire}

\* "3 retries (4 total attempts)": the attempts of an event are distinct POSTs,
\* so the consumer processes an event at most four times, counting those that
\* timed out and arrive late.
BoundedDuplication ==
  \A e \in Event :
    processed[e] + Cardinality(OnTheWire(e)) <= MaxRetries + 1

\* "Logs to AuditLog on final delivery failure": an event whose chain has ended
\* was processed or is in the audit log, unless the process stopped during the
\* chain or the audit write failed.
NoSilentLoss ==
  \A e \in Event \ excused :
    \/ chain[e].pc \in {"unsent", "reported"} \/ InProgress(e)
    \/ processed[e] > 0

\* The chain implements the promise of Outbox.
OutcomeOf(e) == IF InProgress(e) THEN "pending" ELSE chain[e].pc

outcome == [e \in Event |-> OutcomeOf(e)]

Promise == INSTANCE Outbox WITH Limit <- MaxRetries + 1

KeepsPromise == Promise!Spec

\* No chain waits for ever: every emitted event is settled although the
\* consumer may never answer.
EveryEventSettles ==
  \A e \in Event : InProgress(e) ~> ~ InProgress(e)
==============================================================================
