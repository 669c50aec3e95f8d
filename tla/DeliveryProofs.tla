---------------------------- MODULE DeliveryProofs ---------------------------
(****************************************************************************)
(* Proofs about Delivery for any number of events, retries and stops.       *)
(****************************************************************************)
EXTENDS Delivery, FiniteSetTheorems, TLAPS

\* How many POSTs of an event have been made, at most.
Posted(e) ==
  IF chain[e].pc = "unsent" THEN 0
  ELSE IF chain[e].pc \in {"posting", "backoff"} THEN chain[e].attempt + 1
  ELSE MaxRetries + 1

\* Each POST made is processed or on its way at most once, and the next one
\* has a number of its own.
Counted(e) ==
  /\ processed[e] + Cardinality(OnTheWire(e)) <= Posted(e)
  /\ \A k \in OnTheWire(e) : k < Posted(e)
  /\ chain[e].pc = "backoff" => chain[e].attempt < MaxRetries
Settled(e) ==
  /\ chain[e].pc = "confirmed" => processed[e] > 0
  /\ chain[e].pc = "lost" => e \in excused

LooseType ==
  /\ chain \in [Event -> Chain]
  /\ wire \subseteq Event \X Attempt
  /\ processed \in [Event -> Nat]
  /\ stops \in 0..MaxStops
  /\ excused \subseteq Event

IInv ==
  /\ LooseType
  /\ \A e \in Event : Counted(e) /\ Settled(e)

LEMMA ChainShape ==
  ASSUME LooseType, NEW e \in Event
  PROVE  /\ chain[e] \in Chain
         /\ chain[e].pc \in {"unsent", "posting", "backoff", "failing",
                             "confirmed", "reported", "lost"}
         /\ chain[e].pc \in {"posting", "backoff"} => chain[e].attempt \in Attempt
         /\ Posted(e) \in 0..(MaxRetries + 1)
<1>1. chain[e] \in Chain
  BY DEF LooseType
<1>2. /\ chain[e].pc \in {"unsent", "posting", "backoff", "failing",
                          "confirmed", "reported", "lost"}
      /\ chain[e].pc \in {"posting", "backoff"} => chain[e].attempt \in Attempt
  BY <1>1 DEF Chain
<1> QED
  BY <1>1, <1>2, DeliveryAssumption DEF Posted, Attempt

LEMMA WireFinite ==
  ASSUME NEW e \in Event
  PROVE  IsFiniteSet(OnTheWire(e)) /\ Cardinality(OnTheWire(e)) \in Nat
<1>1. IsFiniteSet(Attempt)
  BY DeliveryAssumption, FS_Interval DEF Attempt
<1> QED
  BY <1>1, FS_Subset, FS_CardinalityType DEF OnTheWire

LEMMA AfterFailureShape ==
  ASSUME NEW k \in Attempt
  PROVE  /\ AfterFailure(k) \in Chain
         /\ \/ AfterFailure(k) = [pc |-> "backoff", attempt |-> k] /\ k < MaxRetries
            \/ AfterFailure(k) = [pc |-> "failing"] /\ k = MaxRetries
BY DeliveryAssumption DEF AfterFailure, Chain, Attempt

LEMMA InitIInv == Init => IInv
<1> SUFFICES ASSUME Init PROVE IInv
  OBVIOUS
<1>1. LooseType
  BY DeliveryAssumption DEF Init, LooseType, Chain
<1>2. ASSUME NEW e \in Event PROVE Counted(e) /\ Settled(e)
  <2>1. OnTheWire(e) = {}
    BY DEF Init, OnTheWire
  <2>2. chain[e].pc = "unsent" /\ processed[e] = 0
    BY DEF Init
  <2> QED
    BY <2>1, <2>2, FS_EmptySet DEF Counted, Settled, Posted
<1> QED
  BY <1>1, <1>2 DEF IInv

\* What a step that posts attempt k of event e must find.
LEMMA PostKeeps ==
  ASSUME IInv, NEW e \in Event, NEW k \in Attempt, Post(e, k),
         Posted(e) = k, UNCHANGED <<processed, stops, excused>>
  PROVE  IInv'
<1>1. /\ chain' = [chain EXCEPT ![e] = [pc |-> "posting", attempt |-> k]]
      /\ wire' = wire \cup {<<e, k>>}
  BY DEF Post
<1>2. LooseType'
  BY <1>1 DEF IInv, LooseType, Chain
<1>3. Counted(e)' /\ Settled(e)'
  <2>1. k \notin OnTheWire(e) /\ OnTheWire(e)' = OnTheWire(e) \cup {k}
    <3>1. \A j \in OnTheWire(e) : j \in Nat /\ j < k
      <4>1. Counted(e)
        BY DEF IInv
      <4>2. \A j \in OnTheWire(e) : j < k
        BY <4>1 DEF Counted
      <4> QED
        BY <4>2, DeliveryAssumption DEF OnTheWire, Attempt
    <3>2. k \notin OnTheWire(e)
      BY <3>1
    <3>3. OnTheWire(e)' = OnTheWire(e) \cup {k}
      BY <1>1 DEF OnTheWire
    <3> QED
      BY <3>2, <3>3
  <2>2. Cardinality(OnTheWire(e)') = Cardinality(OnTheWire(e)) + 1
    BY <2>1, WireFinite, FS_AddElement
  <2>3. chain'[e].pc = "posting" /\ chain'[e].attempt = k
    BY <1>1 DEF IInv, LooseType
  <2>4. Posted(e)' = k + 1
    BY <2>3 DEF Posted
  <2>5. \A j \in OnTheWire(e) : j \in Nat /\ j < k
    <3>1. Counted(e)
      BY DEF IInv
    <3>2. \A j \in OnTheWire(e) : j < k
      BY <3>1 DEF Counted
    <3> QED
      BY <3>2, DeliveryAssumption DEF OnTheWire, Attempt
  <2>6. processed[e] \in Nat /\ processed[e] + Cardinality(OnTheWire(e)) <= k
    BY DEF IInv, LooseType, Counted
  <2>7. k \in Nat
    BY DEF Attempt
  <2>8. processed'[e] + Cardinality(OnTheWire(e)') <= Posted(e)'
    BY <2>2, <2>4, <2>6, <2>7, WireFinite
  <2>9. \A j \in OnTheWire(e)' : j < Posted(e)'
    BY <2>1, <2>4, <2>5, <2>7
  <2> QED
    BY <2>3, <2>8, <2>9 DEF Counted, Settled
<1>4. ASSUME NEW f \in Event, f # e PROVE Counted(f)' /\ Settled(f)'
  <2>1. OnTheWire(f)' = OnTheWire(f) /\ chain'[f] = chain[f]
    BY <1>1, <1>4 DEF OnTheWire, IInv, LooseType
  <2> QED
    BY <2>1 DEF IInv, Counted, Settled, Posted
<1> QED
  BY <1>2, <1>3, <1>4 DEF IInv

\* A step of one chain that posts nothing: it may take a POST off the wire,
\* count it as processed, and move its chain on.
LEMMA ChainStepKeeps ==
  ASSUME IInv, NEW e \in Event, NEW c \in Chain, UNCHANGED stops,
         chain' = [chain EXCEPT ![e] = c],
         wire' \subseteq wire,
         \A f \in Event : f # e => OnTheWire(f)' = OnTheWire(f),
         processed' \in [Event -> Nat],
         \A f \in Event : f # e => processed'[f] = processed[f],
         excused \subseteq excused', excused' \subseteq Event,
         processed'[e] + Cardinality(OnTheWire(e)')
           <= processed[e] + Cardinality(OnTheWire(e)),
         c.pc # "unsent", Posted(e)' >= Posted(e),
         c.pc = "backoff" => c.attempt < MaxRetries,
         Settled(e)'
  PROVE  IInv'
<1>1. LooseType'
  BY DEF IInv, LooseType
<1>2. Counted(e)'
  <2>1. OnTheWire(e)' \subseteq OnTheWire(e)
    BY DEF OnTheWire
  <2>2. chain'[e] = c
    BY DEF IInv, LooseType
  <2>3. Posted(e) \in Nat /\ Posted(e)' \in Nat
    <3>1. Posted(e) \in Nat
      BY ChainShape, DeliveryAssumption DEF IInv
    <3>2. c.pc \in {"posting", "backoff"} => c.attempt \in Nat
      BY DEF Chain, Attempt
    <3> QED
      BY <2>2, <3>1, <3>2, DeliveryAssumption DEF Posted
  <2>4. \A j \in OnTheWire(e) : j \in Nat /\ j < Posted(e)
    BY DeliveryAssumption DEF IInv, Counted, OnTheWire, Attempt
  <2>5. Cardinality(OnTheWire(e)') \in Nat
    BY WireFinite, FS_Subset, FS_CardinalityType, <2>1
  <2>6. Counted(e)
    BY DEF IInv
  <2>7. processed[e] \in Nat /\ processed'[e] \in Nat
    BY DEF IInv, LooseType
  <2>8. processed'[e] + Cardinality(OnTheWire(e)') <= Posted(e)'
    BY <2>3, <2>5, <2>6, <2>7, WireFinite DEF Counted
  <2>9. \A k \in OnTheWire(e)' : k < Posted(e)'
    BY <2>1, <2>3, <2>4
  <2> QED
    BY <2>2, <2>8, <2>9 DEF Counted
<1>3. ASSUME NEW f \in Event, f # e PROVE Counted(f)' /\ Settled(f)'
  <2>1. chain'[f] = chain[f] /\ OnTheWire(f)' = OnTheWire(f)
    BY <1>3 DEF IInv, LooseType
  <2> QED
    BY <1>3, <2>1 DEF IInv, Counted, Settled, Posted
<1> QED
  BY <1>1, <1>2, <1>3 DEF IInv

\* Taking POST k off the wire.
LEMMA TakeOff ==
  ASSUME NEW e \in Event, NEW k \in Attempt, <<e, k>> \in wire,
         wire' = wire \ {<<e, k>>}
  PROVE  /\ Cardinality(OnTheWire(e)') = Cardinality(OnTheWire(e)) - 1
         /\ \A f \in Event : f # e => OnTheWire(f)' = OnTheWire(f)
<1>1. k \in OnTheWire(e) /\ OnTheWire(e)' = OnTheWire(e) \ {k}
  BY DEF OnTheWire
<1>2. \A f \in Event : f # e => OnTheWire(f)' = OnTheWire(f)
  BY DEF OnTheWire
<1> QED
  BY <1>1, <1>2, WireFinite, FS_RemoveElement

LEMMA PostedBefore ==
  ASSUME IInv, NEW e \in Event, NEW k \in Attempt, <<e, k>> \in wire
  PROVE  chain[e].pc # "unsent" /\ processed[e] < MaxRetries + 1
<1>1. k \in OnTheWire(e) /\ k \in Nat
  BY DEF OnTheWire, Attempt
<1>2. k < Posted(e) /\ processed[e] + Cardinality(OnTheWire(e)) <= Posted(e)
  BY <1>1 DEF IInv, Counted
<1>3. Cardinality(OnTheWire(e)) # 0
  BY <1>1, WireFinite, FS_EmptySet
<1>4. Posted(e) \in 0..(MaxRetries + 1) /\ processed[e] \in Nat
  BY ChainShape DEF IInv, LooseType
<1>5. chain[e].pc # "unsent"
  BY <1>1, <1>2 DEF Posted
<1>6. processed[e] < MaxRetries + 1
  BY <1>2, <1>3, <1>4, WireFinite, DeliveryAssumption
<1> QED
  BY <1>5, <1>6

\* A chain that leaves "posting" by AfterFailure has posted no less.
LEMMA FailureKeeps ==
  ASSUME IInv, NEW e \in Event, NEW k \in Attempt, Awaiting(e, k),
         chain' = [chain EXCEPT ![e] = AfterFailure(k)],
         UNCHANGED <<processed, stops, excused>>,
         wire' \subseteq wire,
         \A f \in Event : f # e => OnTheWire(f)' = OnTheWire(f),
         Cardinality(OnTheWire(e)') <= Cardinality(OnTheWire(e)),
         Cardinality(OnTheWire(e)') \in Nat
  PROVE  IInv'
<1> DEFINE c == AfterFailure(k)
<1>1. c \in Chain /\ c.pc \in {"backoff", "failing"}
      /\ (c.pc = "backoff" => c.attempt = k /\ k < MaxRetries)
  BY AfterFailureShape
<1>2. chain[e].pc = "posting" /\ chain[e].attempt = k
  BY DEF Awaiting
<1>3. chain'[e] = c
  BY DEF IInv, LooseType
<1>4. Posted(e) = k + 1
  BY <1>2 DEF Posted
<1>5. Posted(e)' >= Posted(e)
  <2>1. k \in Nat /\ k + 1 <= MaxRetries + 1
    BY DeliveryAssumption DEF Attempt
  <2>2. CASE c.pc = "backoff"
    BY <1>1, <1>3, <1>4, <2>1, <2>2 DEF Posted
  <2>3. CASE c.pc = "failing"
    BY <1>3, <1>4, <2>1, <2>3, DeliveryAssumption DEF Posted
  <2> QED
    BY <1>1, <2>2, <2>3
<1>6. Settled(e)'
  BY <1>1, <1>3 DEF Settled
<1>7. processed' \in [Event -> Nat] /\ processed[e] \in Nat /\ excused \subseteq Event
  BY DEF IInv, LooseType
<1>8. processed'[e] + Cardinality(OnTheWire(e)')
        <= processed[e] + Cardinality(OnTheWire(e))
  BY <1>7, WireFinite
<1> HIDE DEF c
<1> QED
  BY <1>1, <1>5, <1>6, <1>7, <1>8, ChainStepKeeps DEF c

LEMMA NextIInv == IInv /\ [Next]_vars => IInv'
<1> SUFFICES ASSUME IInv, [Next]_vars PROVE IInv'
  OBVIOUS
<1>t. /\ chain \in [Event -> Chain] /\ processed \in [Event -> Nat]
      /\ excused \subseteq Event
  BY DEF IInv, LooseType
<1>1. CASE UNCHANGED vars
  BY <1>1 DEF vars, IInv, LooseType, Counted, Settled, Posted, OnTheWire
<1>2. ASSUME NEW e \in Event, Emit(e) PROVE IInv'
  <2>1. Post(e, 0) /\ Posted(e) = 0 /\ UNCHANGED <<processed, stops, excused>>
    BY <1>2 DEF Emit, Posted
  <2>2. 0 \in Attempt
    BY DeliveryAssumption DEF Attempt
  <2> QED
    BY <2>1, <2>2, PostKeeps
<1>3. ASSUME NEW e \in Event, Retry(e) PROVE IInv'
  <2>1. PICK k \in Attempt : k = chain[e].attempt /\ k < MaxRetries
    BY <1>3, ChainShape DEF Retry, IInv, Counted
  <2>2. k + 1 \in Attempt
    BY <2>1, DeliveryAssumption DEF Attempt
  <2>3. Post(e, k + 1) /\ Posted(e) = k + 1 /\ UNCHANGED <<processed, stops, excused>>
    BY <1>3, <2>1 DEF Retry, Posted
  <2> QED
    BY <2>2, <2>3, PostKeeps
<1>4. ASSUME NEW e \in Event, NEW k \in Attempt, Process(e, k) PROVE IInv'
  <2>1. PICK c \in Chain : /\ chain' = [chain EXCEPT ![e] = c]
                           /\ c = chain[e] \/ c = [pc |-> "confirmed"]
    <3>1. CASE UNCHANGED chain
      BY <1>t, <3>1
    <3>2. CASE chain' = [chain EXCEPT ![e] = [pc |-> "confirmed"]]
      BY <3>2 DEF Chain
    <3> QED
      BY <1>4, <3>1, <3>2 DEF Process
  <2>2. /\ wire' = wire \ {<<e, k>>} /\ <<e, k>> \in wire
        /\ processed' = [processed EXCEPT ![e] = processed[e] + 1]
        /\ UNCHANGED <<stops, excused>>
    BY <1>4 DEF Process
  <2>3. /\ Cardinality(OnTheWire(e)') = Cardinality(OnTheWire(e)) - 1
        /\ \A f \in Event : f # e => OnTheWire(f)' = OnTheWire(f)
    BY <2>2, TakeOff
  <2>4. chain'[e] = c /\ processed'[e] = processed[e] + 1
    BY <1>t, <2>1, <2>2
  <2>5. processed' \in [Event -> Nat]
        /\ \A f \in Event : f # e => processed'[f] = processed[f]
    BY <1>t, <2>2
  <2>6. chain[e].pc # "unsent" /\ Counted(e) /\ Settled(e)
    BY <2>2, PostedBefore DEF IInv
  <2>7. Posted(e)' >= Posted(e)
    <3>1. CASE c = chain[e]
      <4>1. Posted(e)' = Posted(e) /\ Posted(e) \in 0..(MaxRetries + 1)
        BY <2>4, <3>1, ChainShape DEF Posted, IInv
      <4> QED
        BY <4>1, DeliveryAssumption
    <3>2. CASE c = [pc |-> "confirmed"]
      <4>1. Posted(e)' = MaxRetries + 1
        BY <2>4, <3>2 DEF Posted
      <4> QED
        BY <4>1, ChainShape, DeliveryAssumption DEF IInv
    <3> QED
      BY <2>1, <3>1, <3>2
  <2>8. Settled(e)' /\ c.pc # "unsent" /\ (c.pc = "backoff" => c.attempt < MaxRetries)
    BY <1>t, <2>1, <2>2, <2>4, <2>6 DEF Settled, Counted
  <2>9. processed'[e] + Cardinality(OnTheWire(e)')
          <= processed[e] + Cardinality(OnTheWire(e))
    BY <1>t, <2>3, <2>4, WireFinite
  <2> QED
    BY <1>t, <2>1, <2>2, <2>3, <2>5, <2>7, <2>8, <2>9, ChainStepKeeps
<1>5. ASSUME NEW e \in Event, NEW k \in Attempt, Refuse(e, k) PROVE IInv'
  <2>1. /\ wire' = wire \ {<<e, k>>} /\ <<e, k>> \in wire
        /\ UNCHANGED <<processed, stops, excused>>
    BY <1>5 DEF Refuse
  <2>2. /\ Cardinality(OnTheWire(e)') = Cardinality(OnTheWire(e)) - 1
        /\ \A f \in Event : f # e => OnTheWire(f)' = OnTheWire(f)
    BY <2>1, TakeOff
  <2>3. Cardinality(OnTheWire(e)) \in Nat /\ Cardinality(OnTheWire(e)) # 0
    <3>1. k \in OnTheWire(e)
      BY <2>1 DEF OnTheWire
    <3> QED
      BY <3>1, WireFinite, FS_EmptySet
  <2>4. CASE Awaiting(e, k)
    <3>1. chain' = [chain EXCEPT ![e] = AfterFailure(k)] /\ wire' \subseteq wire
      BY <1>5, <2>1, <2>4 DEF Refuse
    <3>2. /\ Cardinality(OnTheWire(e)') <= Cardinality(OnTheWire(e))
          /\ Cardinality(OnTheWire(e)') \in Nat
      BY <2>2, <2>3
    <3> QED
      BY <2>1, <2>2, <2>4, <3>1, <3>2, FailureKeeps
  <2>5. CASE ~ Awaiting(e, k)
    <3>1. chain' = [chain EXCEPT ![e] = chain[e]] /\ UNCHANGED chain
      BY <1>5, <1>t, <2>5 DEF Refuse
    <3>2. chain[e].pc # "unsent" /\ Counted(e) /\ Settled(e)
      BY <2>1, PostedBefore DEF IInv
    <3>3. Posted(e)' >= Posted(e) /\ Settled(e)'
      <4>1. Posted(e)' = Posted(e) /\ Posted(e) \in 0..(MaxRetries + 1)
        BY <3>1, ChainShape DEF Posted, IInv
      <4> QED
        BY <3>1, <3>2, <4>1, <2>1, DeliveryAssumption DEF Settled
    <3>4. PICK c \in Chain : c = chain[e]
      BY <1>t
    <3>5. c.pc = "backoff" => c.attempt < MaxRetries
      BY <3>2, <3>4 DEF Counted
    <3>6. processed'[e] + Cardinality(OnTheWire(e)')
            <= processed[e] + Cardinality(OnTheWire(e))
      BY <1>t, <2>1, <2>2, <2>3
    <3> QED
      BY <1>t, <2>1, <2>2, <3>1, <3>2, <3>3, <3>4, <3>5, <3>6, ChainStepKeeps
  <2> QED
    BY <2>4, <2>5
<1>6. ASSUME NEW e \in Event, Timeout(e) PROVE IInv'
  <2>1. PICK k \in Attempt : Awaiting(e, k) /\ k = chain[e].attempt
    <3>1. chain[e] \in Chain /\ chain[e].pc = "posting"
      BY <1>t, <1>6 DEF Timeout
    <3>2. chain[e] = [pc |-> "posting", attempt |-> chain[e].attempt]
          /\ chain[e].attempt \in Attempt
      BY <3>1 DEF Chain
    <3> QED
      BY <3>2 DEF Awaiting
  <2>2. /\ chain' = [chain EXCEPT ![e] = AfterFailure(k)]
        /\ UNCHANGED <<wire, processed, stops, excused>>
    BY <1>6, <2>1 DEF Timeout
  <2>3. \A f \in Event : OnTheWire(f)' = OnTheWire(f)
    BY <2>2 DEF OnTheWire
  <2> QED
    <3>1. /\ Cardinality(OnTheWire(e)') <= Cardinality(OnTheWire(e))
          /\ Cardinality(OnTheWire(e)') \in Nat
      BY <2>3, WireFinite
    <3>2. wire' \subseteq wire
      BY <2>2
    <3> QED
      BY <2>1, <2>2, <2>3, <3>1, <3>2, FailureKeeps
<1>7. ASSUME NEW e \in Event, LogFailure(e) PROVE IInv'
  <2>1. PICK c \in Chain : /\ chain' = [chain EXCEPT ![e] = c]
                           /\ \/ c = [pc |-> "reported"] /\ UNCHANGED excused
                              \/ /\ c = [pc |-> "lost"]
                                 /\ excused' = excused \cup {e}
    BY <1>7 DEF LogFailure, Chain
  <2>2. UNCHANGED <<wire, processed, stops>> /\ chain[e].pc = "failing"
    BY <1>7 DEF LogFailure
  <2>3. \A f \in Event : OnTheWire(f)' = OnTheWire(f)
    BY <2>2 DEF OnTheWire
  <2>4. chain'[e] = c
    BY <1>t, <2>1
  <2>5. Posted(e) = MaxRetries + 1 /\ Posted(e)' = MaxRetries + 1
    BY <2>1, <2>2, <2>4 DEF Posted
  <2>6. Settled(e)' /\ c.pc # "unsent" /\ c.pc # "backoff"
    BY <2>1, <2>4 DEF Settled
  <2>7. processed'[e] + Cardinality(OnTheWire(e)')
          <= processed[e] + Cardinality(OnTheWire(e))
    BY <1>t, <2>2, <2>3, WireFinite
  <2>8. excused \subseteq excused' /\ excused' \subseteq Event /\ Posted(e)' >= Posted(e)
    BY <1>t, <2>1, <2>5, DeliveryAssumption
  <2> QED
    BY <1>t, <2>1, <2>2, <2>3, <2>6, <2>7, <2>8, ChainStepKeeps
<1>8. CASE Stop
  <2>1. /\ UNCHANGED <<wire, processed>>
        /\ excused' = excused \cup {e \in Event : InProgress(e)}
        /\ stops' = stops + 1 /\ stops < MaxStops
    BY <1>8 DEF Stop
  <2>2. \A e \in Event : chain'[e] = IF InProgress(e) THEN [pc |-> "lost"]
                                     ELSE chain[e]
    BY <1>8 DEF Stop
  <2>3. chain' \in [Event -> Chain]
    BY <1>8, <1>t DEF Stop, Chain
  <2>4. LooseType'
    BY <2>1, <2>3, DeliveryAssumption DEF IInv, LooseType
  <2>5. ASSUME NEW e \in Event PROVE Counted(e)' /\ Settled(e)'
    <3>1. OnTheWire(e)' = OnTheWire(e) /\ Counted(e) /\ Settled(e)
      BY <2>1 DEF OnTheWire, IInv
    <3>2. CASE ~ InProgress(e)
      BY <2>1, <2>2, <3>1, <3>2 DEF Counted, Settled, Posted
    <3>3. CASE InProgress(e)
      <4>1. chain'[e] = [pc |-> "lost"] /\ e \in excused'
        BY <2>1, <2>2, <3>3
      <4>2. Posted(e)' = MaxRetries + 1 /\ Posted(e) \in 0..(MaxRetries + 1)
        BY <4>1, ChainShape DEF Posted, IInv
      <4>3. processed[e] \in Nat /\ \A k \in OnTheWire(e) : k \in Nat
        BY <1>t DEF OnTheWire, Attempt
      <4>4. processed'[e] + Cardinality(OnTheWire(e)') <= Posted(e)'
        BY <2>1, <3>1, <4>2, <4>3, WireFinite, DeliveryAssumption DEF Counted
      <4>5. \A k \in OnTheWire(e)' : k < Posted(e)'
        BY <3>1, <4>2, <4>3, DeliveryAssumption DEF Counted
      <4> QED
        BY <4>1, <4>4, <4>5 DEF Counted, Settled
    <3> QED
      BY <3>2, <3>3
  <2> QED
    BY <2>4, <2>5 DEF IInv
<1> QED
  BY <1>1, <1>2, <1>3, <1>4, <1>5, <1>6, <1>7, <1>8 DEF Next, Continue

LEMMA IInvStrong == IInv => TypeOK /\ BoundedDuplication /\ NoSilentLoss
<1> SUFFICES ASSUME IInv PROVE TypeOK /\ BoundedDuplication /\ NoSilentLoss
  OBVIOUS
<1>1. ASSUME NEW e \in Event
      PROVE  /\ processed[e] + Cardinality(OnTheWire(e)) <= MaxRetries + 1
             /\ processed[e] \in 0..(MaxRetries + 1)
  <2>1. Posted(e) \in 0..(MaxRetries + 1) /\ processed[e] \in Nat /\ Counted(e)
    BY ChainShape DEF IInv, LooseType
  <2> QED
    BY <2>1, WireFinite, DeliveryAssumption DEF Counted
<1>2. TypeOK
  BY <1>1 DEF IInv, LooseType, TypeOK
<1>3. ASSUME NEW e \in Event \ excused
      PROVE  \/ chain[e].pc \in {"unsent", "reported"} \/ InProgress(e)
             \/ processed[e] > 0
  BY ChainShape DEF IInv, Settled, InProgress
<1> QED
  BY <1>1, <1>2, <1>3 DEF BoundedDuplication, NoSilentLoss

\* Chains, the wire and the counts keep their types; in particular no event is
\* processed more than MaxRetries + 1 times.
THEOREM TypeCorrect == Spec => []TypeOK
BY InitIInv, NextIInv, IInvStrong, PTL DEF Spec

\* An event is processed at most MaxRetries + 1 times, counting the attempts
\* still under way.
THEOREM DuplicationIsBounded == Spec => []BoundedDuplication
BY InitIInv, NextIInv, IInvStrong, PTL DEF Spec

\* Only a stop or a failed audit write makes an unprocessed event disappear.
THEOREM LossIsExcused == Spec => []NoSilentLoss
BY InitIInv, NextIInv, IInvStrong, PTL DEF Spec

------------------------------------------------------------------------------
(* Refinement of Outbox                                                     *)

LEMMA OutcomeStep ==
  ASSUME NEW e \in Event, \A f \in Event : f # e => chain'[f] = chain[f]
  PROVE  outcome' = [outcome EXCEPT ![e] = OutcomeOf(e)']
BY DEF outcome, OutcomeOf, InProgress

LEMMA PromiseInit == Init => Promise!Init
BY DEF Init, Promise!Init, outcome, OutcomeOf, InProgress

LEMMA PromiseStep ==
  IInv /\ [Next]_vars => [Promise!Next]_<<outcome, processed>>
<1> SUFFICES ASSUME IInv, [Next]_vars
             PROVE  Promise!Next \/ UNCHANGED <<outcome, processed>>
  OBVIOUS
<1>t. chain \in [Event -> Chain] /\ processed \in [Event -> Nat]
  BY DEF IInv, LooseType
<1>o. \A e \in Event : outcome[e] = OutcomeOf(e)
  BY DEF outcome
<1>1. CASE UNCHANGED vars
  BY <1>1 DEF vars, outcome, OutcomeOf, InProgress
<1>2. ASSUME NEW e \in Event, Emit(e) PROVE Promise!Next
  <2>1. outcome' = [outcome EXCEPT ![e] = "pending"]
    <3>1. /\ chain'[e].pc = "posting"
          /\ \A f \in Event : f # e => chain'[f] = chain[f]
      BY <1>2, <1>t DEF Emit, Post
    <3>2. OutcomeOf(e)' = "pending"
      BY <3>1 DEF OutcomeOf, InProgress
    <3> QED
      BY <3>1, <3>2, OutcomeStep
  <2>2. outcome[e] = "unsent" /\ UNCHANGED processed
    BY <1>2, <1>o DEF Emit, OutcomeOf, InProgress
  <2> QED
    BY <2>1, <2>2 DEF Promise!Next, Promise!Emit
<1>3. ASSUME NEW e \in Event, NEW k \in Attempt, AfterFailure(k) \in Chain,
             chain' = [chain EXCEPT ![e] = AfterFailure(k)], InProgress(e),
             UNCHANGED processed
      PROVE  UNCHANGED <<outcome, processed>>
  <2>1. AfterFailure(k).pc \in {"backoff", "failing"}
    BY AfterFailureShape
  <2>2. outcome' = [outcome EXCEPT ![e] = "pending"]
    <3>1. /\ chain'[e].pc \in {"backoff", "failing"}
          /\ \A f \in Event : f # e => chain'[f] = chain[f]
      BY <1>3, <1>t, <2>1
    <3>2. OutcomeOf(e)' = "pending"
      BY <3>1 DEF OutcomeOf, InProgress
    <3> QED
      BY <3>1, <3>2, OutcomeStep
  <2>3. outcome[e] = "pending"
    BY <1>3, <1>o DEF OutcomeOf
  <2> QED
    BY <1>3, <2>2, <2>3 DEF outcome
<1>4. ASSUME NEW e \in Event, Retry(e) PROVE UNCHANGED <<outcome, processed>>
  <2>1. outcome' = [outcome EXCEPT ![e] = "pending"]
    <3>1. /\ chain'[e].pc = "posting"
          /\ \A f \in Event : f # e => chain'[f] = chain[f]
      BY <1>4, <1>t DEF Retry, Post
    <3>2. OutcomeOf(e)' = "pending"
      BY <3>1 DEF OutcomeOf, InProgress
    <3> QED
      BY <3>1, <3>2, OutcomeStep
  <2>2. outcome[e] = "pending" /\ UNCHANGED processed
    BY <1>4, <1>o DEF Retry, OutcomeOf, InProgress
  <2> QED
    BY <2>1, <2>2 DEF outcome
<1>5. ASSUME NEW e \in Event, NEW k \in Attempt, Process(e, k)
      PROVE  Promise!Next
  <2>1. /\ <<e, k>> \in wire
        /\ processed' = [processed EXCEPT ![e] = processed[e] + 1]
    BY <1>5 DEF Process
  <2>2. chain[e].pc # "unsent" /\ processed[e] < MaxRetries + 1
    BY <2>1, PostedBefore
  <2>3. outcome[e] # "unsent"
    BY <2>2, <1>o DEF OutcomeOf
  <2>4. \/ UNCHANGED outcome
        \/ outcome[e] = "pending" /\ outcome' = [outcome EXCEPT ![e] = "confirmed"]
    <3>1. CASE UNCHANGED chain
      BY <3>1 DEF outcome, OutcomeOf, InProgress
    <3>2. CASE /\ Awaiting(e, k)
               /\ chain' = [chain EXCEPT ![e] = [pc |-> "confirmed"]]
      <4>1. outcome' = [outcome EXCEPT ![e] = "confirmed"]
        <5>1. /\ chain'[e].pc = "confirmed"
              /\ \A f \in Event : f # e => chain'[f] = chain[f]
          BY <3>2, <1>t
        <5>2. OutcomeOf(e)' = "confirmed"
          BY <5>1 DEF OutcomeOf, InProgress
        <5> QED
          BY <5>1, <5>2, OutcomeStep
      <4>2. outcome[e] = "pending"
        BY <3>2, <1>o DEF Awaiting, OutcomeOf, InProgress
      <4> QED
        BY <4>1, <4>2
    <3> QED
      BY <1>5, <3>1, <3>2 DEF Process
  <2> QED
    BY <2>1, <2>2, <2>3, <2>4 DEF Promise!Next, Promise!Process
<1>6. ASSUME NEW e \in Event, NEW k \in Attempt, Refuse(e, k)
      PROVE  UNCHANGED <<outcome, processed>>
  <2>1. CASE Awaiting(e, k)
    <3>1. /\ chain' = [chain EXCEPT ![e] = AfterFailure(k)]
          /\ UNCHANGED processed
      BY <1>6, <2>1 DEF Refuse
    <3>2. InProgress(e)
      BY <2>1 DEF Awaiting, InProgress
    <3> QED
      BY <1>3, <3>1, <3>2, AfterFailureShape
  <2>2. CASE ~ Awaiting(e, k)
    BY <1>6, <2>2 DEF Refuse, outcome, OutcomeOf, InProgress
  <2> QED
    BY <2>1, <2>2
<1>7. ASSUME NEW e \in Event, Timeout(e) PROVE UNCHANGED <<outcome, processed>>
  <2>1. chain[e].attempt \in Attempt
    BY <1>7, ChainShape DEF Timeout, IInv
  <2> QED
    BY <1>3, <1>7, <2>1, AfterFailureShape DEF Timeout, InProgress
<1>8. ASSUME NEW e \in Event, LogFailure(e) PROVE Promise!Next
  <2>1. outcome[e] = "pending" /\ UNCHANGED processed
    BY <1>8, <1>o DEF LogFailure, OutcomeOf, InProgress
  <2>2. CASE chain' = [chain EXCEPT ![e] = [pc |-> "reported"]]
    <3>1. outcome' = [outcome EXCEPT ![e] = "reported"]
      <4>1. /\ chain'[e].pc = "reported"
            /\ \A f \in Event : f # e => chain'[f] = chain[f]
        BY <2>2, <1>t
      <4>2. OutcomeOf(e)' = "reported"
        BY <4>1 DEF OutcomeOf, InProgress
      <4> QED
        BY <4>1, <4>2, OutcomeStep
    <3> QED
      BY <2>1, <3>1 DEF Promise!Next, Promise!Report
  <2>3. CASE chain' = [chain EXCEPT ![e] = [pc |-> "lost"]]
    <3>1. outcome' = [outcome EXCEPT ![e] = "lost"]
      <4>1. /\ chain'[e].pc = "lost"
            /\ \A f \in Event : f # e => chain'[f] = chain[f]
        BY <2>3, <1>t
      <4>2. OutcomeOf(e)' = "lost"
        BY <4>1 DEF OutcomeOf, InProgress
      <4> QED
        BY <4>1, <4>2, OutcomeStep
    <3>2. outcome' = [f \in Event |-> IF f \in {e} THEN "lost" ELSE outcome[f]]
      BY <3>1 DEF outcome
    <3>3. Promise!Lose({e})
      BY <2>1, <3>2 DEF Promise!Lose
    <3> QED
      BY <3>3 DEF Promise!Next
  <2> QED
    BY <1>8, <2>2, <2>3 DEF LogFailure
<1>9. CASE Stop
  <2> DEFINE E == {e \in Event : InProgress(e)}
  <2>1. \A e \in E : outcome[e] = "pending"
    BY <1>o DEF OutcomeOf
  <2>2. ASSUME NEW f \in Event
        PROVE  OutcomeOf(f)' = IF f \in E THEN "lost" ELSE outcome[f]
    <3>1. chain'[f] = IF InProgress(f) THEN [pc |-> "lost"] ELSE chain[f]
      BY <1>9 DEF Stop
    <3> QED
      BY <3>1, <1>o DEF OutcomeOf, InProgress
  <2>3. outcome' = [f \in Event |-> IF f \in E THEN "lost" ELSE outcome[f]]
    BY <2>2 DEF outcome
  <2>4. UNCHANGED processed
    BY <1>9 DEF Stop
  <2>5. Promise!Lose(E)
    BY <2>1, <2>3, <2>4 DEF Promise!Lose
  <2> QED
    BY <2>5 DEF Promise!Next
<1> QED
  BY <1>1, <1>2, <1>4, <1>5, <1>6, <1>7, <1>8, <1>9 DEF Next, Continue

\* The chains of attempts implement Outbox: a settled outcome never changes,
\* and the consumer never processes an event that was not emitted.
THEOREM ImplementsOutbox == Spec => KeepsPromise
BY InitIInv, NextIInv, PromiseInit, PromiseStep, PTL
   DEF Spec, KeepsPromise, Promise!Spec
==============================================================================
