------------------------------ MODULE Lifecycle ------------------------------
(****************************************************************************)
(* What a guarded lifecycle promises: an entity is created in one of the    *)
(* initial states and from then on moves only along the edges of a graph.   *)
(* Several services of the server keep such a graph (applications, marks,   *)
(* module results, EC claims, appeals); each detailed module that models    *)
(* one of them is compared with an instance of this module.                 *)
(****************************************************************************)
CONSTANTS
  Entity,      \* the rows of the table
  Initial,     \* the states a row can be created in
  Graph,       \* [state -> the states it may be moved to]
  Missing      \* the state of a row that has not been created

VARIABLE state

Init == state = [e \in Entity |-> Missing]

Create(e) ==
  /\ state[e] = Missing
  /\ \E s \in Initial : state' = [state EXCEPT ![e] = s]

Move(e) ==
  /\ state[e] # Missing
  /\ \E s \in Graph[state[e]] : state' = [state EXCEPT ![e] = s]

Next == \E e \in Entity : Create(e) \/ Move(e)

Spec == Init /\ [][Next]_state
==============================================================================
