----------------------------- MODULE MCDelivery ------------------------------
(* Instances of Delivery for TLC: events are independent but for a stop,    *)
(* which ends the chains of all of them at once, so two are enough.         *)
EXTENDS Delivery

CONSTANTS e1, e2

TwoEvents == {e1, e2}
==============================================================================
