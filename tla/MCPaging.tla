------------------------------- MODULE MCPaging -------------------------------
(* Instances of Paging for TLC.                                             *)
EXTENDS Paging

TwoKeys == 1..2
===============================================================================
