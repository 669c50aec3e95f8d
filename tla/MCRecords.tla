------------------------------ MODULE MCRecords ------------------------------
(****************************************************************************)
(* Records for TLC: every service, two requests at a time.                  *)
(****************************************************************************)
EXTENDS Records

AllServices == Service
Symmetric == Permutations(Requests)
==============================================================================
