--------------------------- MODULE MCProvisioning ----------------------------
(****************************************************************************)
(* Provisioning for TLC: an appeal, which no cleanup deletes, and a         *)
(* submission, which both do.                                               *)
(****************************************************************************)
EXTENDS Provisioning

SomeRows == {"Appeal", "Submission"}
==============================================================================
