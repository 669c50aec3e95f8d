------------------------------- MODULE MCAccess -------------------------------
(****************************************************************************)
(* The users of the instance are named for the role they were given, and    *)
(* their token brings what Keycloak adds to it.                             *)
(****************************************************************************)
EXTENDS Access

MCRoles == [u \in User |-> InToken(u)]
==============================================================================
