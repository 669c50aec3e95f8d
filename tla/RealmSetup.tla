----------------------------- MODULE RealmSetup ------------------------------
(****************************************************************************)
(* src/scripts/keycloak-setup.ts: the realm is deleted and made anew.       *)
(* Only the answers that the script looks at can stop it.                   *)
(****************************************************************************)
EXTENDS Scripts

\* The answer of DELETE is not looked at; POST must succeed.
setupRealm == Each("clear", <<"realm">>) \o Fill(<<"realm">>)

\* A refusal is a warning.
setupRequiredActions == Each("try", <<"required actions">>)

\* 409 is welcome for a role; the hierarchy must be set.
setupRoles == Each("upsert", <<"roles", "composites">>)

\* The answer to the roles mapper of the client is not looked at.
setupClient == Each("upsert", <<"client">>) \o Each("ignore", <<"mapper">>)

\* A refusal is a warning, and the next user is tried.
setupUsers == Each("try", <<"users", "role mappings">>)

MutantKeepsRealm ==
  Fill(<<"realm">>) \o setupRequiredActions \o setupRoles \o setupClient
  \o setupUsers
main ==
  setupRealm \o setupRequiredActions \o setupRoles \o setupClient
  \o setupUsers
==============================================================================
