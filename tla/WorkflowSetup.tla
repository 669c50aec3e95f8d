---------------------------- MODULE WorkflowSetup ----------------------------
(****************************************************************************)
(* src/scripts/provision-n8n-workflows.ts for two workflow files: each is   *)
(* created, or updated when n8n has one of its name, and then activated.    *)
(* A workflow that could not be created or updated is not activated.        *)
(****************************************************************************)
EXTENDS Scripts

ensureCredential == Each("try", <<"credential">>)

\* Whatever goes wrong is caught; it is neither a warning nor an error.
activateWorkflow(active) == Each("ignore", <<active>>)

main ==
  ensureCredential
  \o Each("skip", <<"workflow 1">>) \o activateWorkflow("active workflow 1")
  \o Each("skip", <<"workflow 2">>) \o activateWorkflow("active workflow 2")
==============================================================================
