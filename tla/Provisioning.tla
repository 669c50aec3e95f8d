---------------------------- MODULE Provisioning -----------------------------
(****************************************************************************)
(* The scripts that set an installation up, run by an operator who starts   *)
(* them again from the top until they end well.  A script makes one call    *)
(* after the other, in no transaction: what a call has done stays done when *)
(* a later one fails.  Meanwhile the application may add rows of its own.   *)
(* (The parts of the specification carry the module's name, so that one     *)
(* module of proofs can be about this specification and others.)            *)
(****************************************************************************)
EXTENDS Naturals, Sequences, TLC

CONSTANTS AppTables,   \* tables whose rows the application adds in this instance
          MaxFaults    \* bound: calls that fail for no reason of their own

Lib == INSTANCE Scripts
Root == INSTANCE RootSeed
Server == INSTANCE ServerSeed
Realm == INSTANCE RealmSetup
Workflows == INSTANCE WorkflowSetup

Plan == [rootSeed |-> Root!main, serverSeed |-> Server!main,
         keycloak |-> Realm!main, workflows |-> Workflows!main]
Script == DOMAIN Plan

\* The scripts that set up the same thing.
Family(s) ==
  IF s \in {"rootSeed", "serverSeed"} THEN {"rootSeed", "serverSeed"} ELSE {s}

\* What a script makes by calls of any kind but these.
Makes(s, not) ==
  {Plan[s][i].on : i \in {j \in DOMAIN Plan[s] :
                            Plan[s][j].op \notin {"wipe", "clear"} \cup not}}
Things == UNION {{Plan[s][i].on : i \in DOMAIN Plan[s]} : s \in Script}

ASSUME ProvisioningAssumption ==
  /\ AppTables \cap UNION {Makes(s, {}) : s \in Script} = {}
  /\ MaxFaults \in Nat

VARIABLES script,   \* the script that runs, or ran last
          pc,       \* its next call
          status,   \* "idle", "running", "done" or "failed"
          there,    \* what the scripts have made
          live,     \* tables that hold rows of the application
          failed,   \* calls of this run whose failure did not stop it
          faults    \* failures still to come

provisioningVars == <<script, pc, status, there, live, failed, faults>>

ProvisioningInit ==
  /\ script \in Script /\ pc = 1 /\ status = "idle"
  /\ there = {} /\ live = {}
  /\ failed = {} /\ faults = MaxFaults

------------------------------------------------------------------------------
FirstCall == 1

\* The operator starts a script, from its first call.
Start ==
  /\ status # "running"
  /\ script' \in Family(script)
  /\ pc' = FirstCall /\ status' = "running"
  /\ failed' = {}
  /\ UNCHANGED <<there, live, faults>>

Call == Plan[script][pc]
Deletes == Call.op \in {"wipe", "clear"}

\* This run has printed a warning; it has recorded a failure; a call of it
\* has failed without a word.
warned == \E call \in failed : call.op = "try"
skipped == \E call \in failed : call.op = "skip"
unheard == \E call \in failed : call.op \in {"clear", "ignore"}

HasMore == pc < Len(Plan[script])

MutantEndsWell ==
  IF HasMore THEN pc' = pc + 1 /\ status' = status
  ELSE pc' = pc /\ status' = "done"

\* The script goes on, or ends: with exit code 1 if it has skipped something.
Advance ==
  IF HasMore THEN pc' = pc + 1 /\ status' = status
  ELSE /\ pc' = pc
       /\ status' = IF skipped' THEN "failed" ELSE "done"

MissingNeeds == Lib!Needs(Call.on) \ there

\* The database or the service refuses the call by itself.
Refused ==
  \/ Call.op = "wipe" /\ Lib!Blockers(Call.on) \cap (there \cup live) # {}
  \/ Call.op = "fill" /\ Call.on \in there
  \/ Call.op \in {"fill", "upsert"} /\ MissingNeeds # {}

\* A call is left out when one that it depends on has failed in this run,
\* whatever came of it: no roles for a user, no activation of a workflow.
Abandoned ==
  {c.on : c \in {call \in failed : call.op \in {"try", "skip"}}}
LeftOut ==
  /\ Call.op \in {"try", "skip", "ignore"}
  /\ MissingNeeds # {} \/ Lib!Needs(Call.on) \cap Abandoned # {}

Effect ==
  /\ there' = IF Deletes THEN there \ Lib!Doomed(Call.on) ELSE there \cup {Call.on}
  /\ live' = IF Deletes THEN live \ Lib!Doomed(Call.on) ELSE live

Perform ==
  /\ status = "running" /\ ~Refused /\ ~LeftOut
  /\ Effect
  /\ UNCHANGED <<script, failed, faults>>
  /\ Advance

LeaveOut ==
  /\ status = "running" /\ LeftOut
  /\ UNCHANGED <<script, there, live, failed, faults>>
  /\ Advance

Refuse ==
  /\ status = "running" /\ Refused
  /\ status' = "failed"
  /\ UNCHANGED <<script, pc, there, live, failed, faults>>

\* The connection breaks or the script is stopped, before or after the call
\* has had its effect.
BreakDown ==
  /\ status = "running" /\ ~Refused /\ ~LeftOut /\ faults > 0
  /\ faults' = faults - 1
  /\ status' = "failed"
  /\ Effect \/ UNCHANGED <<there, live>>
  /\ UNCHANGED <<script, pc, failed>>

\* The call is answered with an error that does not stop the script, or its
\* answer is lost.  Either way it may have had its effect: a workflow is there
\* and counts as skipped, and the next run finds it by its name.
FailSoftly ==
  /\ status = "running" /\ ~LeftOut /\ faults > 0
  /\ Call.op \in {"clear", "try", "skip", "ignore"}
  /\ faults' = faults - 1
  /\ failed' = failed \cup {Call}
  /\ Effect \/ UNCHANGED <<there, live>>
  /\ UNCHANGED script
  /\ Advance

\* The application adds rows, once the rows they refer to are there.
AddRows ==
  /\ \E t \in AppTables \ live :
       /\ Lib!Needs(t) \subseteq there \cup live
       /\ live' = live \cup {t}
  /\ UNCHANGED <<script, pc, status, there, failed, faults>>

ProvisioningNext ==
  \/ Start \/ Perform \/ LeaveOut \/ Refuse \/ BreakDown \/ FailSoftly \/ AddRows

\* A script that runs goes on; the operator repeats one that did not end well.
Fairness ==
  /\ WF_provisioningVars(Perform \/ LeaveOut \/ Refuse)
  /\ WF_provisioningVars(Start /\ status # "done")

ProvisioningSpec ==
  ProvisioningInit /\ [][ProvisioningNext]_provisioningVars /\ Fairness

------------------------------------------------------------------------------
(* The order of the calls                                                     *)

Deleting == {"wipe", "clear"}
Demanding == {"fill", "upsert"}
Lenient == {"try", "skip"}
Creating == Demanding \cup Lenient \cup {"ignore"}

\* What the calls of a script before its p-th act on, if they are of the kinds
\* ops; what they have deleted; what the scripts of a family can leave behind.
Acted(s, p, ops) ==
  {Plan[s][i].on : i \in {j \in DOMAIN Plan[s] : j < p /\ Plan[s][j].op \in ops}}
Cleared(s, p) == UNION {Lib!Doomed(t) : t \in Acted(s, p, Deleting)}
Leftovers(s) ==
  UNION {Acted(t, Len(Plan[t]) + 1, Creating) : t \in Family(s)}

\* The p-th call of a script comes where the references allow it: a script
\* deletes before it creates, it empties a table after the tables that keep it
\* and that some run may have filled, a row with an id of its own was deleted
\* and not created since, and what a call refers to is made before it.
CallFits(s, p) ==
  LET op == Plan[s][p].op
      on == Plan[s][p].on
  IN  /\ op \in Deleting \cup Creating
      /\ op \in Deleting => Acted(s, p, Creating) = {}
      /\ op = "wipe" =>
           /\ Lib!Blockers(on) \cap Leftovers(s) \subseteq Cleared(s, p)
           /\ Acted(s, p, {"clear", "ignore"}) = {}
      /\ op = "fill" => on \in Cleared(s, p) \ Acted(s, p, Creating)
      /\ op \in Demanding => Lib!Needs(on) \subseteq Acted(s, p, Demanding)
      /\ op \in Lenient \cup {"ignore"} =>
           Lib!Needs(on) \subseteq Acted(s, p, Demanding \cup Lenient)

PlanIsList(s) ==
  /\ Plan[s] \in Seq([op : Deleting \cup Creating, on : Things])
  /\ Plan[s] # <<>>

\* Every call of every script comes where the references of the schema, of the
\* realm and of n8n allow it (main and cleanup() of both seeds, the steps of
\* the set-up scripts), whatever has been run before.
CallIsInOrder == PlanIsList(script) /\ CallFits(script, pc)

\* cleanup() is in an order that the references allow: whatever an earlier
\* run, of either seed and broken off anywhere, has left, only a row of the
\* application can keep a table from being emptied.  And a creation finds
\* what it refers to and not itself, unless a deletion of this run failed
\* without a word (the DELETE of the realm).
OwnRowsNeverBlock ==
  status = "running" =>
    /\ Call.op = "wipe" => Lib!Blockers(Call.on) \cap there = {}
    /\ Refused => Call.op = "wipe" \/ unheard

\* A script that exits with 0 and without a warning has made all that it makes
\* by calls whose failure it tells, for every sequence of runs before, broken
\* off or with answers lost (main of each script).  Only a call that fails
\* without a word leaves more undone than that: the activation of a workflow
\* (activateWorkflow), the roles mapper (setupClient), or the DELETE of the
\* realm.
DoneIsComplete ==
  status = "done" /\ ~warned =>
    /\ Makes(script, {"ignore"}) \subseteq there
    /\ ~unheard => Makes(script, {}) \subseteq there

\* Once the application adds no more rows that stay, an operator who repeats
\* the scripts sees one end well, again and again.
Converges == <>[](live = {}) => []<>(status = "done")
==============================================================================
