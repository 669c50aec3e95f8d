-------------------------- MODULE AdmissionsProofs ---------------------------
(****************************************************************************)
(* Proofs about Admissions for any number of applications, conditions and   *)
(* concurrent requests.                                                     *)
(****************************************************************************)
EXTENDS Admissions, TLAPS

\* The constant sets of the module, none of which the proofs look into.
LEMMA StatusFacts ==
  /\ Missing \notin ApplicationStatus
  /\ Unset \notin ApplicationStatus
  /\ \A s \in ApplicationStatus : ValidTransitions[s] \subseteq ApplicationStatus
  /\ OfferStates \subseteq ApplicationStatus
  /\ DecidedStates \subseteq ApplicationStatus
BY DEF Missing, Unset, ApplicationStatus, ValidTransitions, OfferStates,
       DecidedStates

LEMMA ParsedStatusType ==
  ASSUME NEW s \in ConditionTo
  PROVE  ParsedStatus(s) \in ConditionStatus
BY BodiesAssumption DEF ParsedStatus, ConditionStatus, Unset

\* A request that has not ended waits at exactly one place, and carries what
\* that place needs.
LEMMA RequestShape ==
  ASSUME TypeOK, NEW r \in Request
  PROVE  /\ req[r] \in RequestState
         /\ req[r].pc = "AnnounceCreated" => req[r].app \in Application
         /\ req[r].pc = "WriteApp" =>
              /\ req[r].app \in Application
              /\ req[r].prev \in ApplicationStatus
              /\ req[r].new \in ApplicationStatus \cup {Unset}
              /\ req[r].auto \in BOOLEAN
         /\ req[r].pc = "Announce" =>
              /\ req[r].app \in Application
              /\ req[r].prev \in ApplicationStatus
              /\ req[r].result \in ApplicationStatus
         /\ req[r].pc = "WriteCond" =>
              /\ req[r].cond \in Condition
              /\ req[r].app \in Application \cup {NoApp}
              /\ req[r].status \in ConditionStatus
         /\ req[r].pc = "DeleteCond" =>
              /\ req[r].cond \in Condition
              /\ req[r].app \in Application
         /\ req[r].pc \in {"Evaluate", "Promote"} => req[r].app \in Application
BY DEF TypeOK, RequestState

------------------------------------------------------------------------------
LEMMA InitTypeOK == Init => TypeOK
BY DEF Init, TypeOK, RequestState, ConditionRow, Idle

LEMMA NextTypeOK == TypeOK /\ RowsExist /\ [Next]_vars => TypeOK'
<1> SUFFICES ASSUME TypeOK, RowsExist, [Next]_vars PROVE TypeOK'
  OBVIOUS
<1>1. CASE UNCHANGED vars
  BY <1>1 DEF vars, table, events, history, lateness, TypeOK
<1>2. ASSUME NEW r \in Request, NEW a \in Application, CreateApplication(r, a)
      PROVE  TypeOK'
  BY <1>2 DEF CreateApplication, TypeOK, RequestState, ApplicationStatus,
              events, history, lateness
<1>3. ASSUME NEW r \in Request, NEW a \in Application, RemoveApplication(r, a)
      PROVE  TypeOK'
  BY <1>3 DEF RemoveApplication, TypeOK, events, history, lateness
<1>4. ASSUME NEW r \in Request, NEW a \in Application, NEW s \in PatchedTo,
             PatchApplication(r, a, s)
      PROVE  TypeOK'
  BY <1>4, BodiesAssumption
  DEF PatchApplication, TypeOK, RequestState, table, events, history, lateness
<1>5. ASSUME NEW r \in Request, NEW c \in Condition, NEW a \in Application,
             NEW s \in ConditionTo, CreateCondition(r, c, a, s)
      PROVE  TypeOK'
  BY <1>5, ParsedStatusType
  DEF CreateCondition, RevertsOthers, TypeOK, RequestState, ConditionRow,
      events
<1>6. ASSUME NEW r \in Request, NEW c \in Condition,
             NEW a \in Application \cup {NoApp}, NEW s \in ConditionTo,
             PatchCondition(r, c, a, s)
      PROVE  TypeOK'
  BY <1>6, ParsedStatusType
  DEF PatchCondition, TypeOK, RequestState, table, events, history, lateness
<1>7. ASSUME NEW r \in Request, NEW c \in Condition, RemoveCondition(r, c)
      PROVE  TypeOK'
  <2>1. condition[c].app \in Application
    BY <1>7 DEF RemoveCondition, Live, TypeOK, ConditionRow, Missing
  <2> QED
    BY <1>7, <2>1
    DEF RemoveCondition, TypeOK, RequestState, table, events, history, lateness
<1>8. ASSUME NEW r \in Request, AnnounceCreated(r)
      PROVE  TypeOK'
  BY <1>8, RequestShape
  DEF AnnounceCreated, TypeOK, RequestState, ApplicationStatus, Idle, table,
      Ends
<1>9. ASSUME NEW r \in Request, WriteApplication(r)
      PROVE  TypeOK'
  <2> DEFINE q == req[r]
             to == IF q.new = Unset THEN status[q.app] ELSE q.new
  <2>1. q \in RequestState /\ q.app \in Application
    BY <1>9, RequestShape DEF WriteApplication
  <2>2. to \in ApplicationStatus
    BY <1>9, <2>1, RequestShape DEF WriteApplication, RowsExist, TypeOK
  <2>3. status' \in [Application -> ApplicationStatus \cup {Missing}]
    BY <1>9, <2>1, <2>2 DEF WriteApplication, TypeOK
  <2>4. req' \in [Request -> RequestState]
    <3>1. [pc |-> "Announce", app |-> q.app, prev |-> q.prev, result |-> to,
           auto |-> q.auto] \in RequestState
      BY <1>9, <2>1, <2>2, RequestShape DEF WriteApplication, RequestState
    <3> QED
      BY <1>9, <3>1 DEF WriteApplication, TypeOK
  <2>5. /\ stamped' \subseteq Application
        /\ excused' \in [Application -> SUBSET {"entered", "moved", "failed"}]
    BY <1>9, <2>1 DEF WriteApplication, TypeOK
  <2>6. /\ unannounced' \subseteq Application
        /\ crossed' \subseteq Application
        /\ overtaken' \subseteq Request
    BY <1>9, <2>1 DEF WriteApplication, TypeOK
  <2> QED
    BY <1>9, <2>3, <2>4, <2>5, <2>6 DEF WriteApplication, TypeOK, events
<1>10. ASSUME NEW r \in Request, Announce(r)
       PROVE  TypeOK'
  BY <1>10, RequestShape
  DEF Announce, TypeOK, RequestState, Idle, table, Ends
<1>11. ASSUME NEW r \in Request, WriteCondition(r)
       PROVE  TypeOK'
  <2> DEFINE q == req[r]
             from == condition[q.cond].app
             to == IF q.app = NoApp THEN from ELSE q.app
  <2>1. q.cond \in Condition /\ q.status \in ConditionStatus
    BY <1>11, RequestShape DEF WriteCondition
  <2>2. /\ condition[q.cond] \in [state : {"LIVE", "DELETED"},
                                 app : Application, status : ConditionStatus]
        /\ to \in Application
    BY <1>11, <2>1, RequestShape
    DEF WriteCondition, RowsExist, TypeOK, ConditionRow
  <2>3. condition' \in [Condition -> ConditionRow]
    BY <1>11, <2>1, <2>2 DEF WriteCondition, TypeOK, ConditionRow
  <2>4. req' \in [Request -> RequestState]
    BY <1>11, <2>2 DEF WriteCondition, TypeOK, RequestState
  <2>5. excused' \in [Application -> SUBSET {"entered", "moved", "failed"}]
    BY <1>11 DEF WriteCondition, TypeOK
  <2> QED
    BY <1>11, <2>3, <2>4, <2>5
    DEF WriteCondition, RevertsOthers, TypeOK, events
<1>12. ASSUME NEW r \in Request, DeleteCondition(r)
       PROVE  TypeOK'
  <2> DEFINE q == req[r]
  <2>1. q.cond \in Condition /\ q.app \in Application
    BY <1>12, RequestShape DEF DeleteCondition
  <2>2. condition[q.cond] \in [state : {"LIVE", "DELETED"},
                               app : Application, status : ConditionStatus]
    BY <1>12, <2>1 DEF DeleteCondition, RowsExist, TypeOK, ConditionRow
  <2>3. condition' \in [Condition -> ConditionRow]
    BY <1>12, <2>1, <2>2 DEF DeleteCondition, TypeOK, ConditionRow
  <2>4. req' \in [Request -> RequestState]
    BY <1>12, <2>1 DEF DeleteCondition, TypeOK, RequestState
  <2>5. excused' \in [Application -> SUBSET {"entered", "moved", "failed"}]
    BY <1>12 DEF DeleteCondition, TypeOK
  <2> QED
    BY <1>12, <2>3, <2>4, <2>5
    DEF DeleteCondition, RevertsOthers, TypeOK, events
<1>13. ASSUME NEW r \in Request, Evaluate(r)
       PROVE  TypeOK'
  BY <1>13, RequestShape
  DEF Evaluate, TypeOK, RequestState, Idle, table, events, history, lateness
<1>14. ASSUME NEW r \in Request, Promote(r)
       PROVE  TypeOK'
  <2>1. /\ req[r].app \in Application
        /\ status[req[r].app] \in ApplicationStatus
        /\ "UNCONDITIONAL_OFFER" \in ApplicationStatus
    BY <1>14, RequestShape DEF Promote, RowsExist, TypeOK, ApplicationStatus
  <2>2. CASE Ends(r)
    BY <1>14, <2>2
    DEF Promote, Ends, TypeOK, RequestState, Idle, table, events
  <2>3. CASE ~ Ends(r)
    <3>1. [pc |-> "WriteApp", app |-> req[r].app, prev |-> status[req[r].app],
           new |-> "UNCONDITIONAL_OFFER", auto |-> TRUE] \in RequestState
      BY <2>1 DEF RequestState
    <3>2. req' \in [Request -> RequestState]
      BY <1>14, <2>3, <3>1 DEF Promote, TypeOK
    <3> QED
      BY <1>14, <2>3, <3>2 DEF Promote, TypeOK, table, events, lateness
  <2> QED
    BY <2>2, <2>3
<1>15. ASSUME NEW r \in Request, Abort(r)
       PROVE  TypeOK'
  BY <1>15, RequestShape
  DEF Abort, TypeOK, RequestState, Idle, table, events, Ends
<1> QED
  BY <1>1, <1>2, <1>3, <1>4, <1>5, <1>6, <1>7, <1>8, <1>9, <1>10, <1>11,
     <1>12, <1>13, <1>14, <1>15 DEF Next, Arrive, Continue

------------------------------------------------------------------------------
(* What a request or a condition refers to exists.                          *)

LEMMA InitRowsExist == Init => RowsExist
BY DEF Init, RowsExist, Idle

\* Only creation changes which rows exist, and it only adds some.
LEMMA RowsStay ==
  ASSUME TypeOK, RowsExist, [Next]_vars
  PROVE  /\ \A a \in Application : status[a] # Missing => status'[a] # Missing
         /\ \A c \in Condition :
              condition[c].state # Missing => condition'[c].state # Missing
<1>1. ASSUME NEW r \in Request, WriteApplication(r)
      PROVE  /\ \A a \in Application :
                  status[a] # Missing => status'[a] # Missing
             /\ condition' = condition
  BY <1>1, RequestShape, StatusFacts DEF WriteApplication, TypeOK
<1>2. ASSUME NEW r \in Request, NEW a \in Application, CreateApplication(r, a)
      PROVE  /\ \A b \in Application :
                  status[b] # Missing => status'[b] # Missing
             /\ condition' = condition
  BY <1>2 DEF CreateApplication, TypeOK
<1>3. ASSUME NEW r \in Request, NEW c \in Condition, NEW a \in Application,
             NEW s \in ConditionTo, CreateCondition(r, c, a, s)
      PROVE  /\ status' = status
             /\ \A d \in Condition :
                  condition[d].state # Missing => condition'[d].state # Missing
  BY <1>3 DEF CreateCondition, TypeOK, Missing
<1>4. ASSUME NEW r \in Request, WriteCondition(r) \/ DeleteCondition(r)
      PROVE  /\ status' = status
             /\ \A d \in Condition :
                  condition[d].state # Missing => condition'[d].state # Missing
  <2>1. req[r].cond \in Condition
    BY <1>4, RequestShape DEF WriteCondition, DeleteCondition
  <2>2. condition[req[r].cond] \in [state : {"LIVE", "DELETED"},
                               app : Application, status : ConditionStatus]
    BY <1>4, <2>1
    DEF WriteCondition, DeleteCondition, RowsExist, TypeOK, ConditionRow
  <2>3. CASE WriteCondition(r)
    BY <2>1, <2>2, <2>3 DEF WriteCondition, TypeOK
  <2>4. CASE DeleteCondition(r)
    BY <2>1, <2>2, <2>4 DEF DeleteCondition, TypeOK, Missing
  <2> QED
    BY <1>4, <2>3, <2>4
<1>5. CASE UNCHANGED <<status, condition>>
  BY <1>5
<1> QED
  BY <1>1, <1>2, <1>3, <1>4, <1>5
  DEF Next, Arrive, Continue, vars, RemoveApplication, PatchApplication,
      PatchCondition, RemoveCondition, AnnounceCreated, Announce, Evaluate,
      Promote, Abort, table, Ends

LEMMA NextRowsExist == TypeOK /\ RowsExist /\ [Next]_vars => RowsExist'
<1> SUFFICES ASSUME TypeOK, RowsExist, [Next]_vars PROVE RowsExist'
  OBVIOUS
<1> DEFINE ConditionsOK ==
             \A c \in Condition :
               condition[c].state # Missing => status[condition[c].app] # Missing
           RequestOK(q) ==
             /\ q.pc \in {"WriteApp", "Evaluate", "Promote"}
                  => status[q.app] # Missing
             /\ q.pc \in {"WriteCond", "DeleteCond"}
                  => condition[q.cond].state # Missing
             /\ q.pc = "WriteCond" /\ q.app # NoApp => status[q.app] # Missing
             /\ q.pc = "DeleteCond" => status[q.app] # Missing
<1>1. RowsExist' <=> ConditionsOK' /\ \A r \in Request : RequestOK(req[r])'
  BY DEF RowsExist
\* A request that did not step keeps what it holds.
<1>2. ASSUME NEW r \in Request, req'[r] = req[r] PROVE RequestOK(req[r])'
  BY <1>2, RowsStay, RequestShape DEF RowsExist
<1>3. RequestOK(Idle)'
  BY DEF Idle
<1>4. ASSUME UNCHANGED condition PROVE ConditionsOK'
  BY <1>4, RowsStay DEF RowsExist, TypeOK, ConditionRow
<1>5. ASSUME NEW r \in Request, NEW q,
             \A p \in Request : p # r => req'[p] = req[p],
             req'[r] = q, RequestOK(q)', ConditionsOK'
      PROVE  RowsExist'
  BY <1>1, <1>2, <1>5
<1>6. ASSUME NEW r \in Request, NEW a \in Application, CreateApplication(r, a)
      PROVE  RowsExist'
  <2>1. RequestOK([pc |-> "AnnounceCreated", app |-> a])'
    OBVIOUS
  <2> QED
    BY <1>4, <1>5, <1>6, <2>1 DEF CreateApplication, TypeOK
<1>7. ASSUME NEW r \in Request, NEW a \in Application, RemoveApplication(r, a)
      PROVE  RowsExist'
  BY <1>1, <1>2, <1>4, <1>7 DEF RemoveApplication
<1>8. ASSUME NEW r \in Request, NEW a \in Application, NEW s \in PatchedTo,
             PatchApplication(r, a, s)
      PROVE  RowsExist'
  <2> DEFINE q == [pc |-> "WriteApp", app |-> a, prev |-> status[a],
                   new |-> s, auto |-> FALSE]
  <2>1. RequestOK(q)'
    BY <1>8 DEF PatchApplication, table
  <2> QED
    BY <1>4, <1>5, <1>8, <2>1 DEF PatchApplication, TypeOK, table
<1>9. ASSUME NEW r \in Request, NEW c \in Condition, NEW a \in Application,
             NEW s \in ConditionTo, CreateCondition(r, c, a, s)
      PROVE  RowsExist'
  <2>1. RequestOK([pc |-> "Evaluate", app |-> a])'
    BY <1>9 DEF CreateCondition
  <2>2. ConditionsOK'
    BY <1>9 DEF CreateCondition, RowsExist, TypeOK
  <2> QED
    BY <1>5, <1>9, <2>1, <2>2 DEF CreateCondition, TypeOK
<1>10. ASSUME NEW r \in Request, NEW c \in Condition,
              NEW a \in Application \cup {NoApp}, NEW s \in ConditionTo,
              PatchCondition(r, c, a, s)
       PROVE  RowsExist'
  <2> DEFINE q == [pc |-> "WriteCond", cond |-> c, app |-> a,
                   status |-> ParsedStatus(s)]
  <2>1. RequestOK(q)'
    BY <1>10 DEF PatchCondition, Live, Missing, table
  <2> QED
    BY <1>4, <1>5, <1>10, <2>1 DEF PatchCondition, TypeOK, table
<1>11. ASSUME NEW r \in Request, NEW c \in Condition, RemoveCondition(r, c)
       PROVE  RowsExist'
  <2> DEFINE q == [pc |-> "DeleteCond", cond |-> c, app |-> condition[c].app]
  <2>1. RequestOK(q)'
    BY <1>11 DEF RemoveCondition, Live, Missing, RowsExist, table
  <2> QED
    BY <1>4, <1>5, <1>11, <2>1 DEF RemoveCondition, TypeOK, table
<1>12. ASSUME NEW r \in Request, WriteApplication(r)
       PROVE  RowsExist'
  <2> DEFINE to == IF req[r].new = Unset THEN status[req[r].app]
                   ELSE req[r].new
             q == [pc |-> "Announce", app |-> req[r].app,
                   prev |-> req[r].prev, result |-> to, auto |-> req[r].auto]
  <2>1. RequestOK(q)'
    OBVIOUS
  <2>2. req' = [req EXCEPT ![r] = q]
    BY <1>12 DEF WriteApplication
  <2> QED
    BY <1>4, <1>5, <1>12, <2>1, <2>2 DEF WriteApplication, TypeOK
<1>13. ASSUME NEW r \in Request,
              AnnounceCreated(r) \/ Announce(r) \/ Abort(r)
       PROVE  RowsExist'
  BY <1>3, <1>4, <1>5, <1>13
  DEF AnnounceCreated, Announce, Abort, TypeOK, table, Ends
<1>14. ASSUME NEW r \in Request, WriteCondition(r)
       PROVE  RowsExist'
  <2> DEFINE to == IF req[r].app = NoApp THEN condition[req[r].cond].app
                   ELSE req[r].app
  <2>1. /\ req[r].cond \in Condition
        /\ condition[req[r].cond] \in [state : {"LIVE", "DELETED"},
                                   app : Application, status : ConditionStatus]
    BY <1>14, RequestShape DEF WriteCondition, RowsExist, TypeOK, ConditionRow
  <2>2. PICK b \in Application : b = to /\ status[b] # Missing
    BY <1>14, <2>1, RequestShape DEF WriteCondition, RowsExist, Missing
  <2>3. RequestOK([pc |-> "Evaluate", app |-> b])'
    BY <1>14, <2>2 DEF WriteCondition
  <2>4. ConditionsOK'
    BY <1>14, <2>1, <2>2 DEF WriteCondition, RowsExist, TypeOK
  <2> QED
    BY <1>5, <1>14, <2>2, <2>3, <2>4 DEF WriteCondition, TypeOK
<1>15. ASSUME NEW r \in Request, DeleteCondition(r)
       PROVE  RowsExist'
  <2>1. /\ req[r].cond \in Condition
        /\ condition[req[r].cond] \in [state : {"LIVE", "DELETED"},
                                   app : Application, status : ConditionStatus]
    BY <1>15, RequestShape DEF DeleteCondition, RowsExist, TypeOK, ConditionRow
  <2> PICK b : b = req[r].app
    OBVIOUS
  <2>2. RequestOK([pc |-> "Evaluate", app |-> b])'
    BY <1>15 DEF DeleteCondition, RowsExist
  <2>3. ConditionsOK'
    BY <1>15, <2>1 DEF DeleteCondition, RowsExist, TypeOK, Missing
  <2> QED
    BY <1>5, <1>15, <2>2, <2>3 DEF DeleteCondition, TypeOK
<1>16. ASSUME NEW r \in Request, Evaluate(r)
       PROVE  RowsExist'
  <2> PICK b : b = req[r].app
    OBVIOUS
  <2>1. RequestOK([pc |-> "Promote", app |-> b])'
    BY <1>16 DEF Evaluate, RowsExist, table
  <2> QED
    BY <1>3, <1>4, <1>5, <1>16, <2>1 DEF Evaluate, TypeOK, table
<1>17. ASSUME NEW r \in Request, Promote(r)
       PROVE  RowsExist'
  <2> PICK q : q = [pc |-> "WriteApp", app |-> req[r].app,
                    prev |-> status[req[r].app],
                    new |-> "UNCONDITIONAL_OFFER", auto |-> TRUE]
    OBVIOUS
  <2>1. RequestOK(q)'
    BY <1>17 DEF Promote, RowsExist, table, Ends
  <2> QED
    BY <1>3, <1>4, <1>5, <1>17, <2>1 DEF Promote, TypeOK, table, Ends
<1>18. CASE UNCHANGED vars
  BY <1>18 DEF vars, table, RowsExist
<1> QED
  BY <1>6, <1>7, <1>8, <1>9, <1>10, <1>11, <1>12, <1>13, <1>14, <1>15, <1>16,
     <1>17, <1>18 DEF Next, Arrive, Continue

\* Every row, every request and every history keeps its type.
THEOREM TypeCorrect == Spec => []TypeOK
BY InitTypeOK, NextTypeOK, InitRowsExist, NextRowsExist, PTL DEF Spec

\* No request and no condition refers to a row that is not in its table.
THEOREM ReferencesHold == Spec => []RowsExist
BY InitTypeOK, NextTypeOK, InitRowsExist, NextRowsExist, PTL DEF Spec

------------------------------------------------------------------------------
(* Decisions stay stamped.                                                  *)

\* Entering a decided state from an undecided one is a decision of the
\* institution, so it is stamped: the graph has no other way in.
LEMMA EntryIsStamped ==
  ASSUME NEW p \in ApplicationStatus, NEW s \in ApplicationStatus,
         ValidMove(p, s), s \in DecidedStates, p \notin DecidedStates
  PROVE  StampsDecision(p, s)
BY DEF ValidMove, ValidTransitions, StampsDecision, ApplicationStatus,
       DecidedStates, InstitutionalDecisionStates

LEMMA InitStamped == Init => DecisionStamped /\ WritersKnow
BY DEF Init, DecisionStamped, WritersKnow, Idle, Missing, DecidedStates

LEMMA NextStamped ==
  TypeOK /\ RowsExist /\ DecisionStamped /\ WritersKnow /\ [Next]_vars
    => DecisionStamped' /\ WritersKnow'
<1> SUFFICES ASSUME TypeOK, RowsExist, DecisionStamped, WritersKnow,
                    [Next]_vars
             PROVE  DecisionStamped' /\ WritersKnow'
  OBVIOUS
<1>1. ASSUME NEW r \in Request, WriteApplication(r)
      PROVE  DecisionStamped' /\ WritersKnow'
  <2> DEFINE q == req[r]
             to == IF q.new = Unset THEN status[q.app] ELSE q.new
  <2>1. /\ q.app \in Application
        /\ q.prev \in ApplicationStatus
        /\ q.new \in ApplicationStatus \cup {Unset}
        /\ q.prev \in DecidedStates => q.app \in stamped
        /\ q.new # Unset => ValidMove(q.prev, q.new)
    BY <1>1, RequestShape DEF WriteApplication, WritersKnow
  <2>2. /\ status' = [status EXCEPT ![q.app] = to]
        /\ stamped' = IF q.new # Unset /\ StampsDecision(q.prev, q.new)
                      THEN stamped \cup {q.app} ELSE stamped
        /\ stamped \subseteq stamped'
    BY <1>1 DEF WriteApplication
  <2>3. to \in DecidedStates => q.app \in stamped'
    <3>1. CASE q.new = Unset
      BY <2>1, <2>2, <3>1 DEF DecisionStamped
    <3>2. CASE q.new # Unset
      BY <2>1, <2>2, <3>2, EntryIsStamped
    <3> QED
      BY <3>1, <3>2
  <2>4. DecisionStamped'
    BY <2>1, <2>2, <2>3 DEF DecisionStamped, TypeOK
  <2>5. \A p \in Request : req'[p].pc = "WriteApp" => req'[p] = req[p]
    BY <1>1 DEF WriteApplication, TypeOK
  <2>6. WritersKnow'
    BY <2>2, <2>5 DEF WritersKnow
  <2> QED
    BY <2>4, <2>6
<1>2. ASSUME NEW r \in Request, NEW a \in Application, NEW s \in PatchedTo,
             PatchApplication(r, a, s)
      PROVE  DecisionStamped' /\ WritersKnow'
  <2>1. UNCHANGED <<status, stamped>>
    BY <1>2 DEF PatchApplication, table
  <2>2. req' = [req EXCEPT ![r] = [pc |-> "WriteApp", app |-> a,
                                   prev |-> status[a], new |-> s,
                                   auto |-> FALSE]]
    BY <1>2 DEF PatchApplication
  <2>3. /\ status[a] \in DecidedStates => a \in stamped
        /\ s # Unset => ValidMove(status[a], s)
    BY <1>2 DEF PatchApplication, DecisionStamped
  <2> QED
    BY <2>1, <2>2, <2>3 DEF WritersKnow, DecisionStamped, TypeOK
<1>3. ASSUME NEW r \in Request, Promote(r)
      PROVE  DecisionStamped' /\ WritersKnow'
  <2>1. UNCHANGED <<status, stamped>>
    BY <1>3 DEF Promote, table, Ends
  <2>2. req[r].app \in Application
    BY <1>3, RequestShape DEF Promote, Ends
  <2>3. \/ req' = [req EXCEPT ![r] = Idle]
        \/ /\ ValidMove(status[req[r].app], "UNCONDITIONAL_OFFER")
           /\ req' = [req EXCEPT
                        ![r] = [pc |-> "WriteApp", app |-> req[r].app,
                                prev |-> status[req[r].app],
                                new |-> "UNCONDITIONAL_OFFER",
                                auto |-> TRUE]]
    BY <1>3 DEF Promote, Ends
  <2> QED
    BY <2>1, <2>2, <2>3 DEF WritersKnow, DecisionStamped, TypeOK, Idle
\* Every other action writes at most the status SUBMITTED of a new row, stamps
\* nothing and starts no write.
<1>4. ASSUME NEW r \in Request, NEW a \in Application, CreateApplication(r, a)
      PROVE  DecisionStamped' /\ WritersKnow'
  BY <1>4 DEF CreateApplication, WritersKnow, DecisionStamped, DecidedStates,
              TypeOK
<1>5. ASSUME UNCHANGED <<status, stamped>>,
             \A p \in Request : req'[p].pc = "WriteApp" => req'[p] = req[p]
      PROVE  DecisionStamped' /\ WritersKnow'
  BY <1>5 DEF WritersKnow, DecisionStamped
<1>6. ASSUME NEW r \in Request,
             \/ \E a \in Application : RemoveApplication(r, a)
             \/ \E b \in Condition : RemoveCondition(r, b)
      PROVE  DecisionStamped' /\ WritersKnow'
  BY <1>5, <1>6 DEF RemoveApplication, RemoveCondition, TypeOK, table
<1>7. ASSUME NEW r \in Request, NEW b \in Condition,
             NEW a \in Application \cup {NoApp}, NEW s \in ConditionTo,
             CreateCondition(r, b, a, s) \/ PatchCondition(r, b, a, s)
      PROVE  DecisionStamped' /\ WritersKnow'
  BY <1>5, <1>7 DEF CreateCondition, PatchCondition, TypeOK, table
<1>9. ASSUME NEW r \in Request,
             \/ AnnounceCreated(r) \/ Announce(r) \/ WriteCondition(r)
             \/ DeleteCondition(r) \/ Evaluate(r) \/ Abort(r)
      PROVE  DecisionStamped' /\ WritersKnow'
  <2>1. CASE WriteCondition(r) \/ DeleteCondition(r) \/ Evaluate(r)
    BY <1>5, <2>1
    DEF WriteCondition, DeleteCondition, Evaluate, TypeOK, Idle, table
  <2>2. CASE Ends(r) /\ UNCHANGED table
    BY <1>5, <2>2 DEF Ends, TypeOK, Idle, table
  <2> QED
    BY <1>9, <2>1, <2>2 DEF AnnounceCreated, Announce, Abort
<1>8. CASE UNCHANGED vars
  BY <1>5, <1>8 DEF vars, table
<1> QED
  BY <1>1, <1>2, <1>3, <1>4, <1>6, <1>7, <1>8, <1>9
  DEF Next, Arrive, Continue

\* However many requests interleave, an application at or past a decision of
\* the institution carries its stamp.
THEOREM AlwaysStamped == Spec => []DecisionStamped
BY InitTypeOK, NextTypeOK, InitRowsExist, NextRowsExist, InitStamped,
   NextStamped, PTL DEF Spec

------------------------------------------------------------------------------
(* The backstop misses nothing.                                             *)

Settled(a) ==
  /\ status[a] = "CONDITIONAL_OFFER"
  /\ AllSatisfied(a)
  /\ excused[a] = {}

LEMMA InitNoMissed == Init => NoMissedPromotion /\ AutoIsPromotion
BY DEF Init, NoMissedPromotion, AutoIsPromotion, Idle, Missing

\* A live condition list is a function of the conditions of the application.
LEMMA SameConditions ==
  ASSUME NEW a \in Application,
         \A c \in Condition :
           \/ condition'[c] = condition[c]
           \/ /\ ~ (Live(c) /\ condition[c].app = a)
              /\ ~ (Live(c) /\ condition[c].app = a)'
  PROVE  AllSatisfied(a)' <=> AllSatisfied(a)
<1>1. LiveConditions(a)' = LiveConditions(a)
  BY DEF LiveConditions, Live
<1>2. \A c \in LiveConditions(a) : condition'[c] = condition[c]
  BY DEF LiveConditions, Live
<1> QED
  BY <1>1, <1>2 DEF AllSatisfied

\* What a step of request r must respect.
LEMMA StepKeepsPromise ==
  ASSUME NoMissedPromotion, NEW r \in Request,
         \A p \in Request \ {r} : req'[p] = req[p],
         \A a \in Application :
           Settled(a)' => \/ Owes(r, a)'
                          \/ Settled(a) /\ ~ Owes(r, a)
  PROVE  NoMissedPromotion'
<1> SUFFICES ASSUME NEW a \in Application, Settled(a)'
             PROVE  (\E p \in Request : Owes(p, a))'
  BY DEF NoMissedPromotion, Settled
<1>1. CASE Owes(r, a)'
  BY <1>1
<1>2. CASE Settled(a) /\ ~ Owes(r, a)
  <2>1. PICK p \in Request : Owes(p, a)
    BY <1>2 DEF NoMissedPromotion, Settled
  <2>2. p # r
    BY <1>2, <2>1
  <2>3. Owes(p, a)'
    BY <2>1, <2>2 DEF Owes
  <2> QED
    BY <2>3
<1> QED
  BY <1>1, <1>2

LEMMA NextNoMissed ==
  TypeOK /\ RowsExist /\ AutoIsPromotion /\ NoMissedPromotion /\ [Next]_vars
    => NoMissedPromotion'
<1> SUFFICES ASSUME TypeOK, RowsExist, AutoIsPromotion, NoMissedPromotion,
                    [Next]_vars
             PROVE  NoMissedPromotion'
  OBVIOUS
\* Steps that leave every settled application settled and owe nothing.
<1>1. ASSUME NEW r \in Request, \A p \in Request \ {r} : req'[p] = req[p],
             \A a \in Application : ~ Owes(r, a),
             UNCHANGED <<condition, excused>>,
             \A a \in Application :
               status'[a] = status[a] \/ status'[a] # "CONDITIONAL_OFFER"
      PROVE  NoMissedPromotion'
  <2>1. \A a \in Application : AllSatisfied(a)' => AllSatisfied(a)
    BY <1>1 DEF AllSatisfied, LiveConditions, Live
  <2> QED
    BY <1>1, <2>1, StepKeepsPromise DEF Settled
<1>2. ASSUME NEW r \in Request, NEW a \in Application,
             CreateApplication(r, a) \/ RemoveApplication(r, a)
      PROVE  NoMissedPromotion'
  <2>1. \A b \in Application : ~ Owes(r, b)
    BY <1>2 DEF CreateApplication, RemoveApplication, Owes, Idle
  <2> QED
    BY <1>1, <1>2, <2>1
    DEF CreateApplication, RemoveApplication, TypeOK, history, lateness, events
<1>3. ASSUME NEW r \in Request, NEW a \in Application, NEW s \in PatchedTo,
             PatchApplication(r, a, s)
      PROVE  NoMissedPromotion'
  <2>1. \A b \in Application : ~ Owes(r, b)
    BY <1>3 DEF PatchApplication, Owes, Idle
  <2> QED
    BY <1>1, <1>3, <2>1 DEF PatchApplication, TypeOK, table, history, lateness
<1>4. ASSUME NEW r \in Request,
             \/ \E c \in Condition, a \in Application \cup {NoApp},
                   s \in ConditionTo : PatchCondition(r, c, a, s)
             \/ \E c \in Condition : RemoveCondition(r, c)
      PROVE  NoMissedPromotion'
  <2>1. \A b \in Application : ~ Owes(r, b)
    BY <1>4 DEF PatchCondition, RemoveCondition, Owes, Idle
  <2> QED
    BY <1>1, <1>4, <2>1
    DEF PatchCondition, RemoveCondition, TypeOK, table, history, lateness
<1>5. ASSUME NEW r \in Request, AnnounceCreated(r) \/ Announce(r)
      PROVE  NoMissedPromotion'
  <2>1. \A b \in Application : ~ Owes(r, b)
    BY <1>5 DEF AnnounceCreated, Announce, Owes, Ends
  <2> QED
    BY <1>1, <1>5, <2>1 DEF AnnounceCreated, Announce, TypeOK, table, Ends
\* A step that writes a condition owes the evaluation of the application it
\* names; the application the condition left, if another, is excused.
<1>6. ASSUME NEW r \in Request, NEW c \in Condition, NEW a \in Application,
             NEW s \in ConditionTo, CreateCondition(r, c, a, s)
      PROVE  NoMissedPromotion'
  <2>1. \A b \in Application : ~ Owes(r, b)
    BY <1>6 DEF CreateCondition, Owes, Idle
  <2>2. Owes(r, a)'
    BY <1>6 DEF CreateCondition, Owes, TypeOK
  <2>3. ASSUME NEW b \in Application, b # a PROVE AllSatisfied(b)' => AllSatisfied(b)
    <3>1. \A d \in Condition : d # c => condition'[d] = condition[d]
      BY <1>6 DEF CreateCondition, TypeOK
    <3>2. ~ Live(c) /\ condition'[c].app = a
      BY <1>6 DEF CreateCondition, Live, TypeOK, Missing
    <3> QED
      BY <2>3, <3>1, <3>2, SameConditions DEF Live
  <2> QED
    BY <1>6, <2>1, <2>2, <2>3, StepKeepsPromise
    DEF CreateCondition, Settled, TypeOK
<1>7. ASSUME NEW r \in Request, WriteCondition(r)
      PROVE  NoMissedPromotion'
  <2> DEFINE c == req[r].cond
             from == condition[c].app
             to == IF req[r].app = NoApp THEN from ELSE req[r].app
  <2>1. /\ c \in Condition
        /\ condition[c] \in [state : {"LIVE", "DELETED"}, app : Application,
                              status : ConditionStatus]
    BY <1>7, RequestShape DEF WriteCondition, RowsExist, TypeOK, ConditionRow
  <2>2. \A b \in Application : ~ Owes(r, b)
    BY <1>7 DEF WriteCondition, Owes
  <2>3. PICK t \in Application : t = to
    BY <1>7, <2>1, RequestShape DEF WriteCondition
  <2>4. Owes(r, t)'
    BY <1>7, <2>3 DEF WriteCondition, Owes, TypeOK
  <2>5. \A b \in Application :
          excused'[b] = IF b = t THEN {}
                        ELSE IF b = from THEN excused[b] \cup {"moved"}
                        ELSE excused[b]
    BY <1>7, <2>3 DEF WriteCondition
  <2>6. ASSUME NEW b \in Application, b # t, b # from
        PROVE  AllSatisfied(b)' => AllSatisfied(b)
    <3>1. \A d \in Condition : d # c => condition'[d] = condition[d]
      BY <1>7 DEF WriteCondition, TypeOK
    <3>2. condition'[c].app = t
      BY <1>7, <2>1, <2>3 DEF WriteCondition, TypeOK
    <3> QED
      BY <2>6, <3>1, <3>2, SameConditions DEF Live
  <2>7. status' = status /\ \A p \in Request \ {r} : req'[p] = req[p]
    BY <1>7 DEF WriteCondition, TypeOK
  <2>8. ASSUME NEW b \in Application, Settled(b)'
        PROVE  Owes(r, b)' \/ (Settled(b) /\ ~ Owes(r, b))
    <3>1. CASE b = t
      BY <2>4, <3>1
    <3>2. CASE b # t
      <4>1. excused'[b] = {}
        BY <2>8 DEF Settled
      <4>2. b # from
        BY <2>5, <3>2, <4>1
      <4> QED
        BY <2>2, <2>5, <2>6, <2>7, <2>8, <3>2, <4>2 DEF Settled
    <3> QED
      BY <3>1, <3>2
  <2> QED
    BY <2>7, <2>8, StepKeepsPromise
<1>8. ASSUME NEW r \in Request, DeleteCondition(r)
      PROVE  NoMissedPromotion'
  <2> DEFINE c == req[r].cond
             now == condition[c].app
  <2>1. /\ c \in Condition
        /\ condition[c] \in [state : {"LIVE", "DELETED"}, app : Application,
                              status : ConditionStatus]
    BY <1>8, RequestShape DEF DeleteCondition, RowsExist, TypeOK, ConditionRow
  <2>2. \A b \in Application : ~ Owes(r, b)
    BY <1>8 DEF DeleteCondition, Owes
  <2>3. PICK t \in Application : t = req[r].app
    BY <1>8, RequestShape DEF DeleteCondition
  <2>4. Owes(r, t)'
    BY <1>8, <2>3 DEF DeleteCondition, Owes, TypeOK
  <2>5. \A b \in Application :
          excused'[b] = IF b = t THEN {}
                        ELSE IF b = now THEN excused[b] \cup {"moved"}
                        ELSE excused[b]
    BY <1>8, <2>3 DEF DeleteCondition
  <2>6. ASSUME NEW b \in Application, b # now
        PROVE  AllSatisfied(b)' => AllSatisfied(b)
    <3>1. \A d \in Condition : d # c => condition'[d] = condition[d]
      BY <1>8 DEF DeleteCondition, TypeOK
    <3>2. condition'[c].state = "DELETED"
      BY <1>8, <2>1 DEF DeleteCondition, TypeOK
    <3> QED
      BY <2>6, <3>1, <3>2, SameConditions DEF Live
  <2>7. status' = status /\ \A p \in Request \ {r} : req'[p] = req[p]
    BY <1>8 DEF DeleteCondition, TypeOK
  <2>8. ASSUME NEW b \in Application, Settled(b)'
        PROVE  Owes(r, b)' \/ (Settled(b) /\ ~ Owes(r, b))
    <3>1. CASE b = t
      BY <2>4, <3>1
    <3>2. CASE b # t
      <4>1. excused'[b] = {}
        BY <2>8 DEF Settled
      <4>2. b # now
        BY <2>5, <3>2, <4>1
      <4> QED
        BY <2>2, <2>5, <2>6, <2>7, <2>8, <3>2, <4>2 DEF Settled
    <3> QED
      BY <3>1, <3>2
  <2> QED
    BY <2>7, <2>8, StepKeepsPromise
\* The evaluation and the promotion keep what they owe until it is done.
<1>9. ASSUME NEW r \in Request, Evaluate(r)
      PROVE  NoMissedPromotion'
  <2>1. /\ UNCHANGED <<status, condition, excused>>
        /\ \A p \in Request \ {r} : req'[p] = req[p]
    BY <1>9 DEF Evaluate, TypeOK, table, history, lateness
  <2>2. ASSUME NEW b \in Application
        PROVE  (Settled(b)' <=> Settled(b)) /\ (Settled(b) => Promotable(b))
    BY <2>1 DEF Settled, Promotable, AllSatisfied, LiveConditions, Live
  <2>3. ASSUME NEW b \in Application, Owes(r, b), Promotable(b)
        PROVE  Owes(r, b)'
    BY <1>9, <2>3 DEF Evaluate, Owes, TypeOK
  <2> QED
    BY <2>1, <2>2, <2>3, StepKeepsPromise
<1>10. ASSUME NEW r \in Request, Promote(r)
       PROVE  NoMissedPromotion'
  <2>1. /\ UNCHANGED <<status, condition, excused>>
        /\ \A p \in Request \ {r} : req'[p] = req[p]
    BY <1>10 DEF Promote, TypeOK, table, history, lateness, Ends
  <2>2. ASSUME NEW b \in Application
        PROVE  Settled(b)' <=> Settled(b)
    BY <2>1 DEF Settled, AllSatisfied, LiveConditions, Live
  <2>3. ValidMove("CONDITIONAL_OFFER", "UNCONDITIONAL_OFFER")
    BY DEF ValidMove, ValidTransitions, ApplicationStatus
  <2>4. ASSUME NEW b \in Application, Owes(r, b), Settled(b)
        PROVE  Owes(r, b)'
    BY <1>10, <2>3, <2>4 DEF Promote, Owes, Settled, TypeOK, Ends
  <2> QED
    BY <2>1, <2>2, <2>4, StepKeepsPromise
<1>11. ASSUME NEW r \in Request, WriteApplication(r)
       PROVE  NoMissedPromotion'
  <2> DEFINE q == req[r]
             to == IF q.new = Unset THEN status[q.app] ELSE q.new
  <2>1. q.app \in Application /\ (q.auto => to = "UNCONDITIONAL_OFFER")
    BY <1>11, RequestShape DEF WriteApplication, AutoIsPromotion, Unset
  <2>2. /\ status' = [status EXCEPT ![q.app] = to]
        /\ condition' = condition
        /\ excused' = IF to = "CONDITIONAL_OFFER" /\ status[q.app] # to
                      THEN [excused EXCEPT ![q.app] = @ \cup {"entered"}]
                      ELSE excused
        /\ \A p \in Request \ {r} : req'[p] = req[p]
    BY <1>11 DEF WriteApplication, TypeOK
  <2>3. ASSUME NEW b \in Application, Settled(b)'
        PROVE  Settled(b) /\ ~ Owes(r, b)
    <3>1. status'[b] = "CONDITIONAL_OFFER" /\ excused'[b] = {}
      BY <2>3 DEF Settled
    <3>2. status[b] = "CONDITIONAL_OFFER" /\ excused[b] = {}
      BY <2>1, <2>2, <3>1 DEF TypeOK
    <3>3. AllSatisfied(b)
      BY <2>2, <2>3 DEF Settled, AllSatisfied, LiveConditions, Live
    <3>4. ~ Owes(r, b)
      BY <1>11, <2>1, <2>2, <3>1 DEF WriteApplication, Owes, TypeOK
    <3> QED
      BY <3>2, <3>3, <3>4 DEF Settled
  <2> QED
    BY <2>2, <2>3, StepKeepsPromise
<1>12. ASSUME NEW r \in Request, Abort(r)
       PROVE  NoMissedPromotion'
  <2>1. /\ UNCHANGED <<status, condition>>
        /\ \A p \in Request \ {r} : req'[p] = req[p]
        /\ \A b \in Application :
             excused'[b] = IF Owes(r, b) THEN excused[b] \cup {"failed"}
                           ELSE excused[b]
    BY <1>12 DEF Abort, TypeOK, table, Ends
  <2>2. ASSUME NEW b \in Application, Settled(b)'
        PROVE  Settled(b) /\ ~ Owes(r, b)
    <3>1. excused[b] = {} /\ ~ Owes(r, b)
      BY <2>1, <2>2 DEF Settled
    <3> QED
      BY <2>1, <2>2, <3>1 DEF Settled, AllSatisfied, LiveConditions, Live
  <2> QED
    BY <2>1, <2>2, StepKeepsPromise
<1>13. CASE UNCHANGED vars
  BY <1>13
  DEF vars, table, history, NoMissedPromotion, AllSatisfied, LiveConditions,
      Live, Owes
<1> QED
  BY <1>2, <1>3, <1>4, <1>5, <1>6, <1>7, <1>8, <1>9, <1>10, <1>11, <1>12,
     <1>13 DEF Next, Arrive, Continue

LEMMA NextAutoIsPromotion ==
  TypeOK /\ AutoIsPromotion /\ [Next]_vars => AutoIsPromotion'
<1> SUFFICES ASSUME TypeOK, AutoIsPromotion, [Next]_vars
             PROVE  AutoIsPromotion'
  OBVIOUS
<1>1. ASSUME NEW r \in Request, NEW q, req' = [req EXCEPT ![r] = q],
             q.pc = "WriteApp" => (q.auto => q.new = "UNCONDITIONAL_OFFER")
      PROVE  AutoIsPromotion'
  BY <1>1 DEF AutoIsPromotion, TypeOK
<1>2. ASSUME req' = req PROVE AutoIsPromotion'
  BY <1>2 DEF AutoIsPromotion
<1>3. ASSUME NEW r \in Request, Arrive(r) PROVE AutoIsPromotion'
  BY <1>1, <1>2, <1>3
  DEF Arrive, CreateApplication, RemoveApplication, PatchApplication,
      CreateCondition, PatchCondition, RemoveCondition
<1>4. ASSUME NEW r \in Request, Continue(r) \/ Abort(r)
      PROVE  AutoIsPromotion'
  BY <1>1, <1>4
  DEF Continue, Abort, AnnounceCreated, WriteApplication, Announce,
      WriteCondition, DeleteCondition, Evaluate, Promote, Idle, Ends
<1> QED
  BY <1>2, <1>3, <1>4 DEF Next, vars

\* However requests, moves and aborted handlers interleave, an application is
\* never left at CONDITIONAL_OFFER with all its conditions satisfied unless a
\* request still owes it the promotion or nobody was obliged to evaluate it.
THEOREM NeverMissesPromotion == Spec => []NoMissedPromotion
<1>1. Init => TypeOK /\ RowsExist /\ AutoIsPromotion /\ NoMissedPromotion
  BY InitTypeOK, InitRowsExist, InitNoMissed
<1>2. /\ TypeOK /\ RowsExist /\ AutoIsPromotion /\ NoMissedPromotion
      /\ [Next]_vars
      => (TypeOK /\ RowsExist /\ AutoIsPromotion /\ NoMissedPromotion)'
  BY NextTypeOK, NextRowsExist, NextAutoIsPromotion, NextNoMissed
<1> QED
  BY <1>1, <1>2, PTL DEF Spec

------------------------------------------------------------------------------
(* Who has not been overtaken knows the row.                                *)

\* What a request that nobody has overtaken read is still so, and what it
\* wrote has stayed.
Knows(r) ==
  /\ req[r].pc = "AnnounceCreated" => status[req[r].app] = "SUBMITTED"
  /\ req[r].pc = "Promote" => status[req[r].app] = "CONDITIONAL_OFFER"
  /\ req[r].pc = "WriteApp" =>
       /\ req[r].prev = status[req[r].app]
       /\ req[r].auto => /\ req[r].prev = "CONDITIONAL_OFFER"
                         /\ req[r].new = "UNCONDITIONAL_OFFER"
  /\ req[r].pc = "Announce" =>
       /\ req[r].result = status[req[r].app]
       /\ req[r].auto => /\ req[r].prev = "CONDITIONAL_OFFER"
                         /\ req[r].result = "UNCONDITIONAL_OFFER"

UpdatersKnow == \A r \in Request \ overtaken : Knows(r)

\* Only a request on its way to an event can have been overtaken.
OvertakenUpdate ==
  \A r \in overtaken :
    req[r].pc \in {"AnnounceCreated", "Promote", "WriteApp", "Announce"}

\* A step of request r that overtakes every other request whose row it moves.
LEMMA StepKnows ==
  ASSUME TypeOK, UpdatersKnow, NEW r \in Request,
         \A p \in Request \ {r} : req'[p] = req[p],
         \A p \in Request \ {r} : p \in overtaken => p \in overtaken',
         \A p \in Request \ {r}, a \in Application :
           Updating(p, a) => status'[a] = status[a] \/ p \in overtaken',
         r \notin overtaken' => Knows(r)'
  PROVE  UpdatersKnow'
<1> SUFFICES ASSUME NEW p \in Request, p # r, p \notin overtaken'
             PROVE  Knows(p)'
  BY DEF UpdatersKnow
<1>1. req'[p] = req[p] /\ Knows(p)
  BY DEF UpdatersKnow
<1>2. CASE req[p].pc \in {"AnnounceCreated", "Promote", "WriteApp", "Announce"}
  <2>1. PICK a \in Application : a = req[p].app
    BY <1>2, RequestShape
  <2>2. status'[a] = status[a]
    BY <1>2, <2>1 DEF Updating
  <2> QED
    BY <1>1, <2>1, <2>2 DEF Knows
<1>3. CASE req[p].pc \notin {"AnnounceCreated", "Promote", "WriteApp",
                             "Announce"}
  BY <1>1, <1>3 DEF Knows
<1> QED
  BY <1>2, <1>3

\* A request that is not on its way to an event cannot be overtaken by r, and
\* the steps that start one begin with a row just read.
LEMMA NextOvertakenUpdate ==
  TypeOK /\ OvertakenUpdate /\ [Next]_vars => OvertakenUpdate'
<1> SUFFICES ASSUME TypeOK, OvertakenUpdate, [Next]_vars
             PROVE  OvertakenUpdate'
  OBVIOUS
<1>1. ASSUME NEW r \in Request, \A p \in Request \ {r} : req'[p] = req[p],
             overtaken' \subseteq overtaken, r \notin overtaken'
      PROVE  OvertakenUpdate'
  BY <1>1 DEF OvertakenUpdate, TypeOK
<1>2. ASSUME NEW r \in Request, Arrive(r) PROVE OvertakenUpdate'
  <2>0. req[r] = Idle
    BY <1>2
    DEF Arrive, CreateApplication, RemoveApplication, PatchApplication,
        CreateCondition, PatchCondition, RemoveCondition
  <2>1. r \notin overtaken
    BY <2>0 DEF OvertakenUpdate, Idle
  <2>2. overtaken' = overtaken /\ \A p \in Request \ {r} : req'[p] = req[p]
    BY <1>2
    DEF Arrive, CreateApplication, RemoveApplication, PatchApplication,
        CreateCondition, PatchCondition, RemoveCondition, history, lateness,
        TypeOK
  <2> QED
    BY <1>1, <2>1, <2>2
<1>3. ASSUME NEW r \in Request, Ends(r) PROVE OvertakenUpdate'
  BY <1>1, <1>3 DEF Ends, TypeOK
<1>4. ASSUME NEW r \in Request, WriteApplication(r) PROVE OvertakenUpdate'
  <2>1. req'[r].pc = "Announce" /\ \A p \in Request \ {r} : req'[p] = req[p]
    BY <1>4 DEF WriteApplication, TypeOK
  <2>2. overtaken' \subseteq
          overtaken \cup {s \in Request \ {r} : Updating(s, req[r].app)}
    BY <1>4 DEF WriteApplication
  <2> QED
    BY <2>1, <2>2 DEF OvertakenUpdate, Updating, TypeOK
<1>5. ASSUME NEW r \in Request,
             WriteCondition(r) \/ DeleteCondition(r) \/ Evaluate(r)
      PROVE  OvertakenUpdate'
  <2>1. r \notin overtaken
    BY <1>5 DEF WriteCondition, DeleteCondition, Evaluate, OvertakenUpdate
  <2>2. overtaken' = overtaken /\ \A p \in Request \ {r} : req'[p] = req[p]
    BY <1>5
    DEF WriteCondition, DeleteCondition, Evaluate, history, lateness, TypeOK
  <2> QED
    BY <1>1, <2>1, <2>2
<1>6. ASSUME NEW r \in Request, Promote(r), ~ Ends(r) PROVE OvertakenUpdate'
  <2>1. overtaken' = overtaken /\ \A p \in Request \ {r} : req'[p] = req[p]
    BY <1>6 DEF Promote, lateness, TypeOK
  <2>2. req'[r].pc = "WriteApp"
    BY <1>6 DEF Promote, TypeOK
  <2> QED
    BY <2>1, <2>2 DEF OvertakenUpdate, TypeOK
<1>7. CASE UNCHANGED vars
  BY <1>7 DEF vars, history, lateness, OvertakenUpdate
<1> QED
  BY <1>2, <1>3, <1>4, <1>5, <1>6, <1>7
  DEF Next, Continue, AnnounceCreated, Announce, Abort

LEMMA NextUpdatersKnow ==
  /\ TypeOK /\ RowsExist /\ WritersKnow /\ OvertakenUpdate /\ UpdatersKnow
  /\ [Next]_vars
  => UpdatersKnow'
<1> SUFFICES ASSUME TypeOK, RowsExist, WritersKnow, OvertakenUpdate,
                    UpdatersKnow, [Next]_vars
             PROVE  UpdatersKnow'
  OBVIOUS
<1>1. ASSUME NEW r \in Request, status' = status, overtaken' = overtaken,
             \A p \in Request \ {r} : req'[p] = req[p],
             r \notin overtaken => Knows(r)'
      PROVE  UpdatersKnow'
  BY <1>1, StepKnows
<1>2. ASSUME NEW r \in Request, NEW a \in Application, CreateApplication(r, a)
      PROVE  UpdatersKnow'
\* Who updates a row that does not exist yet has been overtaken.
  <2>1. \A p \in Request : Updating(p, a) => p \in overtaken
    BY <1>2, RequestShape, StatusFacts
    DEF CreateApplication, UpdatersKnow, Knows, Updating, RowsExist, Missing
  <2>2. Knows(r)'
    BY <1>2 DEF CreateApplication, Knows, TypeOK
  <2>3. /\ overtaken' = overtaken
        /\ \A p \in Request \ {r} : req'[p] = req[p]
    BY <1>2 DEF CreateApplication, history, lateness, TypeOK
  <2>4. \A b \in Application : b # a => status'[b] = status[b]
    BY <1>2 DEF CreateApplication, TypeOK
  <2> QED
    BY <2>1, <2>2, <2>3, <2>4, StepKnows
<1>3. ASSUME NEW r \in Request, Arrive(r),
             ~ \E a \in Application : CreateApplication(r, a)
      PROVE  UpdatersKnow'
  <2>1. status' = status /\ overtaken' = overtaken
    BY <1>3
    DEF Arrive, RemoveApplication, PatchApplication, CreateCondition,
        PatchCondition, RemoveCondition, table, history, lateness
  <2>2. \A p \in Request \ {r} : req'[p] = req[p]
    BY <1>3
    DEF Arrive, RemoveApplication, PatchApplication, CreateCondition,
        PatchCondition, RemoveCondition, TypeOK
  <2>3. ASSUME NEW a \in Application, NEW s \in PatchedTo,
               PatchApplication(r, a, s)
        PROVE  Knows(r)'
    BY <2>1, <2>3 DEF PatchApplication, Knows, TypeOK
  <2>4. \/ req'[r].pc \notin {"AnnounceCreated", "Promote", "WriteApp",
                             "Announce"}
        \/ \E a \in Application, s \in PatchedTo : PatchApplication(r, a, s)
    <3>1. ASSUME NEW a \in Application, RemoveApplication(r, a)
          PROVE  req'[r].pc = "Idle"
      BY <3>1 DEF RemoveApplication, Idle
    <3>2. ASSUME NEW c \in Condition, NEW a \in Application \cup {NoApp},
                 NEW s \in ConditionTo,
                 CreateCondition(r, c, a, s) \/ PatchCondition(r, c, a, s)
          PROVE  req'[r].pc \in {"Evaluate", "WriteCond"}
      BY <3>2 DEF CreateCondition, PatchCondition, TypeOK
    <3>3. ASSUME NEW c \in Condition, RemoveCondition(r, c)
          PROVE  req'[r].pc = "DeleteCond"
      BY <3>3 DEF RemoveCondition, TypeOK
    <3> QED
      BY <1>3, <3>1, <3>2, <3>3 DEF Arrive
  <2>5. Knows(r)'
    BY <2>3, <2>4 DEF Knows
  <2> QED
    BY <1>1, <2>1, <2>2, <2>5
<1>4. ASSUME NEW r \in Request, Ends(r), status' = status PROVE UpdatersKnow'
  <2>1. /\ \A p \in Request \ {r} : req'[p] = req[p]
        /\ \A p \in Request \ {r} : p \in overtaken => p \in overtaken'
        /\ Knows(r)'
    BY <1>4 DEF Ends, Knows, Idle, TypeOK
  <2> QED
    BY <1>4, <2>1, StepKnows
<1>5. ASSUME NEW r \in Request, WriteCondition(r) \/ DeleteCondition(r)
      PROVE  UpdatersKnow'
  <2>1. /\ status' = status /\ overtaken' = overtaken
        /\ \A p \in Request \ {r} : req'[p] = req[p]
        /\ req'[r].pc = "Evaluate"
    BY <1>5 DEF WriteCondition, DeleteCondition, TypeOK
  <2>2. Knows(r)'
    BY <2>1 DEF Knows
  <2> QED
    BY <1>1, <2>1, <2>2
<1>6. ASSUME NEW r \in Request, Evaluate(r) PROVE UpdatersKnow'
  <2>1. PICK a \in Application : a = req[r].app
    BY <1>6, RequestShape DEF Evaluate
  <2>2. /\ status' = status /\ overtaken' = overtaken
        /\ \A p \in Request \ {r} : req'[p] = req[p]
        /\ \/ req'[r] = Idle
           \/ req'[r] = [pc |-> "Promote", app |-> a] /\ Promotable(a)
    BY <1>6, <2>1 DEF Evaluate, table, history, lateness, TypeOK
  <2>3. Knows(r)'
    BY <2>2 DEF Knows, Idle, Promotable
  <2> QED
    BY <1>1, <2>2, <2>3
<1>7. ASSUME NEW r \in Request, Promote(r), ~ Ends(r) PROVE UpdatersKnow'
  <2>1. PICK a \in Application : a = req[r].app
    BY <1>7, RequestShape DEF Promote
  <2>2. /\ status' = status /\ overtaken' = overtaken
        /\ \A p \in Request \ {r} : req'[p] = req[p]
        /\ req'[r] = [pc |-> "WriteApp", app |-> a, prev |-> status[a],
                      new |-> "UNCONDITIONAL_OFFER", auto |-> TRUE]
    BY <1>7, <2>1 DEF Promote, table, lateness, TypeOK
  <2>3. r \notin overtaken => status[a] = "CONDITIONAL_OFFER"
    BY <1>7, <2>1 DEF Promote, UpdatersKnow, Knows
  <2>4. r \notin overtaken => Knows(r)'
    BY <2>2, <2>3 DEF Knows
  <2> QED
    BY <1>1, <2>2, <2>4
<1>8. ASSUME NEW r \in Request, WriteApplication(r) PROVE UpdatersKnow'
  <2> DEFINE q == req[r]
             to == IF q.new = Unset THEN status[q.app] ELSE q.new
  <2>1. PICK a \in Application : a = q.app
    BY <1>8, RequestShape DEF WriteApplication
  <2>2. PICK t : t = to
    OBVIOUS
  <2>3. /\ status' = [status EXCEPT ![a] = t]
        /\ req'[r] = [pc |-> "Announce", app |-> a, prev |-> q.prev,
                      result |-> t, auto |-> q.auto]
        /\ \A p \in Request \ {r} : req'[p] = req[p]
        /\ overtaken' = IF status[a] = t THEN overtaken
                        ELSE overtaken \cup {s \in Request \ {r} :
                                               Updating(s, a)}
    BY <1>8, <2>1, <2>2 DEF WriteApplication, TypeOK
  <2>4. /\ status'[a] = t
        /\ \A b \in Application : b # a \/ t = status[a]
             => status'[b] = status[b]
    BY <2>3 DEF TypeOK
  <2>5. r \notin overtaken =>
          (q.auto => q.prev = "CONDITIONAL_OFFER" /\ t = "UNCONDITIONAL_OFFER")
    BY <1>8, <2>1, <2>2
    DEF WriteApplication, UpdatersKnow, Knows, Unset
  <2>6. r \notin overtaken => Knows(r)'
    BY <2>3, <2>4, <2>5 DEF Knows
  <2>7. r \notin overtaken' => r \notin overtaken
    BY <2>3
  <2>8. \A p \in Request \ {r}, b \in Application :
          Updating(p, b) => status'[b] = status[b] \/ p \in overtaken'
    BY <2>3, <2>4 DEF Updating
  <2>9. \A p \in Request \ {r} : p \in overtaken => p \in overtaken'
    BY <2>3
  <2> QED
    BY <2>3, <2>6, <2>7, <2>8, <2>9, StepKnows
<1>9. CASE UNCHANGED vars
  BY <1>9 DEF vars, table, history, lateness, UpdatersKnow, Knows
<1> QED
  BY <1>2, <1>3, <1>4, <1>5, <1>6, <1>7, <1>8, <1>9
  DEF Next, Continue, AnnounceCreated, Announce, Abort, Promote, table

------------------------------------------------------------------------------
(* The first offer is announced once.                                       *)

\* An offer once made is never taken back to a status before the offer.
Offered == {"CONDITIONAL_OFFER", "UNCONDITIONAL_OFFER", "FIRM", "INSURANCE",
            "DECLINED", "WITHDRAWN"}

\* Request r is about to announce the first offer of application a.
Offers(r, a) ==
  req[r].pc = "Announce" /\ req[r].app = a /\ FirstOffer(req[r])

OffersCounted ==
  \A a \in Application \ crossed :
    /\ offersMade[a] > 0 => offersMade[a] = 1 /\ status[a] \in Offered
    /\ \A r \in Request :
         Offers(r, a) => /\ offersMade[a] = 0
                         /\ status[a] \in Offered
                         /\ \A p \in Request : Offers(p, a) => p = r

LEMMA OfferFacts ==
  ASSUME NEW s \in ApplicationStatus, NEW t \in ApplicationStatus,
         ValidMove(s, t)
  PROVE  /\ s \in Offered => t \in Offered
         /\ s \notin OfferStates /\ t \in OfferStates => s \notin Offered
         /\ OfferStates \subseteq Offered
BY DEF ValidMove, ValidTransitions, ApplicationStatus, Offered, OfferStates

LEMMA NextOffersCounted ==
  /\ TypeOK /\ RowsExist /\ WritersKnow /\ UpdatersKnow /\ OffersCounted
  /\ [Next]_vars
  => OffersCounted'
<1> SUFFICES ASSUME TypeOK, RowsExist, WritersKnow, UpdatersKnow,
                    OffersCounted, [Next]_vars
             PROVE  OffersCounted'
  OBVIOUS
\* A step after which at most as many offers are about to be announced.
<1>1. ASSUME UNCHANGED <<status, offersMade, crossed>>,
             \A p \in Request, a \in Application : Offers(p, a)' => Offers(p, a)
      PROVE  OffersCounted'
  BY <1>1 DEF OffersCounted
<1>2. ASSUME NEW r \in Request, \A p \in Request \ {r} : req'[p] = req[p],
             req'[r].pc # "Announce"
      PROVE  \A p \in Request, a \in Application : Offers(p, a)' => Offers(p, a)
  BY <1>2 DEF Offers, FirstOffer, Changed
<1>3. ASSUME NEW r \in Request, NEW a \in Application, CreateApplication(r, a)
      PROVE  OffersCounted'
  <2>1. /\ UNCHANGED <<offersMade, crossed>> /\ status[a] = Missing
        /\ \A b \in Application : b # a => status'[b] = status[b]
        /\ \A p \in Request \ {r} : req'[p] = req[p]
        /\ req'[r].pc = "AnnounceCreated"
    BY <1>3 DEF CreateApplication, TypeOK, events, history, lateness
  <2>2. \A p \in Request, b \in Application : Offers(p, b)' => Offers(p, b)
    BY <1>2, <2>1
  <2>3. Missing \notin Offered
    BY DEF Missing, Offered
  <2> QED
    BY <2>1, <2>2, <2>3 DEF OffersCounted, TypeOK
<1>4. ASSUME NEW r \in Request, WriteApplication(r)
      PROVE  OffersCounted'
  <2> DEFINE q == req[r]
             to == IF q.new = Unset THEN status[q.app] ELSE q.new
  <2>1. PICK a \in Application : a = q.app
    BY <1>4, RequestShape DEF WriteApplication
  <2>2. PICK t : t = to
    OBVIOUS
  <2>3. /\ status' = [status EXCEPT ![a] = t] /\ offersMade' = offersMade
        /\ req'[r] = [pc |-> "Announce", app |-> a, prev |-> q.prev,
                      result |-> t, auto |-> q.auto]
        /\ \A p \in Request \ {r} : req'[p] = req[p]
        /\ crossed' = IF r \in overtaken THEN crossed \cup {a} ELSE crossed
    BY <1>4, <2>1, <2>2 DEF WriteApplication, events, TypeOK
  <2>4. \A p \in Request \ {r}, b \in Application : Offers(p, b)' => Offers(p, b)
    BY <2>3 DEF Offers, FirstOffer, Changed
  <2>5. \A b \in Application : b # a => status'[b] = status[b] /\ ~ Offers(r, b)'
    BY <2>3 DEF Offers, TypeOK
  <2>6. ASSUME r \notin overtaken
        PROVE  /\ status[a] \in ApplicationStatus /\ q.prev = status[a]
               /\ t \in ApplicationStatus /\ ValidMove(status[a], t)
    <3>1. /\ q.prev = status[a]
          /\ q.prev \in ApplicationStatus
          /\ q.new \in ApplicationStatus \cup {Unset}
          /\ q.new # Unset => ValidMove(q.prev, q.new)
      BY <1>4, <2>1, <2>6, RequestShape
      DEF WriteApplication, UpdatersKnow, Knows, WritersKnow
    <3> QED
      BY <2>1, <2>2, <3>1 DEF ValidMove
  <2>7. ASSUME r \notin overtaken, a \notin crossed, Offers(r, a)'
        PROVE  /\ offersMade[a] = 0 /\ t \in Offered
               /\ \A p \in Request : ~ Offers(p, a)
    <3>1. status[a] \notin OfferStates /\ t \in OfferStates
      BY <2>3, <2>6, <2>7 DEF Offers, FirstOffer, Changed
    <3>2. status[a] \notin Offered /\ t \in Offered
      BY <2>6, <2>7, <3>1, OfferFacts
    <3> QED
      BY <2>7, <3>2 DEF OffersCounted, TypeOK
  <2>8. ASSUME NEW b \in Application, b \notin crossed'
        PROVE  /\ offersMade[b] > 0 =>
                    offersMade[b] = 1 /\ status'[b] \in Offered
               /\ \A p \in Request :
                    Offers(p, b)' => /\ offersMade[b] = 0
                                     /\ status'[b] \in Offered
                                     /\ \A s \in Request : Offers(s, b)' => s = p
    <3>1. CASE b # a
      BY <2>3, <2>4, <2>5, <2>8, <3>1 DEF OffersCounted
    <3>2. CASE b = a
      <4>1. r \notin overtaken /\ a \notin crossed
        BY <2>3, <2>8, <3>2
      <4>2. status[a] \in Offered => t \in Offered
        BY <2>6, <4>1, OfferFacts
      <4>3. status'[a] = t
        BY <2>3 DEF TypeOK
      <4>4. CASE Offers(r, a)'
        BY <2>4, <2>7, <3>2, <4>1, <4>3, <4>4
      <4>5. CASE ~ Offers(r, a)'
        BY <2>4, <3>2, <4>1, <4>2, <4>3, <4>5 DEF OffersCounted
      <4> QED
        BY <4>4, <4>5
    <3> QED
      BY <3>1, <3>2
  <2> QED
    BY <2>3, <2>8 DEF OffersCounted
<1>5. ASSUME NEW r \in Request, Announce(r)
      PROVE  OffersCounted'
  <2>1. PICK a \in Application : a = req[r].app
    BY <1>5, RequestShape DEF Announce
  <2>2. /\ status' = status /\ crossed' = crossed
        /\ offersMade' = IF FirstOffer(req[r]) /\ offersMade[a] < 2
                         THEN [offersMade EXCEPT ![a] = @ + 1]
                         ELSE offersMade
        /\ req'[r].pc = "Idle"
        /\ \A p \in Request \ {r} : req'[p] = req[p]
    BY <1>5, <2>1 DEF Announce, Ends, Idle, table, TypeOK
  <2>3. /\ \A p \in Request, b \in Application : Offers(p, b)' => Offers(p, b)
        /\ \A b \in Application : ~ Offers(r, b)'
    BY <1>2, <2>2 DEF Offers
  <2>4. CASE FirstOffer(req[r])
    <3>1. Offers(r, a)
      BY <1>5, <2>1, <2>4 DEF Announce, Offers
    <3>2. \A b \in Application : b # a => offersMade'[b] = offersMade[b]
      BY <2>2 DEF TypeOK
    <3>3. a \notin crossed =>
            /\ offersMade'[a] = 1 /\ status[a] \in Offered
            /\ \A p \in Request : ~ Offers(p, a)'
      BY <2>2, <2>3, <2>4, <3>1 DEF OffersCounted, TypeOK
    <3> QED
      BY <2>2, <2>3, <3>2, <3>3 DEF OffersCounted
  <2>5. CASE ~ FirstOffer(req[r])
    BY <1>1, <2>2, <2>3, <2>5
  <2> QED
    BY <2>4, <2>5
<1>6. ASSUME NEW r \in Request, Arrive(r),
             ~ \E a \in Application : CreateApplication(r, a)
      PROVE  OffersCounted'
  <2>1. UNCHANGED <<status, offersMade, crossed>>
    BY <1>6
    DEF Arrive, RemoveApplication, PatchApplication, CreateCondition,
        PatchCondition, RemoveCondition, table, events, history, lateness
  <2>2. \A p \in Request \ {r} : req'[p] = req[p]
    BY <1>6
    DEF Arrive, RemoveApplication, PatchApplication, CreateCondition,
        PatchCondition, RemoveCondition, TypeOK
  <2>3. req[r] = Idle
    BY <1>6
    DEF Arrive, RemoveApplication, PatchApplication, CreateCondition,
        PatchCondition, RemoveCondition
  <2>4. req'[r].pc # "Announce"
    <3>1. ASSUME NEW a \in Application, RemoveApplication(r, a)
          PROVE  req' = req
      BY <3>1 DEF RemoveApplication
    <3>2. ASSUME NEW a \in Application, NEW s \in PatchedTo,
                 PatchApplication(r, a, s)
          PROVE  req'[r].pc = "WriteApp"
      BY <3>2 DEF PatchApplication, TypeOK
    <3>3. ASSUME NEW c \in Condition, NEW a \in Application \cup {NoApp},
                 NEW s \in ConditionTo,
                 CreateCondition(r, c, a, s) \/ PatchCondition(r, c, a, s)
          PROVE  req'[r].pc \in {"Evaluate", "WriteCond"}
      BY <3>3 DEF CreateCondition, PatchCondition, TypeOK
    <3>4. ASSUME NEW c \in Condition, RemoveCondition(r, c)
          PROVE  req'[r].pc = "DeleteCond"
      BY <3>4 DEF RemoveCondition, TypeOK
    <3> QED
      BY <1>6, <2>3, <3>1, <3>2, <3>3, <3>4 DEF Arrive, Idle
  <2> QED
    BY <1>1, <1>2, <2>1, <2>2, <2>4
<1>7. ASSUME NEW r \in Request,
             \/ AnnounceCreated(r) \/ WriteCondition(r) \/ DeleteCondition(r)
             \/ Evaluate(r) \/ Promote(r) \/ Abort(r)
      PROVE  OffersCounted'
  <2>1. UNCHANGED <<status, offersMade, crossed>>
    BY <1>7
    DEF AnnounceCreated, WriteCondition, DeleteCondition, Evaluate, Promote,
        Abort, Ends, table, events, history, lateness
  <2>2. /\ \A p \in Request \ {r} : req'[p] = req[p]
        /\ req'[r].pc # "Announce"
    <3>1. CASE Ends(r)
      BY <3>1 DEF Ends, Idle, TypeOK
    <3>2. CASE WriteCondition(r) \/ DeleteCondition(r)
      BY <3>2 DEF WriteCondition, DeleteCondition, TypeOK
    <3>3. CASE Evaluate(r)
      BY <3>3 DEF Evaluate, Idle, TypeOK
    <3>4. CASE Promote(r)
      BY <3>1, <3>4 DEF Promote, TypeOK
    <3> QED
      BY <1>7, <3>1, <3>2, <3>3, <3>4 DEF AnnounceCreated, Abort
  <2> QED
    BY <1>1, <1>2, <2>1, <2>2
<1>8. CASE UNCHANGED vars
  BY <1>1, <1>8
  DEF vars, table, events, history, lateness, Offers, FirstOffer, Changed
<1> QED
  BY <1>3, <1>4, <1>5, <1>6, <1>7, <1>8 DEF Next, Continue

------------------------------------------------------------------------------
(* A change is told, or about to be, or its event was lost or crossed.      *)

\* Request r, whom nobody has overtaken, is about to tell the status of a.
Tells(r, a) ==
  /\ r \notin overtaken
  /\ req[r].pc \in {"Announce", "AnnounceCreated"}
  /\ req[r].app = a
  /\ req[r].pc = "Announce" => Changed(req[r])

Told(a) == announced[a] = status[a] \/ a \in unannounced

ChangesPending ==
  \A a \in Application : Told(a) \/ \E r \in Request : Tells(r, a)

LEMMA InitEvents == Init => /\ OvertakenUpdate /\ UpdatersKnow
                            /\ OffersCounted /\ ChangesPending
BY DEF Init, OvertakenUpdate, UpdatersKnow, Knows, OffersCounted, Offers,
       ChangesPending, Told, Idle

LEMMA NextChangesPending ==
  /\ TypeOK /\ OvertakenUpdate /\ UpdatersKnow /\ ChangesPending
  /\ [Next]_vars
  => ChangesPending'
<1> SUFFICES ASSUME TypeOK, OvertakenUpdate, UpdatersKnow, ChangesPending,
                    [Next]_vars
             PROVE  ChangesPending'
  OBVIOUS
\* What a step of request r must respect.
<1>1. ASSUME NEW r \in Request, \A p \in Request \ {r} : req'[p] = req[p],
             \A a \in Application :
               \/ Told(a)' \/ Tells(r, a)'
               \/ /\ ~ Told(a) /\ ~ Tells(r, a)
                  /\ \A p \in Request \ {r} :
                       Updating(p, a) => (p \in overtaken' => p \in overtaken)
      PROVE  ChangesPending'
  <2> SUFFICES ASSUME NEW a \in Application, ~ Told(a)', ~ Tells(r, a)'
               PROVE  \E p \in Request : Tells(p, a)'
    BY DEF ChangesPending
  <2>1. PICK p \in Request : p # r /\ Tells(p, a)
    BY <1>1 DEF ChangesPending
  <2>2. Tells(p, a)'
    BY <1>1, <2>1 DEF Tells, Updating, Changed
  <2> QED
    BY <2>2
<1>2. ASSUME NEW r \in Request, UNCHANGED <<status, announced>>,
             unannounced \subseteq unannounced',
             overtaken' \subseteq overtaken,
             \A p \in Request \ {r} : req'[p] = req[p],
             \A a \in Application : Tells(r, a) => a \in unannounced'
      PROVE  ChangesPending'
  BY <1>1, <1>2 DEF Told
<1>3. ASSUME NEW r \in Request, NEW a \in Application, CreateApplication(r, a)
      PROVE  ChangesPending'
  <2>1. /\ ~ \E b \in Application : Tells(r, b)
        /\ \A b \in Application : b # a => status'[b] = status[b]
        /\ UNCHANGED <<announced, unannounced, overtaken>>
        /\ \A p \in Request \ {r} : req'[p] = req[p]
        /\ req'[r] = [pc |-> "AnnounceCreated", app |-> a]
    BY <1>3
    DEF CreateApplication, Tells, TypeOK, Idle, events, history, lateness
  <2>2. Told(a)' \/ Tells(r, a)'
    BY <1>3, <2>1 DEF CreateApplication, OvertakenUpdate, Tells, Idle
  <2> QED
    BY <1>1, <2>1, <2>2 DEF Told
<1>4. ASSUME NEW r \in Request, WriteApplication(r)
      PROVE  ChangesPending'
  <2> DEFINE q == req[r]
             to == IF q.new = Unset THEN status[q.app] ELSE q.new
  <2>1. PICK a \in Application : a = q.app
    BY <1>4, RequestShape DEF WriteApplication
  <2>2. PICK t : t = to
    OBVIOUS
  <2>3. /\ status' = [status EXCEPT ![a] = t]
        /\ req'[r] = [pc |-> "Announce", app |-> a, prev |-> q.prev,
                      result |-> t, auto |-> q.auto]
        /\ announced' = announced
        /\ unannounced' = IF r \in overtaken THEN unannounced \cup {a}
                          ELSE unannounced
        /\ overtaken' = IF status[a] = t THEN overtaken
                        ELSE overtaken \cup {s \in Request \ {r} :
                                               Updating(s, a)}
        /\ \A p \in Request \ {r} : req'[p] = req[p]
    BY <1>4, <2>1, <2>2 DEF WriteApplication, TypeOK, events
  <2>4. \A b \in Application : ~ Tells(r, b)
    BY <1>4 DEF WriteApplication, Tells
  <2>5. \A b \in Application : b # a \/ t = status[a] => status'[b] = status[b]
    BY <2>3 DEF TypeOK
  <2>6. CASE r \in overtaken
    <3>1. Told(a)'
      BY <2>3, <2>6 DEF Told
    <3>2. \A b \in Application : b # a =>
            /\ Told(b)' <=> Told(b)
            /\ \A p \in Request \ {r} :
                 Updating(p, b) => (p \in overtaken' => p \in overtaken)
      BY <2>3, <2>5 DEF Told, Updating
    <3> QED
      BY <1>1, <2>3, <2>4, <3>1, <3>2
  <2>7. CASE r \notin overtaken
    <3>1. q.prev = status[a]
      BY <1>4, <2>1, <2>7 DEF WriteApplication, UpdatersKnow, Knows
    <3>2. t # status[a] => Tells(r, a)'
      BY <2>3, <2>7, <3>1 DEF Tells, Changed
    <3>3. \A b \in Application : b # a \/ t = status[a] =>
            /\ Told(b)' <=> Told(b)
            /\ \A p \in Request \ {r} :
                 Updating(p, b) => (p \in overtaken' => p \in overtaken)
      BY <2>3, <2>5, <2>7 DEF Told, Updating
    <3> QED
      BY <1>1, <2>3, <2>4, <3>2, <3>3
  <2> QED
    BY <2>6, <2>7
<1>5. ASSUME NEW r \in Request, Announce(r) \/ AnnounceCreated(r)
      PROVE  ChangesPending'
  <2>1. PICK a \in Application : a = req[r].app
    BY <1>5, RequestShape DEF Announce, AnnounceCreated
  <2>2. /\ status' = status /\ overtaken' = overtaken \ {r}
        /\ \A p \in Request \ {r} : req'[p] = req[p]
        /\ \A b \in Application :
             b # a => /\ announced'[b] = announced[b]
                      /\ b \in unannounced' <=> b \in unannounced
                      /\ ~ Tells(r, b)
    BY <1>5, <2>1 DEF Announce, AnnounceCreated, Ends, Tells, table, TypeOK
  <2>3. Told(a) \/ Tells(r, a) => Told(a)'
    <3>1. CASE r \in overtaken
      BY <1>5, <2>1, <2>2, <3>1 DEF Announce, AnnounceCreated, Told, Tells
    <3>2. CASE AnnounceCreated(r) /\ r \notin overtaken
      BY <2>1, <2>2, <3>2
      DEF AnnounceCreated, UpdatersKnow, Knows, Told, TypeOK
    <3>3. CASE Announce(r) /\ Changed(req[r]) /\ r \notin overtaken
      BY <2>1, <2>2, <3>3 DEF Announce, UpdatersKnow, Knows, Told, TypeOK
    <3>4. CASE Announce(r) /\ ~ Changed(req[r])
      BY <2>1, <2>2, <3>4 DEF Announce, Told, Tells
    <3> QED
      BY <1>5, <3>1, <3>2, <3>3, <3>4
  <2>4. \A b \in Application : Told(b) \/ Tells(r, b) => Told(b)'
    BY <2>2, <2>3 DEF Told
  <2> QED
    BY <1>1, <2>2, <2>4
<1>6. ASSUME NEW r \in Request, Abort(r)
      PROVE  ChangesPending'
  <2>1. /\ UNCHANGED <<status, announced>>
        /\ \A p \in Request \ {r} : req'[p] = req[p]
        /\ unannounced \subseteq unannounced'
        /\ overtaken' \subseteq overtaken
    BY <1>6 DEF Abort, Ends, table, events, TypeOK
  <2>2. \A b \in Application : Tells(r, b) => b \in unannounced'
    BY <1>6 DEF Abort, Tells, Changed
  <2> QED
    BY <1>2, <2>1, <2>2
<1>7. ASSUME NEW r \in Request, Arrive(r),
             ~ \E a \in Application : CreateApplication(r, a)
      PROVE  ChangesPending'
  <2>1. /\ UNCHANGED <<status, announced, unannounced, overtaken>>
        /\ \A p \in Request \ {r} : req'[p] = req[p]
    BY <1>7
    DEF Arrive, PatchApplication, CreateCondition, PatchCondition,
        RemoveCondition, RemoveApplication, table, events, history, lateness,
        TypeOK
  <2>2. req[r] = Idle
    BY <1>7
    DEF Arrive, PatchApplication, CreateCondition, PatchCondition,
        RemoveCondition, RemoveApplication
  <2>3. \A a \in Application : ~ Tells(r, a)
    BY <2>2 DEF Tells, Idle
  <2> QED
    BY <1>2, <2>1, <2>3
<1>8. ASSUME NEW r \in Request,
             \/ WriteCondition(r) \/ DeleteCondition(r) \/ Evaluate(r)
             \/ Promote(r)
      PROVE  ChangesPending'
  <2>1. /\ UNCHANGED <<status, announced, unannounced>>
        /\ overtaken' \subseteq overtaken
        /\ \A p \in Request \ {r} : req'[p] = req[p]
    BY <1>8
    DEF WriteCondition, DeleteCondition, Evaluate, Promote, Ends, table,
        events, history, lateness, TypeOK
  <2>2. \A a \in Application : ~ Tells(r, a)
    BY <1>8 DEF WriteCondition, DeleteCondition, Evaluate, Promote, Tells
  <2> QED
    BY <1>2, <2>1, <2>2
<1>9. CASE UNCHANGED vars
  BY <1>9
  DEF vars, table, events, history, lateness, ChangesPending, Told, Tells,
      Changed
<1> QED
  BY <1>3, <1>4, <1>5, <1>6, <1>7, <1>8, <1>9 DEF Next, Continue

EventsInv ==
  /\ TypeOK /\ RowsExist /\ DecisionStamped /\ WritersKnow
  /\ OvertakenUpdate /\ UpdatersKnow /\ OffersCounted /\ ChangesPending

LEMMA EventsInductive ==
  /\ Init => EventsInv
  /\ EventsInv /\ [Next]_vars => EventsInv'
<1>1. Init => EventsInv
  BY InitTypeOK, InitRowsExist, InitStamped, InitEvents DEF EventsInv
<1>2. EventsInv /\ [Next]_vars => EventsInv'
  BY NextTypeOK, NextRowsExist, NextStamped, NextOvertakenUpdate,
     NextUpdatersKnow, NextOffersCounted, NextChangesPending DEF EventsInv
<1> QED
  BY <1>1, <1>2

\* However requests interleave and abort, the events of an application tell
\* its status, its first offer once, and an automatic promotion from a manual
\* decision - except what a request announces that another one overtook.
THEOREM EventsAreTrue == Spec => []EventsTellTheTruth
<1>1. EventsInv => EventsTellTheTruth
  <2> SUFFICES ASSUME EventsInv PROVE EventsTellTheTruth
    OBVIOUS
  <2>1. ChangesAnnounced
    BY DEF EventsInv, ChangesPending, Told, Tells, ChangesAnnounced
  <2>2. OfferMadeAtMostOnce
    BY DEF EventsInv, OffersCounted, OfferMadeAtMostOnce, TypeOK
  <2>3. ConditionsMetIsOwnPromotion
    BY DEF EventsInv, UpdatersKnow, Knows, ConditionsMetIsOwnPromotion
  <2> QED
    BY <2>1, <2>2, <2>3 DEF EventsTellTheTruth
<1> QED
  BY <1>1, EventsInductive, PTL DEF Spec

------------------------------------------------------------------------------
(* Updates of one application that do not overlap: nobody is overtaken, and *)
(* the applications table is the abstract lifecycle.                        *)

\* What the code does not enforce: two requests never update the same
\* application at once.  Requests on different applications, and the writes
\* of conditions, may still interleave in every way.
UpdatesApart ==
  \A p, q \in Request, a \in Application :
    Updating(p, a) /\ Updating(q, a) => p = q

LEMMA NobodyOvertaken ==
  TypeOK /\ UpdatesApart /\ overtaken = {} /\ [Next]_vars => overtaken' = {}
<1> SUFFICES ASSUME TypeOK, UpdatesApart, overtaken = {}, [Next]_vars
             PROVE  overtaken' = {}
  OBVIOUS
<1>1. ASSUME NEW r \in Request, WriteApplication(r) PROVE overtaken' = {}
  <2>1. PICK a \in Application : a = req[r].app
    BY <1>1, RequestShape DEF WriteApplication
  <2>2. \A s \in Request \ {r} : ~ Updating(s, a)
    BY <1>1, <2>1 DEF WriteApplication, UpdatesApart, Updating
  <2> QED
    BY <1>1, <2>1, <2>2 DEF WriteApplication
<1>2. ASSUME NEW r \in Request, Arrive(r) PROVE overtaken' = overtaken
  BY <1>2
  DEF Arrive, CreateApplication, RemoveApplication, PatchApplication,
      CreateCondition, PatchCondition, RemoveCondition, history, lateness
<1>3. ASSUME NEW r \in Request, Continue(r) \/ Abort(r), ~ WriteApplication(r)
      PROVE  overtaken' \subseteq overtaken
  BY <1>3
  DEF Continue, Abort, AnnounceCreated, Announce, WriteCondition,
      DeleteCondition, Evaluate, Promote, Ends, history, lateness
<1>4. CASE UNCHANGED vars
  BY <1>4 DEF vars, history, lateness
<1> QED
  BY <1>1, <1>2, <1>3, <1>4 DEF Next

LEMMA NextCanonical ==
  /\ TypeOK /\ RowsExist /\ WritersKnow /\ UpdatersKnow /\ overtaken = {}
  /\ [Next]_vars
  => [Canonical!Next]_status
<1> SUFFICES ASSUME TypeOK, RowsExist, WritersKnow, UpdatersKnow,
                    overtaken = {}, [Next]_vars
             PROVE  [Canonical!Next]_status
  OBVIOUS
<1>1. ASSUME NEW r \in Request, NEW a \in Application, CreateApplication(r, a)
      PROVE  Canonical!Next
  BY <1>1 DEF CreateApplication, Canonical!Next, Canonical!Create
<1>2. ASSUME NEW r \in Request, WriteApplication(r)
      PROVE  [Canonical!Next]_status
  <2> DEFINE a == req[r].app
             to == IF req[r].new = Unset THEN status[a] ELSE req[r].new
  <2>1. /\ a \in Application
        /\ status[a] # Missing
        /\ to = status[a] \/ to \in ValidTransitions[status[a]]
    BY <1>2, RequestShape
    DEF WriteApplication, RowsExist, WritersKnow, UpdatersKnow, Knows, ValidMove
  <2>2. status' = [status EXCEPT ![a] = to]
    BY <1>2 DEF WriteApplication
  <2>3. CASE to = status[a]
    BY <2>1, <2>2, <2>3 DEF TypeOK
  <2>4. CASE to \in ValidTransitions[status[a]]
    BY <2>1, <2>2, <2>4 DEF Canonical!Next, Canonical!Move
  <2> QED
    BY <2>1, <2>3, <2>4
<1>3. ASSUME NEW r \in Request, Arrive(r),
             ~ \E a \in Application : CreateApplication(r, a)
      PROVE  status' = status
  BY <1>3
  DEF Arrive, RemoveApplication, PatchApplication, CreateCondition,
      PatchCondition, RemoveCondition, table
<1>4. ASSUME NEW r \in Request, Continue(r) \/ Abort(r), ~ WriteApplication(r)
      PROVE  status' = status
  BY <1>4
  DEF Continue, Abort, AnnounceCreated, Announce, WriteCondition,
      DeleteCondition, Evaluate, Promote, table
<1>5. CASE UNCHANGED vars
  BY <1>5 DEF vars, table
<1> QED
  BY <1>1, <1>2, <1>3, <1>4, <1>5 DEF Next

\* If no two requests update the same application at once, every status ever
\* written follows VALID_APPLICATION_TRANSITIONS, whatever else interleaves
\* and whatever aborts in between.
THEOREM ApartImplementsLifecycle == Spec /\ []UpdatesApart => FollowsGraph
<1> DEFINE IInv == EventsInv /\ overtaken = {}
<1>1. Init => Canonical!Init /\ IInv
  BY EventsInductive DEF Init, Canonical!Init
<1>2. IInv /\ UpdatesApart /\ [Next]_vars => IInv'
  BY EventsInductive, NobodyOvertaken DEF EventsInv
<1>3. IInv /\ [Next]_vars => [Canonical!Next]_status
  BY NextCanonical DEF EventsInv
<1> QED
  BY <1>1, <1>2, <1>3, PTL DEF Spec, FollowsGraph, Canonical!Spec

------------------------------------------------------------------------------
(* What the backstop evaluated still holds when it promotes, unless another *)
(* request has written since.                                               *)

PromotersKnow ==
  \A r \in Request \ reverted, a \in Application :
    Promoting(r, a) => AllSatisfied(a)

LEMMA NextPromotersKnow ==
  TypeOK /\ RowsExist /\ PromotersKnow /\ [Next]_vars => PromotersKnow'
<1> SUFFICES ASSUME TypeOK, RowsExist, PromotersKnow, [Next]_vars
             PROVE  PromotersKnow'
  OBVIOUS
\* Steps that write no condition.
<1>1. ASSUME UNCHANGED condition, NEW r \in Request,
             \A p \in Request \ {r} : req'[p] = req[p],
             reverted \ {r} \subseteq reverted',
             \A a \in Application :
               Promoting(r, a)'
                 => AllSatisfied(a) \/ (Promoting(r, a) /\ reverted' = reverted)
      PROVE  PromotersKnow'
  <2> SUFFICES ASSUME NEW p \in Request, NEW a \in Application,
                      p \notin reverted', Promoting(p, a)'
               PROVE  AllSatisfied(a)'
    BY DEF PromotersKnow
  <2>1. AllSatisfied(a)
    <3>1. CASE p = r
      BY <1>1, <3>1 DEF PromotersKnow
    <3>2. CASE p # r
      BY <1>1, <3>2 DEF PromotersKnow, Promoting
    <3> QED
      BY <3>1, <3>2
  <2> QED
    BY <1>1, <2>1 DEF AllSatisfied, LiveConditions, Live
\* A request that writes a condition of the applications in A has no promotion
\* under way, and those that promote one of them are recorded.
<1>2. ASSUME NEW r \in Request, NEW A, NEW c \in Condition,
             \A p \in Request \ {r} : req'[p] = req[p],
             req'[r].pc = "Evaluate",
             RevertsOthers(r, A),
             \A d \in Condition : d # c => condition'[d] = condition[d],
             Live(c) => condition[c].app \in A,
             Live(c)' => condition'[c].app \in A
      PROVE  PromotersKnow'
  <2> SUFFICES ASSUME NEW p \in Request, NEW a \in Application,
                      p \notin reverted', Promoting(p, a)'
               PROVE  AllSatisfied(a)'
    BY DEF PromotersKnow
  <2>1. p # r
    BY <1>2 DEF Promoting
  <2>2. Promoting(p, a) /\ p \notin reverted /\ a \notin A
    BY <1>2, <2>1 DEF Promoting, RevertsOthers
  <2>3. AllSatisfied(a)
    BY <2>2 DEF PromotersKnow
  <2>4. \A d \in Condition :
          \/ condition'[d] = condition[d]
          \/ /\ ~ (Live(d) /\ condition[d].app = a)
             /\ ~ (Live(d) /\ condition[d].app = a)'
    BY <1>2, <2>2
  <2> QED
    BY <2>3, <2>4, SameConditions
<1>3. ASSUME NEW r \in Request, NEW c \in Condition, NEW a \in Application,
             NEW s \in ConditionTo, CreateCondition(r, c, a, s)
      PROVE  PromotersKnow'
  <2>1. /\ \A p \in Request \ {r} : req'[p] = req[p]
        /\ req'[r].pc = "Evaluate"
        /\ \A d \in Condition : d # c => condition'[d] = condition[d]
        /\ ~ Live(c) /\ condition'[c].app \in {a}
    BY <1>3 DEF CreateCondition, Live, Missing, TypeOK
  <2> QED
    BY <1>2, <1>3, <2>1 DEF CreateCondition, Live
<1>4. ASSUME NEW r \in Request, WriteCondition(r) PROVE PromotersKnow'
  <2> DEFINE c == req[r].cond
             from == condition[c].app
             to == IF req[r].app = NoApp THEN from ELSE req[r].app
  <2>1. /\ c \in Condition
        /\ condition[c] \in [state : {"LIVE", "DELETED"}, app : Application,
                              status : ConditionStatus]
    BY <1>4, RequestShape DEF WriteCondition, RowsExist, TypeOK, ConditionRow
  <2>2. /\ \A p \in Request \ {r} : req'[p] = req[p]
        /\ req'[r].pc = "Evaluate"
        /\ \A d \in Condition : d # c => condition'[d] = condition[d]
        /\ RevertsOthers(r, {from, to})
    BY <1>4 DEF WriteCondition, TypeOK
  <2>3. condition'[c].app = to
    BY <1>4, <2>1 DEF WriteCondition, TypeOK
  <2> QED
    BY <1>2, <2>1, <2>2, <2>3
<1>5. ASSUME NEW r \in Request, DeleteCondition(r) PROVE PromotersKnow'
  <2> DEFINE c == req[r].cond
  <2>1. /\ c \in Condition
        /\ condition[c] \in [state : {"LIVE", "DELETED"}, app : Application,
                              status : ConditionStatus]
    BY <1>5, RequestShape DEF DeleteCondition, RowsExist, TypeOK, ConditionRow
  <2>2. /\ \A p \in Request \ {r} : req'[p] = req[p]
        /\ req'[r].pc = "Evaluate"
        /\ \A d \in Condition : d # c => condition'[d] = condition[d]
        /\ RevertsOthers(r, {condition[c].app})
    BY <1>5 DEF DeleteCondition, TypeOK
  <2>3. condition'[c].state = "DELETED"
    BY <1>5, <2>1 DEF DeleteCondition, TypeOK
  <2> QED
    BY <1>2, <2>1, <2>2, <2>3 DEF Live
<1>6. ASSUME NEW r \in Request, Arrive(r),
             ~ \E c \in Condition, a \in Application, s \in ConditionTo :
                 CreateCondition(r, c, a, s)
      PROVE  PromotersKnow'
  <2>1. /\ UNCHANGED <<condition, reverted>>
        /\ \A p \in Request \ {r} : req'[p] = req[p]
    BY <1>6
    DEF Arrive, CreateApplication, RemoveApplication, PatchApplication,
        PatchCondition, RemoveCondition, table, history, lateness, TypeOK
  <2>2. \A a \in Application : ~ Promoting(r, a)'
    <3>1. ASSUME NEW a \in Application,
                 CreateApplication(r, a) \/ RemoveApplication(r, a)
          PROVE  req'[r].pc \in {"AnnounceCreated", "Idle"}
      BY <3>1 DEF CreateApplication, RemoveApplication, Idle, TypeOK
    <3>2. ASSUME NEW a \in Application, NEW s \in PatchedTo,
                 PatchApplication(r, a, s)
          PROVE  req'[r].pc = "WriteApp" /\ ~ req'[r].auto
      BY <3>2 DEF PatchApplication, TypeOK
    <3>3. ASSUME NEW c \in Condition, NEW a \in Application \cup {NoApp},
                 NEW s \in ConditionTo,
                 PatchCondition(r, c, a, s)
          PROVE  req'[r].pc = "WriteCond"
      BY <3>3 DEF PatchCondition, TypeOK
    <3>4. ASSUME NEW c \in Condition, RemoveCondition(r, c)
          PROVE  req'[r].pc = "DeleteCond"
      BY <3>4 DEF RemoveCondition, TypeOK
    <3> QED
      BY <1>6, <3>1, <3>2, <3>3, <3>4 DEF Arrive, Promoting
  <2> QED
    BY <1>1, <2>1, <2>2
<1>7. ASSUME NEW r \in Request, Ends(r), UNCHANGED condition
      PROVE  PromotersKnow'
  <2>1. /\ reverted \ {r} \subseteq reverted'
        /\ \A p \in Request \ {r} : req'[p] = req[p]
        /\ \A a \in Application : ~ Promoting(r, a)'
    BY <1>7 DEF Ends, Idle, Promoting, TypeOK
  <2> QED
    BY <1>1, <1>7, <2>1
<1>8. ASSUME NEW r \in Request, WriteApplication(r) PROVE PromotersKnow'
  <2>1. /\ UNCHANGED <<condition, reverted>>
        /\ \A p \in Request \ {r} : req'[p] = req[p]
        /\ req'[r].pc = "Announce"
    BY <1>8 DEF WriteApplication, TypeOK
  <2> QED
    BY <1>1, <2>1 DEF Promoting
<1>9. ASSUME NEW r \in Request, Evaluate(r) PROVE PromotersKnow'
  <2>1. /\ UNCHANGED <<condition, reverted>>
        /\ \A p \in Request \ {r} : req'[p] = req[p]
    BY <1>9 DEF Evaluate, table, history, lateness, TypeOK
  <2>2. \A a \in Application : Promoting(r, a)' => AllSatisfied(a)
    BY <1>9 DEF Evaluate, Promoting, Promotable, Idle, TypeOK
  <2> QED
    BY <1>1, <2>1, <2>2
<1>10. ASSUME NEW r \in Request, Promote(r), ~ Ends(r) PROVE PromotersKnow'
  <2>1. /\ UNCHANGED <<condition, reverted>>
        /\ \A p \in Request \ {r} : req'[p] = req[p]
        /\ \A a \in Application : Promoting(r, a)' => Promoting(r, a)
    BY <1>10 DEF Promote, Promoting, table, lateness, TypeOK
  <2> QED
    BY <1>1, <2>1
<1>11. CASE UNCHANGED vars
  BY <1>11
  DEF vars, table, history, lateness, PromotersKnow, Promoting, AllSatisfied,
      LiveConditions, Live
<1> QED
  BY <1>3, <1>4, <1>5, <1>6, <1>7, <1>8, <1>9, <1>10, <1>11
  DEF Next, Arrive, Continue, AnnounceCreated, Announce, Promote, Abort, table

\* However requests interleave, a promotion the backstop writes finds the
\* application at CONDITIONAL_OFFER with the conditions satisfied that it
\* evaluated, unless another request has moved the one or written one of the
\* others since.
THEOREM PromotionsAreJustified == Spec => PromotionsJustified
<1> DEFINE IInv == EventsInv /\ PromotersKnow
<1>1. Init => IInv
  BY EventsInductive DEF Init, PromotersKnow, Promoting, Idle
<1>2. IInv /\ [Next]_vars => IInv'
  BY EventsInductive, NextPromotersKnow DEF EventsInv
<1>3. IInv => \A r \in Request :
         req[r].pc = "WriteApp" /\ req'[r].pc = "Announce" /\ req[r].auto
           => /\ AllSatisfied(req[r].app) \/ r \in reverted
              /\ status[req[r].app] = "CONDITIONAL_OFFER" \/ r \in overtaken
  <2> SUFFICES ASSUME IInv, NEW r \in Request, req[r].pc = "WriteApp",
                      req[r].auto
               PROVE  /\ AllSatisfied(req[r].app) \/ r \in reverted
                      /\ \/ status[req[r].app] = "CONDITIONAL_OFFER"
                         \/ r \in overtaken
    OBVIOUS
  <2>1. req[r].app \in Application
    BY RequestShape DEF EventsInv
  <2>2. AllSatisfied(req[r].app) \/ r \in reverted
    BY <2>1 DEF PromotersKnow, Promoting
  <2>3. status[req[r].app] = "CONDITIONAL_OFFER" \/ r \in overtaken
    BY <2>1 DEF EventsInv, UpdatersKnow, Knows
  <2> QED
    BY <2>2, <2>3
<1> QED
  BY <1>1, <1>2, <1>3, PTL DEF Spec, PromotionsJustified
==============================================================================
