----------------------------- MODULE Admissions ------------------------------
(****************************************************************************)
(* Applications, their offer conditions and the auto-promotion backstop, as *)
(* served by applications.service.ts and offers.service.ts.                 *)
(*                                                                          *)
(* An HTTP request is a process: it runs alone between two awaits and every *)
(* awaited Prisma call is one atomic step, so two requests interleave       *)
(* exactly where the handlers await.  A slot r \in Request is reused when   *)
(* its request ends.                                                        *)
(****************************************************************************)
EXTENDS Naturals, FiniteSets

CONSTANTS
  Application, \* rows of the applications table
  Condition,   \* rows of the offer_conditions table
  Request,     \* how many HTTP requests may be in progress at once
  NoApp,       \* a PATCH body that carries no applicationId
  PatchedTo,   \* statuses PATCH /applications bodies carry; Unset: none
  ConditionTo  \* statuses /offers bodies carry; Unset: none

ASSUME NoAppAssumption == NoApp \notin Application

ApplicationStatus ==
  {"SUBMITTED", "UNDER_REVIEW", "INTERVIEW", "CONDITIONAL_OFFER",
   "UNCONDITIONAL_OFFER", "FIRM", "INSURANCE", "DECLINED", "WITHDRAWN",
   "REJECTED"}

ConditionStatus == {"PENDING", "MET", "NOT_MET", "WAIVED"}

Missing == "MISSING"     \* the row does not exist yet
Unset   == "UNSET"       \* the body carries no status

ASSUME BodiesAssumption ==
  /\ PatchedTo \subseteq ApplicationStatus \cup {Unset}
  /\ ConditionTo \subseteq ConditionStatus \cup {Unset}

\* VALID_APPLICATION_TRANSITIONS
ValidTransitions ==
  [s \in ApplicationStatus |->
     CASE s = "SUBMITTED"    -> {"UNDER_REVIEW", "WITHDRAWN", "REJECTED"}
       [] s = "UNDER_REVIEW" -> {"INTERVIEW", "CONDITIONAL_OFFER",
                                 "UNCONDITIONAL_OFFER", "REJECTED", "WITHDRAWN"}
       [] s = "INTERVIEW"    -> {"CONDITIONAL_OFFER", "UNCONDITIONAL_OFFER",
                                 "REJECTED", "WITHDRAWN"}
       [] s = "CONDITIONAL_OFFER" -> {"UNCONDITIONAL_OFFER", "FIRM",
                                      "INSURANCE", "DECLINED", "WITHDRAWN"}
       [] s = "UNCONDITIONAL_OFFER" -> {"FIRM", "INSURANCE", "DECLINED",
                                        "WITHDRAWN"}
       [] s = "FIRM"         -> {"WITHDRAWN"}
       [] s = "INSURANCE"    -> {"FIRM", "WITHDRAWN"}
       [] OTHER              -> {}]

MutantDecisionStates == {"CONDITIONAL_OFFER", "REJECTED"}
InstitutionalDecisionStates ==
  {"CONDITIONAL_OFFER", "UNCONDITIONAL_OFFER", "REJECTED"}

QualifyingConditionStatuses == {"MET", "WAIVED"}

OfferStates == {"CONDITIONAL_OFFER", "UNCONDITIONAL_OFFER"}

VARIABLES
  status,      \* [Application -> status of the row, or Missing]
  stamped,     \* applications whose decisionDate and decisionBy are set
  removed,     \* applications whose deletedAt is set
  condition,   \* [Condition -> [state, app, status]]
  req,         \* [Request -> where the request is and what it holds]
  announced,   \* [Application -> status the last emitted event gave]
  offersMade,  \* [Application -> application.offer_made events, up to 2]
  excused,     \* history: why an application may be left unpromoted
  unannounced, \* history: applications whose last change lost its event or
               \* was crossed by another change
  crossed,     \* history: applications an overtaken request has written
  overtaken,   \* history: requests whose application another request has
               \* moved since they read it
  reverted     \* history: requests whose application's conditions another
               \* request has written since they evaluated them

table == <<status, stamped, removed, condition>>
events == <<announced, offersMade>>
lateness == <<crossed, overtaken, reverted>>
history == <<excused, unannounced, lateness>>
vars == <<table, req, events, history>>

Idle == [pc |-> "Idle"]

\* The places where a request waits for the database, and what it carries.
RequestState ==
  UNION { [pc : {"Idle"}],
          [pc : {"AnnounceCreated"}, app : Application],
          [pc : {"WriteApp"}, app : Application, prev : ApplicationStatus,
           new : ApplicationStatus \cup {Unset}, auto : BOOLEAN],
          [pc : {"Announce"}, app : Application, prev : ApplicationStatus,
           result : ApplicationStatus, auto : BOOLEAN],
          [pc : {"WriteCond"}, cond : Condition,
           app : Application \cup {NoApp}, status : ConditionStatus],
          [pc : {"DeleteCond"}, cond : Condition, app : Application],
          [pc : {"Evaluate", "Promote"}, app : Application] }

ConditionRow ==
  UNION { [state : {Missing}],
          [state : {"LIVE", "DELETED"}, app : Application,
           status : ConditionStatus] }

TypeOK ==
  /\ status \in [Application -> ApplicationStatus \cup {Missing}]
  /\ stamped \subseteq Application
  /\ removed \subseteq Application
  /\ condition \in [Condition -> ConditionRow]
  /\ req \in [Request -> RequestState]
  /\ announced \in [Application -> ApplicationStatus \cup {Missing}]
  /\ offersMade \in [Application -> 0..2]
  /\ excused \in [Application -> SUBSET {"entered", "moved", "failed"}]
  /\ unannounced \subseteq Application
  /\ crossed \subseteq Application
  /\ overtaken \subseteq Request
  /\ reverted \subseteq Request

Init ==
  /\ status = [a \in Application |-> Missing]
  /\ stamped = {}
  /\ removed = {}
  /\ condition = [c \in Condition |-> [state |-> Missing]]
  /\ req = [r \in Request |-> Idle]
  /\ announced = [a \in Application |-> Missing]
  /\ offersMade = [a \in Application |-> 0]
  /\ excused = [a \in Application |-> {}]
  /\ unannounced = {}
  /\ crossed = {}
  /\ overtaken = {}
  /\ reverted = {}

------------------------------------------------------------------------------
(* The history variables record which requests act on rows that another     *)
(* request has written since they read them; no step depends on them.       *)

\* Request r is between its read of application a and its event about it.
Updating(r, a) ==
  /\ req[r].pc \in {"AnnounceCreated", "Promote", "WriteApp", "Announce"}
  /\ req[r].app = a

\* Request r has evaluated the conditions of a and has yet to promote it.
Promoting(r, a) ==
  /\ req[r].pc \in {"Promote", "WriteApp"}
  /\ req[r].app = a
  /\ req[r].pc = "WriteApp" => req[r].auto

\* Request r writes conditions of the applications in A.
RevertsOthers(r, A) ==
  reverted' = reverted \cup {s \in Request \ {r} :
                               \E a \in A : Promoting(s, a)}

Ends(r) ==
  /\ req' = [req EXCEPT ![r] = Idle]
  /\ overtaken' = overtaken \ {r}
  /\ reverted' = reverted \ {r}
  /\ UNCHANGED crossed

------------------------------------------------------------------------------
(* PATCH, POST and DELETE on /applications                                  *)

MutantNoGraphNoGuard(from, to) ==
  from = to \/ ValidTransitions[from] = {} \/ to \in ValidTransitions[from]
MutantNoPromotionEdge(from, to) ==
  \/ from = to
  \/ to \in ValidTransitions[from] \ {"UNCONDITIONAL_OFFER"}
ValidMove(from, to) == from = to \/ to \in ValidTransitions[from]

\* The stamp is written with the status, from what this request read.
StampsDecision(prev, new) == new # prev /\ new \in InstitutionalDecisionStates

CreateApplication(r, a) ==
  /\ req[r] = Idle
  /\ status[a] = Missing
  /\ status' = [status EXCEPT ![a] = "SUBMITTED"]
  /\ req' = [req EXCEPT ![r] = [pc |-> "AnnounceCreated", app |-> a]]
  /\ UNCHANGED <<stamped, removed, condition, events, history>>

AnnounceCreated(r) ==
  /\ req[r].pc = "AnnounceCreated"
  /\ announced' = [announced EXCEPT ![req[r].app] = "SUBMITTED"]
  /\ unannounced' = IF r \in overtaken THEN unannounced \cup {req[r].app}
                    ELSE unannounced \ {req[r].app}
  /\ Ends(r)
  /\ UNCHANGED <<table, offersMade, excused>>

\* update() up to its write: getById, which also finds deleted rows, then the
\* guard.  A body without a status is not guarded.
PatchApplication(r, a, new) ==
  /\ req[r] = Idle
  /\ status[a] # Missing
  /\ new # Unset => ValidMove(status[a], new)
  /\ req' = [req EXCEPT ![r] = [pc |-> "WriteApp", app |-> a,
                                prev |-> status[a], new |-> new,
                                auto |-> FALSE]]
  /\ UNCHANGED <<table, events, history>>

\* repo.update: the row is written whatever its status is by now.
WriteApplication(r) ==
  /\ req[r].pc = "WriteApp"
  /\ LET q == req[r]
         a == q.app
         to == IF q.new = Unset THEN status[a] ELSE q.new
     IN /\ status' = [status EXCEPT ![a] = to]
        /\ stamped' = IF q.new # Unset /\ StampsDecision(q.prev, q.new)
                      THEN stamped \cup {a} ELSE stamped
        /\ req' = [req EXCEPT ![r] = [pc |-> "Announce", app |-> a,
                                      prev |-> q.prev, result |-> to,
                                      auto |-> q.auto]]
        /\ excused' = IF to = "CONDITIONAL_OFFER" /\ status[a] # to
                      THEN [excused EXCEPT ![a] = @ \cup {"entered"}]
                      ELSE excused
        /\ overtaken' = IF status[a] = to THEN overtaken
                        ELSE overtaken \cup {s \in Request \ {r} :
                                               Updating(s, a)}
        /\ crossed' = IF r \in overtaken THEN crossed \cup {a} ELSE crossed
        /\ unannounced' = IF r \in overtaken THEN unannounced \cup {a}
                          ELSE unannounced
  /\ UNCHANGED <<removed, condition, events, reverted>>

MutantOnlyManualChange(q) == q.result # q.prev /\ ~ q.auto
Changed(q) == q.result # q.prev

FirstOffer(q) ==
  Changed(q) /\ q.result \in OfferStates /\ q.prev \notin OfferStates

\* After the audit row: the events, computed from what this request read and
\* what its write returned.
Announce(r) ==
  /\ req[r].pc = "Announce"
  /\ LET q == req[r]
     IN /\ announced' = IF Changed(q)
                        THEN [announced EXCEPT ![q.app] = q.result]
                        ELSE announced
        /\ unannounced' = IF ~ Changed(q) THEN unannounced
                          ELSE IF r \in overtaken
                               THEN unannounced \cup {q.app}
                          ELSE unannounced \ {q.app}
        /\ offersMade' = IF FirstOffer(q) /\ offersMade[q.app] < 2
                         THEN [offersMade EXCEPT ![q.app] = @ + 1]
                         ELSE offersMade
  /\ Ends(r)
  /\ UNCHANGED <<table, excused>>

RemoveApplication(r, a) ==
  /\ req[r] = Idle
  /\ status[a] # Missing
  /\ removed' = removed \cup {a}
  /\ UNCHANGED <<status, stamped, condition, req, events, history>>

------------------------------------------------------------------------------
(* POST, PATCH and DELETE on /offers, each followed by the evaluation       *)

\* validate(updateSchema): status keeps its default in a partial schema, so a
\* body without a status is parsed as PENDING.
MutantNoDefault(s) == s
ParsedStatus(s) == IF s = Unset THEN "PENDING" ELSE s

Live(c) == condition[c].state = "LIVE"

CreateCondition(r, c, a, s) ==
  /\ req[r] = Idle
  /\ condition[c].state = Missing
  /\ status[a] # Missing
  /\ condition' = [condition EXCEPT
                     ![c] = [state |-> "LIVE", app |-> a,
                             status |-> ParsedStatus(s)]]
  /\ req' = [req EXCEPT ![r] = [pc |-> "Evaluate", app |-> a]]
  /\ excused' = [excused EXCEPT ![a] = {}]
  /\ RevertsOthers(r, {a})
  /\ UNCHANGED <<status, stamped, removed, events, unannounced, crossed,
                 overtaken>>

PatchCondition(r, c, a, s) ==
  /\ req[r] = Idle
  /\ Live(c)
  /\ a # NoApp => status[a] # Missing
  /\ req' = [req EXCEPT ![r] = [pc |-> "WriteCond", cond |-> c, app |-> a,
                                status |-> ParsedStatus(s)]]
  /\ UNCHANGED <<table, events, history>>

\* Writes by id, so also a condition deleted since the read, and evaluates the
\* application the written row belongs to.
WriteCondition(r) ==
  /\ req[r].pc = "WriteCond"
  /\ LET q == req[r]
         from == condition[q.cond].app
         to == IF q.app = NoApp THEN from ELSE q.app
     IN /\ condition' = [condition EXCEPT ![q.cond].app = to,
                                          ![q.cond].status = q.status]
        /\ req' = [req EXCEPT ![r] = [pc |-> "Evaluate", app |-> to]]
        /\ excused' = [a \in Application |->
                         IF a = to THEN {}
                         ELSE IF a = from THEN excused[a] \cup {"moved"}
                         ELSE excused[a]]
        /\ RevertsOthers(r, {from, to})
  /\ UNCHANGED <<status, stamped, removed, events, unannounced, crossed,
                 overtaken>>

RemoveCondition(r, c) ==
  /\ req[r] = Idle
  /\ Live(c)
  /\ req' = [req EXCEPT ![r] = [pc |-> "DeleteCond", cond |-> c,
                                app |-> condition[c].app]]
  /\ UNCHANGED <<table, events, history>>

\* Evaluates the application the row belonged to when it was read.
DeleteCondition(r) ==
  /\ req[r].pc = "DeleteCond"
  /\ LET q == req[r]
         now == condition[q.cond].app
     IN /\ condition' = [condition EXCEPT ![q.cond].state = "DELETED"]
        /\ req' = [req EXCEPT ![r] = [pc |-> "Evaluate", app |-> q.app]]
        /\ excused' = [a \in Application |->
                         IF a = q.app THEN {}
                         ELSE IF a = now THEN excused[a] \cup {"moved"}
                         ELSE excused[a]]
        /\ RevertsOthers(r, {now})
  /\ UNCHANGED <<status, stamped, removed, events, unannounced, crossed,
                 overtaken>>

LiveConditions(a) == {c \in Condition : Live(c) /\ condition[c].app = a}

AllSatisfied(a) ==
  /\ LiveConditions(a) # {}
  /\ \A c \in LiveConditions(a) :
       condition[c].status \in QualifyingConditionStatuses

MutantCountsDeleted(a) ==
  /\ status[a] = "CONDITIONAL_OFFER"
  /\ AllSatisfied(a)
  /\ \A c \in Condition :
       condition[c].state = "DELETED" /\ condition[c].app = a
         => condition[c].status \in QualifyingConditionStatuses
MutantNoConditions(a) ==
  /\ status[a] = "CONDITIONAL_OFFER"
  /\ \A c \in LiveConditions(a) :
       condition[c].status \in QualifyingConditionStatuses
Promotable(a) == status[a] = "CONDITIONAL_OFFER" /\ AllSatisfied(a)

\* evaluateOfferConditionsAndAutoPromote up to its call of update().
Evaluate(r) ==
  /\ req[r].pc = "Evaluate"
  /\ LET a == req[r].app
     IN req' = [req EXCEPT ![r] =
                  IF Promotable(a) THEN [pc |-> "Promote", app |-> a] ELSE Idle]
  /\ UNCHANGED <<table, events, history>>

\* update() reads the application again; a move its guard refuses throws, and
\* safeEvaluateOfferConditions swallows that.
Promote(r) ==
  /\ req[r].pc = "Promote"
  /\ LET a == req[r].app
     IN \/ /\ ValidMove(status[a], "UNCONDITIONAL_OFFER")
           /\ req' = [req EXCEPT
                        ![r] = [pc |-> "WriteApp", app |-> a,
                                prev |-> status[a],
                                new |-> "UNCONDITIONAL_OFFER",
                                auto |-> TRUE]]
           /\ UNCHANGED lateness
        \/ /\ ~ ValidMove(status[a], "UNCONDITIONAL_OFFER")
           /\ Ends(r)
  /\ UNCHANGED <<table, events, excused, unannounced>>

\* The request still owes application a an evaluation or its promotion.
Owes(r, a) ==
  /\ req[r].pc \in {"Evaluate", "Promote", "WriteApp"}
  /\ req[r].app = a
  /\ req[r].pc = "WriteApp" => req[r].auto

\* The awaited call throws or the process stops: the rest of the handler never
\* runs, and what it wrote before stays.
Abort(r) ==
  /\ req[r] # Idle
  /\ Ends(r)
  /\ excused' = [a \in Application |->
                   IF Owes(r, a) THEN excused[a] \cup {"failed"}
                   ELSE excused[a]]
  /\ unannounced' = IF \/ req[r].pc = "AnnounceCreated"
                       \/ req[r].pc = "Announce" /\ req[r].result # req[r].prev
                    THEN unannounced \cup {req[r].app} ELSE unannounced
  /\ UNCHANGED <<table, events>>

------------------------------------------------------------------------------
Continue(r) ==
  \/ AnnounceCreated(r) \/ WriteApplication(r) \/ Announce(r)
  \/ WriteCondition(r) \/ DeleteCondition(r) \/ Evaluate(r) \/ Promote(r)

Arrive(r) ==
  \/ \E a \in Application : CreateApplication(r, a) \/ RemoveApplication(r, a)
  \/ \E a \in Application, s \in PatchedTo : PatchApplication(r, a, s)
  \/ \E c \in Condition, a \in Application, s \in ConditionTo :
       CreateCondition(r, c, a, s)
  \/ \E c \in Condition, a \in Application \cup {NoApp}, s \in ConditionTo :
       PatchCondition(r, c, a, s)
  \/ \E c \in Condition : RemoveCondition(r, c)

Next == \E r \in Request : Arrive(r) \/ Continue(r) \/ Abort(r)

Spec == Init /\ [][Next]_vars

\* Node runs the continuation of every settled promise.
FairSpec == Spec /\ \A r \in Request : WF_vars(Continue(r))

------------------------------------------------------------------------------
(* Properties                                                               *)

DecidedStates == {"CONDITIONAL_OFFER", "UNCONDITIONAL_OFFER", "REJECTED",
                  "FIRM", "INSURANCE", "DECLINED"}

\* No row is ever removed from the tables, so what a request or a condition
\* refers to exists (used to prove TypeOK).
RowsExist ==
  /\ \A c \in Condition :
       condition[c].state # Missing => status[condition[c].app] # Missing
  /\ \A r \in Request :
       /\ req[r].pc \in {"WriteApp", "Evaluate", "Promote"}
            => status[req[r].app] # Missing
       /\ req[r].pc \in {"WriteCond", "DeleteCond"}
            => condition[req[r].cond].state # Missing
       /\ req[r].pc = "WriteCond" /\ req[r].app # NoApp
            => status[req[r].app] # Missing
       /\ req[r].pc = "DeleteCond" => status[req[r].app] # Missing

\* However requests interleave, an application that is at or past a decision
\* of the institution carries the decision's date and author: update() stamps
\* them from what it read, and every path into those states goes through one
\* of the three institutional decisions.
DecisionStamped ==
  \A a \in Application : status[a] \in DecidedStates => a \in stamped

\* What a request about to write must know for DecisionStamped to survive it:
\* a decided status it read was stamped (a stamp is never taken back), and the
\* status it writes was a legal move from the one it read.
WritersKnow ==
  \A r \in Request :
    req[r].pc = "WriteApp" =>
      /\ req[r].prev \in DecidedStates => req[r].app \in stamped
      /\ req[r].new # Unset => ValidMove(req[r].prev, req[r].new)

\* The backstop loses nothing to interleaving: when an application stands at
\* CONDITIONAL_OFFER with every live condition satisfied, some request still
\* owes it an evaluation or its promotion - unless nobody was obliged to
\* evaluate it: it entered that status with its conditions already satisfied,
\* the evaluation was cut off, or the last blocking condition was moved to
\* another application.  The last of two racing writers always sees both.
NoMissedPromotion ==
  \A a \in Application :
    /\ status[a] = "CONDITIONAL_OFFER"
    /\ AllSatisfied(a)
    /\ excused[a] = {}
    => \E r \in Request : Owes(r, a)

\* The write the backstop starts is a promotion (used to prove
\* NoMissedPromotion: once it is made, nothing is owed any more).
AutoIsPromotion ==
  \A r \in Request :
    req[r].pc = "WriteApp"
      => (req[r].auto => req[r].new = "UNCONDITIONAL_OFFER")

\* Such an application does not stay there: the owed evaluation happens.
PromotionHappens ==
  \A a \in Application :
    (/\ status[a] = "CONDITIONAL_OFFER"
     /\ AllSatisfied(a)
     /\ excused[a] = {})
    ~> ~ (/\ status[a] = "CONDITIONAL_OFFER"
          /\ AllSatisfied(a)
          /\ excused[a] = {})

Canonical == INSTANCE Lifecycle WITH
               Entity <- Application, Initial <- {"SUBMITTED"},
               Graph <- ValidTransitions, state <- status

\* The applications table implements the canonical lifecycle: every status
\* written follows an edge of VALID_APPLICATION_TRANSITIONS.
FollowsGraph == Canonical!Spec

\* A consumer of the application events knows the status of the row, except
\* while a request is about to emit, after an event was lost, and after two
\* updates of the application crossed: then the last event to arrive need not
\* be that of the last write, until an update that nobody crosses.
ChangesAnnounced ==
  \A a \in Application :
    \/ announced[a] = status[a]
    \/ a \in unannounced
    \/ \E r \in Request : /\ req[r].pc \in {"Announce", "AnnounceCreated"}
                          /\ req[r].app = a

\* application.offer_made is the first offer: it is emitted twice only for an
\* application that was written by a request another one had overtaken.
OfferMadeAtMostOnce ==
  \A a \in Application : offersMade[a] <= 1 \/ a \in crossed

\* application.offer_conditions_met (emitted where an automatic request
\* announces, whatever its update() did) tells an auto-promotion apart from a
\* manual decision: the request that emits it has moved the application from
\* one offer to the other itself, unless another request has moved it since
\* this one evaluated it.
ConditionsMetIsOwnPromotion ==
  \A r \in Request \ overtaken :
    req[r].pc = "Announce"
      => (req[r].auto => /\ req[r].prev = "CONDITIONAL_OFFER"
                         /\ req[r].result = "UNCONDITIONAL_OFFER")

\* The events of an application tell the truth about it: its status, its
\* first offer, and whose promotion it was.
EventsTellTheTruth ==
  ChangesAnnounced /\ OfferMadeAtMostOnce /\ ConditionsMetIsOwnPromotion

\* A write of the backstop promotes an application that stands at
\* CONDITIONAL_OFFER with at least one live condition and every one satisfied:
\* what it evaluated still holds when it promotes, unless since then another
\* request has moved the application or written one of its conditions.
PromotionsJustified ==
  [][\A r \in Request :
       req[r].pc = "WriteApp" /\ req'[r].pc = "Announce" /\ req[r].auto
         => /\ AllSatisfied(req[r].app) \/ r \in reverted
            /\ status[req[r].app] = "CONDITIONAL_OFFER" \/ r \in overtaken]_vars
==============================================================================
