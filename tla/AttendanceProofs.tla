--------------------------- MODULE AttendanceProofs ---------------------------
(****************************************************************************)
(* Theorems about Attendance, for any number of records, requests and       *)
(* evaluations, any sample size and any stored thresholds.                  *)
(****************************************************************************)
EXTENDS Attendance, FiniteSetTheorems, TLAPS

-----------------------------------------------------------------------------
(* The type invariant                                                       *)

Started == {"FindEnrolment", "Count", "CountPresent", "CountTotal",
            "ReadRules", "FindAlert", "CreateAlert"}

(* An evaluation is the record that its pc says.                            *)
LEMMA EvalShape ==
  ASSUME NEW x \in EvalState
  PROVE  /\ x.pc \in Started \cup {"Idle"}
         /\ x.pc = "Idle" => x = Idle
         /\ x.pc # "Idle" => x.fresh \in BOOLEAN
         /\ x.pc \in {"FindEnrolment", "Count"} =>
              x \in [pc : {"FindEnrolment", "Count"}, fresh : BOOLEAN]
         /\ x.pc = "CountPresent" =>
              x \in [pc : {"CountPresent"}, total : Tally, fresh : BOOLEAN]
         /\ x.pc = "CountTotal" =>
              x \in [pc : {"CountTotal"}, present : Tally, fresh : BOOLEAN]
         /\ x.pc = "ReadRules" =>
              x \in [pc : {"ReadRules"}, total : Tally, present : Tally,
                     fresh : BOOLEAN]
         /\ x.pc \in {"FindAlert", "CreateAlert"} =>
              x \in [pc : {"FindAlert", "CreateAlert"}, type : AlertType,
                     fresh : BOOLEAN]
  BY DEF EvalState, Started, Idle

LEMMA RequestShape ==
  ASSUME NEW x \in RequestState
  PROVE  /\ x.pc \in {"Idle", "Write"}
         /\ x.pc = "Write" =>
              x \in [pc : {"Write"}, record : Record, prev : MarkStatus,
                     new : MarkStatus, place : Place \cup {Unset}]
  BY DEF RequestState

(* What is left of an evaluation when a value it depends on changes.         *)
Stale(x) == [x EXCEPT !.fresh = FALSE]

LEMMA StaleShape ==
  ASSUME NEW x \in EvalState, x.pc # "Idle"
  PROVE  /\ Stale(x) \in EvalState
         /\ Stale(x).pc = x.pc /\ Stale(x).fresh = FALSE
         /\ x.pc \in {"FindAlert", "CreateAlert"} => Stale(x).type = x.type
<1>1. CASE x.pc \in {"FindEnrolment", "Count"}
  BY <1>1, EvalShape DEF Stale, EvalState
<1>2. CASE x.pc = "CountPresent"
  BY <1>2, EvalShape DEF Stale, EvalState
<1>3. CASE x.pc = "CountTotal"
  BY <1>3, EvalShape DEF Stale, EvalState
<1>4. CASE x.pc = "ReadRules"
  BY <1>4, EvalShape DEF Stale, EvalState
<1>5. CASE x.pc \in {"FindAlert", "CreateAlert"}
  BY <1>5, EvalShape DEF Stale, EvalState
<1> QED BY <1>1, <1>2, <1>3, <1>4, <1>5, EvalShape DEF Started

(* The counts of a table are tallies.                                       *)
LEMMA Counts ==
  ASSUME NEW table
  PROVE  Total(table) \in Tally /\ Present(table) \in Tally
<1> DEFINE present == {r \in Record : /\ Counted(table[r])
                                     /\ table[r].mark \in Attended}
<1>1. /\ IsFiniteSet({r \in Record : Counted(table[r])})
      /\ Cardinality({r \in Record : Counted(table[r])})
           <= Cardinality(Record)
  BY FS_Subset, SlotsAssumption
<1>2. /\ IsFiniteSet(present)
      /\ Cardinality(present) <= Cardinality(Record)
  BY FS_Subset, SlotsAssumption
<1> QED BY <1>1, <1>2, FS_CardinalityType, SlotsAssumption
     DEF Total, Present, Tally

(* A record that is there has a mark, and a PATCH that was let through is    *)
(* about a record that is there.                                             *)
Filled ==
  /\ \A r \in Record : rows[r].mark = "MISSING" => rows[r] = Missing
  /\ \A q \in Request : req[q].pc = "Write" =>
       rows[req[q].record].mark # "MISSING"

Typed == TypeOK /\ Filled

LEMMA InitTyped == Init => Typed
<1> SUFFICES ASSUME Init PROVE TypeOK /\ Filled
  BY DEF Typed
<1>1. Missing \in Row /\ Idle \in RequestState /\ Idle \in EvalState
  BY DEF Missing, Row, Place, Idle, RequestState, EvalState
<1>2. mishaps \in 0..Mishaps
  BY MishapsAssumption DEF Init
<1>3. setting \in [{"ukvi", "general"} -> Settings \cup {NotANumber}]
  BY DEF Init
<1>4. alerts \in [AlertType -> Nat]
  BY DEF Init
<1>5. TypeOK
  BY <1>1, <1>2, <1>3, <1>4, VisasAssumption DEF Init, TypeOK
<1>6. Filled
  BY DEF Init, Filled, Idle
<1> QED BY <1>5, <1>6

(* Shaking keeps every evaluation where it is.                               *)
LEMMA ShakenTyped ==
  ASSUME eval \in [Eval -> EvalState]
  PROVE  /\ Shaken(eval) \in [Eval -> EvalState]
         /\ \A e \in Eval : Shaken(eval)[e] =
              IF eval[e].pc = "Idle" THEN eval[e] ELSE Stale(eval[e])
  BY StaleShape DEF Shaken, Stale

LEMMA StartsTyped ==
  ASSUME eval \in [Eval -> EvalState], NEW e \in Eval, Starts(eval, e)
  PROVE  /\ eval' \in [Eval -> EvalState]
         /\ eval[e] = Idle
         /\ eval'[e] = [pc |-> "FindEnrolment", fresh |-> TRUE]
         /\ \A d \in Eval : d # e => eval'[d] = Shaken(eval)[d]
<1>1. [pc |-> "FindEnrolment", fresh |-> TRUE] \in EvalState
  BY DEF EvalState
<1> QED BY <1>1, ShakenTyped DEF Starts

LEMMA DisturbsTyped ==
  ASSUME explained \subseteq AlertType, Disturbs
  PROVE  explained' \subseteq AlertType
  BY DEF Disturbs, DueNow

LEMMA RequestsTyped == Typed /\ Requests => Typed'
<1> SUFFICES ASSUME TypeOK, Filled, Requests PROVE TypeOK' /\ Filled'
  BY DEF Typed
<1> USE DEF student, history
<1>1. ASSUME NEW r \in Record, NEW m \in Marks, NEW e \in Eval,
             CreateRecord(r, m, e)
      PROVE  TypeOK' /\ Filled'
  <2>1. /\ [mark |-> m, place |-> "HERE", deleted |-> FALSE] \in Row
        /\ m # "MISSING"
    BY BodiesAssumption DEF Row, MarkStatus, Place
  <2>2. /\ rows' \in [Record -> Row]
        /\ rows'[r].mark # "MISSING"
        /\ \A d \in Record : d # r => rows'[d] = rows[d]
    BY <1>1, <2>1 DEF CreateRecord, TypeOK
  <2>3. eval' \in [Eval -> EvalState]
    BY <1>1, StartsTyped DEF CreateRecord, TypeOK
  <2>4. explained' \subseteq AlertType
    BY <1>1, DisturbsTyped DEF CreateRecord, TypeOK
  <2>5. TypeOK'
    BY <1>1, <2>2, <2>3, <2>4 DEF CreateRecord, TypeOK
  <2>6. Filled'
    BY <1>1, <2>2, RequestShape DEF CreateRecord, Filled, TypeOK
  <2> QED BY <2>5, <2>6
<1>5. ASSUME NEW r \in Record, NEW m \in Marks, CreateElsewhere(r, m)
      PROVE  TypeOK' /\ Filled'
  <2>1. /\ [mark |-> m, place |-> "OTHER_STUDENT", deleted |-> FALSE] \in Row
        /\ m # "MISSING"
    BY BodiesAssumption DEF Row, MarkStatus, Place
  <2>2. /\ rows' \in [Record -> Row]
        /\ rows'[r].mark # "MISSING"
        /\ \A d \in Record : d # r => rows'[d] = rows[d]
    BY <1>5, <2>1 DEF CreateElsewhere, TypeOK
  <2>3. TypeOK'
    BY <1>5, <2>2 DEF CreateElsewhere, TypeOK
  <2>4. Filled'
    BY <1>5, <2>2, RequestShape DEF CreateElsewhere, Filled, TypeOK
  <2> QED BY <2>3, <2>4
<1>2. ASSUME NEW q \in Request, NEW r \in Record, NEW b \in Bodies,
             PatchRecord(q, r, b)
      PROVE  TypeOK' /\ Filled'
  <2>1. rows[r].mark \in MarkStatus /\ rows[r].mark # "MISSING"
    BY <1>2 DEF PatchRecord, Filled, TypeOK, Row
  <2>2. BodyStatus(b) \in MarkStatus /\ b.place \in Place \cup {Unset}
    BY BodiesAssumption DEF BodyStatus, MarkStatus
  <2>3. [pc |-> "Write", record |-> r, prev |-> rows[r].mark,
         new |-> BodyStatus(b), place |-> b.place] \in RequestState
    BY <2>1, <2>2 DEF RequestState
  <2>4. req' \in [Request -> RequestState]
    BY <1>2, <2>3 DEF PatchRecord, TypeOK
  <2>5. TypeOK'
    BY <1>2, <2>4 DEF PatchRecord, TypeOK
  <2>6. Filled'
    BY <1>2, <2>1 DEF PatchRecord, Filled, TypeOK
  <2> QED BY <2>5, <2>6
<1>3. ASSUME NEW q \in Request, NEW e \in Eval, WriteRecord(q, e)
      PROVE  TypeOK' /\ Filled'
  <2>1. req[q] \in [pc : {"Write"}, record : Record, prev : MarkStatus,
                    new : MarkStatus, place : Place \cup {Unset}]
    BY <1>3, RequestShape DEF WriteRecord, TypeOK
  <2>2. PICK r \in Record : r = req[q].record
    BY <2>1
  <2>3. rows' = [rows EXCEPT ![r] = Patched(rows[r], req[q])]
    BY <1>3, <2>2 DEF WriteRecord
  <2>4. /\ Patched(rows[r], req[q]) \in Row
        /\ Patched(rows[r], req[q]).mark = req[q].new
    BY <2>1 DEF TypeOK, Row, Patched
  <2>5. /\ rows' \in [Record -> Row]
        /\ rows'[r].mark = req[q].new
        /\ \A d \in Record : d # r => rows'[d] = rows[d]
    BY <2>3, <2>4 DEF TypeOK
  <2>6. rows'[r].mark # "MISSING"
    BY <2>1, <2>5 DEF MarkStatus
  <2>7. eval' \in [Eval -> EvalState]
    BY <1>3, StartsTyped, ShakenTyped DEF WriteRecord, TypeOK
  <2>8. explained' \subseteq AlertType /\ excused' \in BOOLEAN
    BY <1>3, DisturbsTyped DEF WriteRecord, TypeOK
  <2>9. /\ req' \in [Request -> RequestState]
        /\ req'[q].pc = "Idle"
        /\ \A p \in Request : p # q => req'[p] = req[p]
    BY <1>3 DEF WriteRecord, TypeOK, Idle, RequestState
  <2>10. TypeOK'
    BY <1>3, <2>5, <2>7, <2>8, <2>9 DEF WriteRecord, TypeOK
  <2>11. Filled'
    BY <2>5, <2>6, <2>9, RequestShape DEF Filled, TypeOK
  <2> QED BY <2>10, <2>11
<1>4. ASSUME NEW r \in Record, RemoveRecord(r) PROVE TypeOK' /\ Filled'
  <2>1. [rows[r] EXCEPT !.deleted = TRUE] \in Row
    BY DEF TypeOK, Row
  <2>2. rows[r].mark # "MISSING"
    BY <1>4 DEF RemoveRecord, Filled
  <2>3. /\ rows' \in [Record -> Row]
        /\ rows'[r].mark = rows[r].mark
        /\ \A d \in Record : d # r => rows'[d] = rows[d]
    BY <1>4, <2>1 DEF RemoveRecord, TypeOK, Row
  <2>4. TypeOK'
    BY <1>4, <2>3 DEF RemoveRecord, TypeOK
  <2>5. Filled'
    BY <1>4, <2>2, <2>3, RequestShape DEF RemoveRecord, Filled, TypeOK
  <2> QED BY <2>4, <2>5
<1> QED BY <1>1, <1>2, <1>3, <1>4, <1>5 DEF Requests

LEMMA EnvironmentTyped == Typed /\ Environment => Typed'
<1> SUFFICES ASSUME TypeOK, Filled, Environment PROVE TypeOK' /\ Filled'
  BY DEF Typed
<1> USE DEF student, history
<1>1. ASSUME Unevaluated, enrolled' \in BOOLEAN, sponsored' \in BOOLEAN,
             setting' \in [{"ukvi", "general"} -> Settings \cup {NotANumber}]
      PROVE  TypeOK' /\ Filled'
  <2>1. mishaps' \in 0..Mishaps
    BY <1>1, MishapsAssumption DEF Unevaluated, Mishap, TypeOK
  <2>2. eval' \in [Eval -> EvalState]
    BY <1>1, ShakenTyped DEF Unevaluated, TypeOK
  <2>3. explained' \subseteq AlertType
    BY <1>1, DisturbsTyped DEF Unevaluated, TypeOK
  <2>4. TypeOK'
    BY <1>1, <2>1, <2>2, <2>3 DEF Unevaluated, TypeOK
  <2>5. Filled'
    BY <1>1 DEF Unevaluated, Filled
  <2> QED BY <2>4, <2>5
<1>2. CASE ChangeEnrolment
  BY <1>1, <1>2 DEF ChangeEnrolment, TypeOK
<1>3. CASE ChangeSponsorship
  BY <1>1, <1>3 DEF ChangeSponsorship, TypeOK
<1>4. ASSUME NEW s \in {"ukvi", "general"}, NEW v \in Settings,
             ChangeSetting(s, v)
      PROVE  TypeOK' /\ Filled'
  BY <1>1, <1>4 DEF ChangeSetting, TypeOK
<1> QED BY <1>2, <1>3, <1>4 DEF Environment

(* What one awaited call of an evaluation makes of it.                       *)
LEMMA EvaluateEffect ==
  ASSUME TypeOK, NEW e \in Eval, Evaluate(e) \/ FailEvaluation(e)
  PROVE  /\ eval' \in [Eval -> EvalState]
         /\ \A d \in Eval : d # e => eval'[d] = eval[d]
         /\ UNCHANGED <<rows, student, req>>
<1> USE DEF student
<1>a. eval[e] \in EvalState /\ Idle \in EvalState
  BY DEF TypeOK, EvalState, Idle
<1>b. Total(rows) \in Tally /\ Present(rows) \in Tally
  BY Counts
<1>1. ASSUME NEW x \in EvalState, Becomes(e, x)
      PROVE  /\ eval' \in [Eval -> EvalState]
             /\ \A d \in Eval : d # e => eval'[d] = eval[d]
  BY <1>1 DEF Becomes, TypeOK
<1>c. UNCHANGED <<rows, student, req>>
  BY DEF Evaluate, FindEnrolment, CountRecords, ReadRules, FindAlert,
     CreateAlert, FailEvaluation
<1>2. CASE FindEnrolment(e)
  <2>1. [eval[e] EXCEPT !.pc = "Count"] \in EvalState
    BY <1>2, <1>a, EvalShape DEF FindEnrolment, EvalState
  <2> QED BY <1>1, <1>2, <1>a, <1>c, <2>1 DEF FindEnrolment
<1>3. CASE CountRecords(e)
  <2>1. PICK x : /\ Becomes(e, x)
                 /\ \/ /\ eval[e].pc = "Count"
                       /\ \/ x = [pc |-> "CountPresent", total |-> Total(rows),
                                  fresh |-> eval[e].fresh]
                          \/ x = [pc |-> "CountTotal",
                                  present |-> Present(rows),
                                  fresh |-> eval[e].fresh]
                    \/ /\ eval[e].pc = "CountPresent"
                       /\ x = [pc |-> "ReadRules", total |-> eval[e].total,
                               present |-> Present(rows),
                               fresh |-> eval[e].fresh]
                    \/ /\ eval[e].pc = "CountTotal"
                       /\ x = [pc |-> "ReadRules", total |-> Total(rows),
                               present |-> eval[e].present,
                               fresh |-> eval[e].fresh]
    BY <1>3 DEF CountRecords
  <2>2. x \in EvalState
    BY <1>a, <1>b, <2>1, EvalShape DEF EvalState
  <2> QED BY <1>1, <1>c, <2>1, <2>2
<1>4. CASE ReadRules(e)
  <2>1. eval[e].fresh \in BOOLEAN
    BY <1>4, <1>a, EvalShape DEF ReadRules
  <2>2. \A t \in AlertType :
          [pc |-> "FindAlert", type |-> t, fresh |-> eval[e].fresh] \in EvalState
    BY <2>1 DEF EvalState
  <2>3. \A rate, s, st : AlertFor(rate, s, st) \in AlertType \cup {Nothing}
    BY DEF AlertFor, AlertType
  <2> QED BY <1>1, <1>4, <1>a, <1>c, <2>2, <2>3 DEF ReadRules
<1>5. CASE FindAlert(e)
  <2>1. [eval[e] EXCEPT !.pc = "CreateAlert"] \in EvalState
    BY <1>5, <1>a, EvalShape DEF FindAlert, EvalState
  <2> QED BY <1>1, <1>5, <1>a, <1>c, <2>1 DEF FindAlert
<1>6. CASE CreateAlert(e) \/ FailEvaluation(e)
  BY <1>1, <1>6, <1>a, <1>c DEF CreateAlert, FailEvaluation
<1> QED BY <1>2, <1>3, <1>4, <1>5, <1>6 DEF Evaluate

LEMMA EvaluateTyped ==
  ASSUME Typed, NEW e \in Eval, Evaluate(e) \/ FailEvaluation(e)
  PROVE  Typed'
<1> USE DEF student, history
<1>a. TypeOK /\ Filled
  BY DEF Typed
<1>1. /\ eval' \in [Eval -> EvalState]
      /\ UNCHANGED <<rows, student, req>>
  BY <1>a, EvaluateEffect
<1>2. CASE CreateAlert(e)
  <2>1. eval[e].type \in AlertType
    BY <1>2, <1>a, EvalShape DEF CreateAlert, TypeOK
  <2>2. alerts' \in [AlertType -> Nat] /\ explained' \subseteq AlertType
    BY <1>2, <1>a, <2>1 DEF CreateAlert, TypeOK
  <2>3. TypeOK'
    BY <1>2, <1>1, <1>a, <2>2 DEF CreateAlert, TypeOK
  <2> QED BY <1>1, <1>a, <2>3 DEF Typed, Filled
<1>3. CASE FailEvaluation(e)
  <2>1. mishaps' \in 0..Mishaps
    BY <1>3, <1>a, MishapsAssumption DEF FailEvaluation, Mishap, TypeOK
  <2>2. TypeOK'
    BY <1>3, <1>1, <1>a, <2>1 DEF FailEvaluation, TypeOK
  <2> QED BY <1>1, <1>a, <2>2 DEF Typed, Filled
<1>4. CASE UNCHANGED <<alerts, mishaps, history>>
  <2>1. TypeOK'
    BY <1>4, <1>1, <1>a DEF TypeOK
  <2> QED BY <1>1, <1>a, <2>1 DEF Typed, Filled
<1> QED BY <1>2, <1>3, <1>4
     DEF Evaluate, FindEnrolment, CountRecords, ReadRules, FindAlert

LEMMA TypedInvariant == Spec => []Typed
<1>1. Typed /\ [Next]_vars => Typed'
  <2>1. Typed /\ UNCHANGED vars => Typed'
    BY DEF vars, student, history, Typed, TypeOK, Filled
  <2> QED BY <2>1, RequestsTyped, EnvironmentTyped, EvaluateTyped DEF Next
<1> QED BY <1>1, InitTyped, PTL DEF Spec

(* Every variable keeps its type: the counts that an evaluation holds are    *)
(* counts of records that exist, and a PATCH writes a record that does.      *)
THEOREM TypeCorrect == Spec => []TypeOK
<1>1. Typed => TypeOK
  BY DEF Typed
<1> QED BY <1>1, TypedInvariant, PTL

-----------------------------------------------------------------------------
(* Duplicate alerts                                                         *)

(* The evaluations that have looked for an alert of a type, and found none.  *)
Creating(running, t) ==
  {e \in Eval : running[e].pc = "CreateAlert" /\ running[e].type = t}

(* Alerts and those about to be created are never more than evaluations: an  *)
(* evaluation gets here only while there is no alert yet.                    *)
Room ==
  \A t \in AlertType :
    alerts[t] + Cardinality(Creating(eval, t)) <= Cardinality(Eval)

(* Any of them are finitely many, and no more than all.                      *)
LEMMA CreatingCounts ==
  ASSUME NEW running, NEW t
  PROVE  /\ IsFiniteSet(Creating(running, t))
         /\ Cardinality(Creating(running, t)) \in Nat
         /\ Cardinality(Eval) \in Nat
         /\ Cardinality(Creating(running, t)) <= Cardinality(Eval)
<1>1. Creating(running, t) \subseteq Eval
  BY DEF Creating
<1> QED BY <1>1, FS_Subset, FS_CardinalityType, SlotsAssumption

(* A step that creates no alert and lets no evaluation on keeps the bound.   *)
LEMMA RoomKept ==
  ASSUME TypeOK, Room, NEW running, NEW t \in AlertType,
         Creating(running, t) \subseteq Creating(eval, t)
  PROVE  alerts[t] + Cardinality(Creating(running, t)) <= Cardinality(Eval)
<1>1. Cardinality(Creating(running, t)) <= Cardinality(Creating(eval, t))
  BY CreatingCounts, FS_Subset
<1>2. alerts[t] \in Nat
  BY DEF TypeOK
<1>3. alerts[t] + Cardinality(Creating(eval, t)) <= Cardinality(Eval)
  BY DEF Room
<1>4. /\ Cardinality(Creating(running, t)) \in Nat
      /\ Cardinality(Creating(eval, t)) \in Nat
      /\ Cardinality(Eval) \in Nat
  BY CreatingCounts
<1> QED BY <1>1, <1>2, <1>3, <1>4

(* What other steps do to an evaluation: they start it or make it stale.     *)
LEMMA OthersEffect ==
  ASSUME TypeOK, Requests \/ Environment
  PROVE  /\ alerts' = alerts
         /\ \A e \in Eval : \/ eval'[e] = eval[e]
                            \/ eval[e].pc # "Idle" /\ eval'[e] = Stale(eval[e])
                            \/ eval'[e].pc = "FindEnrolment"
<1>1. alerts' = alerts
  BY DEF Requests, CreateRecord, CreateElsewhere, PatchRecord, WriteRecord, RemoveRecord,
         Environment, ChangeEnrolment, ChangeSponsorship, ChangeSetting,
         Unevaluated
<1>2. \/ eval' = eval
      \/ eval' = Shaken(eval)
      \/ \E e \in Eval : Starts(eval, e)
  BY DEF Requests, CreateRecord, CreateElsewhere, PatchRecord, WriteRecord, RemoveRecord,
         Environment, ChangeEnrolment, ChangeSponsorship, ChangeSetting,
         Unevaluated
<1>3. CASE eval' = Shaken(eval)
  BY <1>1, <1>3, ShakenTyped DEF TypeOK
<1>4. ASSUME NEW e \in Eval, Starts(eval, e)
      PROVE  \A d \in Eval :
               \/ eval'[d] = eval[d]
               \/ eval[d].pc # "Idle" /\ eval'[d] = Stale(eval[d])
               \/ eval'[d].pc = "FindEnrolment"
  BY <1>4, ShakenTyped, StartsTyped DEF TypeOK
<1> QED BY <1>1, <1>2, <1>3, <1>4

LEMMA RoomStep ==
  ASSUME TypeOK, Room, Next
  PROVE  Room'
<1>1. CASE Requests \/ Environment
  <2>1. \A t \in AlertType : Creating(eval', t) \subseteq Creating(eval, t)
    <3>1. SUFFICES ASSUME NEW t \in AlertType, NEW e \in Eval,
                          eval'[e].pc = "CreateAlert", eval'[e].type = t
                   PROVE  eval[e].pc = "CreateAlert" /\ eval[e].type = t
      BY DEF Creating
    <3>2. \/ eval'[e] = eval[e]
          \/ eval[e].pc # "Idle" /\ eval'[e] = Stale(eval[e])
      BY <1>1, <3>1, OthersEffect
    <3> QED BY <3>1, <3>2, StaleShape DEF TypeOK
  <2>2. \A t \in AlertType :
          alerts[t] + Cardinality(Creating(eval', t)) <= Cardinality(Eval)
    BY <2>1, RoomKept
  <2> QED BY <1>1, <2>2, OthersEffect DEF Room
<1>2. ASSUME NEW e \in Eval, Evaluate(e) \/ FailEvaluation(e)
      PROVE  Room'
  <2>a. \A d \in Eval : d # e => eval'[d] = eval[d]
    BY <1>2, EvaluateEffect
  <2>b. eval[e] \in EvalState /\ eval \in [Eval -> EvalState]
    BY DEF TypeOK
  <2>1. CASE CreateAlert(e)
    <3>1. PICK t \in AlertType : t = eval[e].type
      BY <2>1, <2>b, EvalShape DEF CreateAlert
    <3>2. /\ alerts' = [alerts EXCEPT ![t] = @ + 1]
          /\ eval'[e].pc = "Idle"
          /\ eval[e].pc = "CreateAlert"
      BY <2>1, <2>b, <3>1 DEF CreateAlert, Becomes, Idle
    <3>3. Creating(eval', t) = Creating(eval, t) \ {e} /\ e \in Creating(eval, t)
      BY <2>a, <3>1, <3>2 DEF Creating
    <3>4. Cardinality(Creating(eval', t)) = Cardinality(Creating(eval, t)) - 1
      BY <3>3, CreatingCounts, FS_RemoveElement
    <3>5. alerts[t] \in Nat /\ alerts'[t] = alerts[t] + 1
      BY <3>2 DEF TypeOK
    <3>6. alerts[t] + Cardinality(Creating(eval, t)) <= Cardinality(Eval)
      BY DEF Room
    <3>7. Cardinality(Creating(eval, t)) \in Nat /\ Cardinality(Eval) \in Nat
      BY CreatingCounts
    <3>8. alerts'[t] + Cardinality(Creating(eval', t)) <= Cardinality(Eval)
      BY <3>4, <3>5, <3>6, <3>7
    <3>9. \A u \in AlertType :
            u # t => /\ alerts'[u] = alerts[u]
                     /\ Creating(eval', u) \subseteq Creating(eval, u)
      BY <2>a, <3>2 DEF Creating, TypeOK
    <3>10. \A u \in AlertType :
             u # t => alerts'[u] + Cardinality(Creating(eval', u))
                        <= Cardinality(Eval)
      BY <3>9, RoomKept
    <3> QED BY <3>8, <3>10 DEF Room
  <2>2. CASE FindAlert(e) /\ eval'[e].pc = "CreateAlert"
    <3>1. PICK t \in AlertType : t = eval[e].type
      BY <2>2, <2>b, EvalShape DEF FindAlert
    <3>2. /\ alerts' = alerts /\ ~IsOpen(t)
          /\ eval'[e] = [eval[e] EXCEPT !.pc = "CreateAlert"]
      BY <2>2, <2>b, <3>1 DEF FindAlert, Becomes, Idle
    <3>3. eval'[e].type = t
      <4>1. eval[e] \in [pc : {"FindAlert", "CreateAlert"}, type : AlertType,
                         fresh : BOOLEAN]
        BY <2>2, <2>b, EvalShape DEF FindAlert
      <4> QED BY <3>1, <3>2, <4>1
    <3>4. alerts[t] = 0
      BY <3>2 DEF IsOpen, TypeOK
    <3>5. alerts'[t] + Cardinality(Creating(eval', t)) <= Cardinality(Eval)
      BY <3>2, <3>4, CreatingCounts
    <3>6. \A u \in AlertType :
            u # t => Creating(eval', u) \subseteq Creating(eval, u)
      BY <2>a, <3>3 DEF Creating
    <3>7. \A u \in AlertType :
            u # t => alerts'[u] + Cardinality(Creating(eval', u))
                       <= Cardinality(Eval)
      BY <3>2, <3>6, RoomKept
    <3> QED BY <3>5, <3>7 DEF Room
  <2>3. CASE /\ alerts' = alerts
             /\ eval'[e].pc # "CreateAlert"
    <3>1. \A t \in AlertType : Creating(eval', t) \subseteq Creating(eval, t)
      BY <2>3, <2>a DEF Creating
    <3>2. \A t \in AlertType :
            alerts[t] + Cardinality(Creating(eval', t)) <= Cardinality(Eval)
      BY <3>1, RoomKept
    <3> QED BY <2>3, <3>2 DEF Room
  <2>4. FailEvaluation(e) => alerts' = alerts /\ eval'[e].pc # "CreateAlert"
    BY <2>b DEF FailEvaluation, Becomes, Idle
  <2>5. FindEnrolment(e) => alerts' = alerts /\ eval'[e].pc # "CreateAlert"
    <3>1. FindEnrolment(e) => eval[e].pc = "FindEnrolment"
      BY DEF FindEnrolment
    <3>2. eval[e].pc = "FindEnrolment" =>
            [eval[e] EXCEPT !.pc = "Count"].pc = "Count"
      BY <2>b, EvalShape
    <3> QED BY <2>b, <3>1, <3>2 DEF FindEnrolment, Becomes, Idle
  <2>6. CountRecords(e) => alerts' = alerts /\ eval'[e].pc # "CreateAlert"
    BY <2>b DEF CountRecords, Becomes
  <2>7. ReadRules(e) => alerts' = alerts /\ eval'[e].pc # "CreateAlert"
    BY <2>b DEF ReadRules, Becomes, Idle
  <2>8. FindAlert(e) => alerts' = alerts
    BY DEF FindAlert
  <2> QED BY <1>2, <2>1, <2>2, <2>3, <2>4, <2>5, <2>6, <2>7, <2>8 DEF Evaluate
<1> QED BY <1>1, <1>2 DEF Next

(* A student never has more open alerts of a type than evaluations can run   *)
(* at once: each looked before the first of them was created.                *)
THEOREM Duplicates == Spec => []DuplicatesAreRaces
<1>1. Init => Room
  <2>1. SUFFICES ASSUME Init, NEW t \in AlertType
                 PROVE  alerts[t] + Cardinality(Creating(eval, t))
                          <= Cardinality(Eval)
    BY DEF Room
  <2>2. alerts[t] = 0
    BY <2>1 DEF Init
  <2> QED BY <2>2, CreatingCounts
<1>2. Typed /\ Room /\ [Next]_vars => Room'
  <2>1. UNCHANGED vars /\ Room => Room'
    BY DEF vars, Room, Creating
  <2> QED BY <2>1, RoomStep DEF Typed
<1>3. Typed /\ Room => DuplicatesAreRaces
  <2>1. SUFFICES ASSUME Typed, Room, NEW t \in AlertType
                 PROVE  alerts[t] <= Cardinality(Eval)
    BY DEF DuplicatesAreRaces
  <2>2. alerts[t] \in Nat
    BY <2>1 DEF Typed, TypeOK
  <2>3. alerts[t] + Cardinality(Creating(eval, t)) <= Cardinality(Eval)
    BY <2>1 DEF Room
  <2> QED BY <2>2, <2>3, CreatingCounts
<1> QED BY <1>1, <1>2, <1>3, TypedInvariant, PTL DEF Spec

-----------------------------------------------------------------------------
(* Missed and groundless alerts                                             *)

(* The rate is rounded to a tenth of a percent.  With fewer than 20 records  *)
(* that never carries it over a whole percentage, so that comparing it with  *)
(* the threshold is comparing the counts; with more it can.                  *)
Exact == Cardinality(Record) < 20

LEMMA Division ==
  ASSUME NEW n \in Nat, NEW d \in Nat \ {0}
  PROVE  /\ n \div d \in Int
         /\ d * (n \div d) <= n
         /\ n < d * (n \div d) + d
  OBVIOUS

LEMMA RoundingIsExact ==
  ASSUME NEW present \in Nat, NEW total \in 1..19, NEW least \in 1..100
  PROVE  Rate(present, total) < 10 * least <=> 100 * present < least * total
<1> DEFINE n == 2000 * present + total
           d == 2 * total
           q == n \div d
           m == least * total
<1>a. n \in Nat /\ d \in Nat \ {0}
  OBVIOUS
<1>b. q \in Int /\ d * q <= n /\ n < d * q + d
  <2> HIDE DEF n, d
  <2> QED BY <1>a, Division
<1> HIDE DEF q
<1>c. d * q = 2 * (total * q) /\ total * q \in Int
  BY <1>b
<1>1. /\ q \in Int
      /\ total * q \in Int
      /\ 2 * (total * q) <= n
      /\ n < 2 * (total * q) + 2 * total
  BY <1>b, <1>c
<1>2. Rate(present, total) = q
  BY DEF Rate, q
<1>3. m \in Nat
  OBVIOUS
<1>4. ASSUME q < 10 * least PROVE 100 * present < m
  <2>1. q + 1 <= 10 * least
    BY <1>1, <1>4
  <2>2. total * (q + 1) <= total * (10 * least)
    BY <1>1, <2>1
  <2>3. total * (10 * least) = 10 * m /\ total * (q + 1) = total * q + total
    BY <1>1
  <2>4. n < 20 * m
    BY <1>1, <2>2, <2>3, <1>3
  <2> QED BY <2>4, <1>3
<1>5. ASSUME 10 * least <= q PROVE m <= 100 * present
  <2>1. total * (10 * least) <= total * q
    BY <1>1, <1>5
  <2>2. total * (10 * least) = 10 * m
    OBVIOUS
  <2>3. 20 * m <= n
    BY <1>1, <2>1, <2>2, <1>3
  <2> QED BY <2>3, <1>3
<1> HIDE DEF m
<1>6. 100 * present < m \/ m <= 100 * present
  BY <1>3
<1>7. Rate(present, total) < 10 * least <=> 100 * present < m
  BY <1>1, <1>2, <1>3, <1>4, <1>5
<1> QED BY <1>7 DEF m

(* The student's records, as DueNow knows them, are those that count.        *)
Mine(row) == row # Missing /\ row.place = "HERE"

LEMMA MineIsCounted ==
  ASSUME NEW row \in Row, row.mark = "MISSING" => row = Missing
  PROVE  Mine(row) <=> Counted(row)
  BY DEF Mine, Counted, Missing

LEMMA CountsAgree ==
  ASSUME Typed
  PROVE  /\ {r \in Record : rows[r] # Missing /\ rows[r].place = "HERE"}
              = {r \in Record : Counted(rows[r])}
         /\ \A S : {r \in S : rows[r].mark = "PRESENT" \/ rows[r].mark = "LATE"}
                   = {r \in S : rows[r].mark \in Attended}
<1>1. \A r \in Record : Mine(rows[r]) <=> Counted(rows[r])
  BY MineIsCounted DEF Typed, TypeOK, Filled
<1> QED BY <1>1 DEF Mine, Attended

LEMMA LowIs ==
  ASSUME Typed, NEW kind, NEW default
  PROVE  LowFor(kind, default) <=>
           /\ enrolled
           /\ Total(rows) >= MinSample
           /\ 100 * Present(rows)
                < (IF setting[kind] = NotANumber THEN default
                   ELSE IF setting[kind] < 1 \/ setting[kind] > 100 THEN default
                   ELSE setting[kind]) * Total(rows)
<1> DEFINE mine == {r \in Record : rows[r] # Missing /\ rows[r].place = "HERE"}
           there == {r \in mine : rows[r].mark = "PRESENT"
                                    \/ rows[r].mark = "LATE"}
<1>1. mine = {r \in Record : Counted(rows[r])}
  BY CountsAgree
<1>2. there = {r \in Record : Counted(rows[r]) /\ rows[r].mark \in Attended}
  BY <1>1, CountsAgree
<1>3. Cardinality(mine) = Total(rows) /\ Cardinality(there) = Present(rows)
  BY <1>1, <1>2 DEF Total, Present
<1> QED BY <1>3 DEF LowFor

(* The evaluation of a setting is the documented one.                       *)
LEMMA ThresholdIs ==
  ASSUME NEW value \in Settings \cup {NotANumber}, NEW default \in 1..100
  PROVE  /\ Threshold(value, default) \in 1..100
         /\ Threshold(value, default) =
              IF value = NotANumber THEN default
              ELSE IF value < 1 \/ value > 100 THEN default ELSE value
<1>1. CASE value = NotANumber
  <2>1. value \notin 1..100
    BY <1>1, SettingsAssumption
  <2> QED BY <1>1, <2>1 DEF Threshold
<1>2. CASE value # NotANumber
  <2>1. value \in Int
    BY <1>2, SettingsAssumption
  <2> QED BY <1>2, <2>1 DEF Threshold
<1> QED BY <1>1, <1>2

(* With every value of one moment in hand, an evaluation decides what is due *)
(* at that moment.                                                          *)
LEMMA RulesAgree ==
  ASSUME Exact, Typed, enrolled
  PROVE  LET type == AlertFor(Rate(Present(rows), Total(rows)), sponsored,
                              setting)
         IN  DueNow = IF EnoughRecords(Total(rows)) /\ type # Nothing
                      THEN {type} ELSE {}
<1> DEFINE total == Total(rows)
           present == Present(rows)
           u == Threshold(setting["ukvi"], 70)
           g == Threshold(setting["general"], 80)
           rate == Rate(present, total)
<1>1. total \in 0..19 /\ present \in Nat
  <2>1. Cardinality(Record) \in Nat /\ Cardinality(Record) < 20
    BY FS_CardinalityType, SlotsAssumption DEF Exact
  <2> QED BY <2>1, Counts DEF Tally
<1>2. u \in 1..100 /\ g \in 1..100
  BY ThresholdIs DEF Typed, TypeOK
<1>3. /\ LowFor("ukvi", 70)
           <=> total >= MinSample /\ 100 * present < u * total
      /\ LowFor("general", 80)
           <=> total >= MinSample /\ 100 * present < g * total
  BY LowIs, ThresholdIs DEF Typed, TypeOK
<1>4. CASE ~EnoughRecords(total)
  <2>1. ~LowFor("ukvi", 70) /\ ~LowFor("general", 80)
    BY <1>3, <1>4 DEF EnoughRecords
  <2> QED BY <1>4, <2>1 DEF DueNow
<1>5. CASE EnoughRecords(total)
  <2>1. total \in 1..19 /\ total >= MinSample
    BY <1>1, <1>5, MinSampleAssumption DEF EnoughRecords
  <2>2. /\ rate < 10 * u <=> 100 * present < u * total
        /\ rate < 10 * g <=> 100 * present < g * total
    BY <1>1, <1>2, <2>1, RoundingIsExact
  <2>3. /\ LowFor("ukvi", 70) <=> rate < 10 * u
        /\ LowFor("general", 80) <=> rate < 10 * g
    BY <1>3, <2>1, <2>2
  <2>4. AlertFor(rate, sponsored, setting) =
          IF sponsored /\ rate < 10 * u THEN "TIER4_RISK"
          ELSE IF rate < 10 * g THEN "LOW_ATTENDANCE" ELSE Nothing
    BY DEF AlertFor, Thresholds
  <2> HIDE DEF rate, u, g
  <2>5. DueNow = IF sponsored /\ rate < 10 * u THEN {"TIER4_RISK"}
                 ELSE IF rate < 10 * g THEN {"LOW_ATTENDANCE"} ELSE {}
    BY <2>3 DEF DueNow, AlertType
  <2>6. DueNow = IF AlertFor(rate, sponsored, setting) # Nothing
                 THEN {AlertFor(rate, sponsored, setting)} ELSE {}
    BY <2>4, <2>5 DEF Nothing
  <2> QED BY <1>5, <2>6 DEF rate
<1> QED BY <1>4, <1>5

(* What an evaluation holds, while nothing it depends on has changed.        *)
Agrees(x) ==
  /\ x.pc \in {"Count", "CountPresent", "CountTotal", "ReadRules"} => enrolled
  /\ x.pc \in {"CountPresent", "ReadRules"} => x.total = Total(rows)
  /\ x.pc \in {"CountTotal", "ReadRules"} => x.present = Present(rows)
  /\ x.pc \in {"FindAlert", "CreateAlert"} => DueNow = {x.type}

Live(x) == x.pc # "Idle" /\ x.fresh
Consistent == \A e \in Eval : Live(eval[e]) => Agrees(eval[e])
Justified == DueNow \subseteq explained /\ AlertsWereDue
Answered ==
  \/ excused
  \/ \E e \in Eval : Live(eval[e])
  \/ \A t \in DueNow : alerts[t] > 0
Informed == Consistent /\ Justified /\ Answered

LEMMA InitInformed == Init => Informed
<1> SUFFICES ASSUME Init PROVE Informed
  OBVIOUS
<1>1. DueNow = {}
  <2>1. Total(rows) = 0
    <3>1. {r \in Record : Counted(rows[r])} = {}
      BY DEF Init, Missing, Counted
    <3> QED BY <3>1, FS_EmptySet DEF Total
  <2>2. ~LowFor("ukvi", 70) /\ ~LowFor("general", 80)
    BY <2>1, LowIs, InitTyped, MinSampleAssumption
  <2> QED BY <2>2 DEF DueNow
<1>2. \A e \in Eval : ~Live(eval[e])
  BY DEF Init, Live, Idle
<1>3. AlertsWereDue
  BY DEF Init, AlertsWereDue
<1> QED BY <1>1, <1>2, <1>3 DEF Informed, Consistent, Justified, Answered

(* A step that changes none of the marks that count.                        *)
Still(r) ==
  /\ Mine(rows'[r]) <=> Mine(rows[r])
  /\ Counted(rows'[r]) <=> Counted(rows[r])
  /\ Mine(rows[r]) \/ Counted(rows[r]) => rows'[r].mark = rows[r].mark

LEMMA StillIs ==
  ASSUME Typed, Typed', NEW r \in Record,
         Counted(rows'[r]) <=> Counted(rows[r]),
         Counted(rows[r]) => rows'[r].mark = rows[r].mark
  PROVE  Still(r)
<1>1. Mine(rows[r]) <=> Counted(rows[r])
  BY MineIsCounted DEF Typed, TypeOK, Filled
<1>2. Mine(rows'[r]) <=> Counted(rows'[r])
  BY MineIsCounted DEF Typed, TypeOK, Filled
<1> QED BY <1>1, <1>2 DEF Still

LEMMA Unmoved ==
  ASSUME UNCHANGED student, \A r \in Record : Still(r)
  PROVE  /\ Total(rows') = Total(rows)
         /\ Present(rows') = Present(rows)
         /\ DueNow' = DueNow
         /\ \A x : Agrees(x)' <=> Agrees(x)
<1>1. Total(rows') = Total(rows)
  BY DEF Total, Still
<1>2. Present(rows') = Present(rows)
  <2>1. {r \in Record : Counted(rows'[r]) /\ rows'[r].mark \in Attended}
          = {r \in Record : Counted(rows[r]) /\ rows[r].mark \in Attended}
    BY DEF Still
  <2> QED BY <2>1 DEF Present
<1>3. DueNow' = DueNow
  <2> DEFINE now == {r \in Record : rows[r] # Missing /\ rows[r].place = "HERE"}
             next == {r \in Record : rows'[r] # Missing
                                      /\ rows'[r].place = "HERE"}
  <2>1. next = now
    BY DEF Still, Mine
  <2>2. {r \in next : rows'[r].mark = "PRESENT" \/ rows'[r].mark = "LATE"}
          = {r \in now : rows[r].mark = "PRESENT" \/ rows[r].mark = "LATE"}
    BY <2>1 DEF Still, Mine
  <2>3. /\ LowFor("ukvi", 70)' <=> LowFor("ukvi", 70)
        /\ LowFor("general", 80)' <=> LowFor("general", 80)
    BY <2>1, <2>2 DEF LowFor, student
  <2> QED BY <2>3 DEF DueNow, student
<1> QED BY <1>1, <1>2, <1>3 DEF Agrees, student

(* Evaluations, alerts and history stay as well.                            *)
LEMMA QuietInformed ==
  ASSUME Informed, UNCHANGED <<student, eval, alerts, history>>,
         \A r \in Record : Still(r)
  PROVE  Informed'
<1>1. DueNow' = DueNow /\ \A x : Agrees(x)' <=> Agrees(x)
  BY Unmoved
<1>2. eval' = eval /\ alerts' = alerts /\ excused' = excused
      /\ explained' = explained
  BY DEF history
<1>3. Consistent'
  <2>1. SUFFICES ASSUME NEW e \in Eval, Live(eval[e])
                 PROVE  Agrees(eval[e])'
    BY <1>2 DEF Consistent, Live
  <2>2. Agrees(eval[e])
    BY <2>1 DEF Informed, Consistent
  <2>3. PICK x : x = eval[e]
    OBVIOUS
  <2>4. Agrees(x)'
    BY <1>1, <2>2, <2>3
  <2>5. x = eval'[e]
    BY <1>2, <2>3
  <2> QED BY <2>4, <2>5 DEF Agrees
<1>4. Justified' /\ Answered'
  BY <1>1, <1>2 DEF Informed, Justified, Answered, AlertsWereDue, Live
<1> QED BY <1>3, <1>4 DEF Informed

(* When a value that evaluations depend on changes, those that run are no    *)
(* longer fresh, and what is due is remembered.                             *)
LEMMA ShakenIsDead ==
  ASSUME TypeOK, NEW e \in Eval
  PROVE  ~Live(Shaken(eval)[e])
<1>1. eval[e] \in EvalState
  BY DEF TypeOK
<1>2. Shaken(eval)[e] = IF eval[e].pc = "Idle" THEN eval[e] ELSE Stale(eval[e])
  BY ShakenTyped DEF TypeOK
<1>3. CASE eval[e].pc = "Idle"
  BY <1>2, <1>3 DEF Live
<1>4. CASE eval[e].pc # "Idle"
  <2>1. Stale(eval[e]).fresh = FALSE
    BY <1>1, <1>4, StaleShape
  <2> QED BY <1>2, <1>4, <2>1 DEF Live
<1> QED BY <1>3, <1>4

LEMMA ShakenInformed ==
  ASSUME TypeOK, Informed, Disturbs, UNCHANGED alerts,
         \/ eval' = Shaken(eval) /\ excused' = TRUE
         \/ \E e \in Eval : Starts(eval, e)
  PROVE  Informed'
<1>1. Justified'
  <2>1. explained' = explained \cup DueNow'
    BY DEF Disturbs
  <2> QED BY <2>1 DEF Informed, Justified, AlertsWereDue
<1>2. CASE eval' = Shaken(eval) /\ excused' = TRUE
  <2>1. \A e \in Eval : ~Live(eval'[e])
    BY <1>2, ShakenIsDead
  <2> QED BY <1>1, <1>2, <2>1 DEF Informed, Consistent, Answered, Live
<1>3. ASSUME NEW e \in Eval, Starts(eval, e)
      PROVE  Informed'
  <2>1. eval'[e] = [pc |-> "FindEnrolment", fresh |-> TRUE]
    BY <1>3, StartsTyped DEF TypeOK
  <2>2. \A d \in Eval : d # e => ~Live(eval'[d])
    BY <1>3, StartsTyped, ShakenIsDead DEF TypeOK
  <2>3. Live(eval'[e])
    BY <2>1 DEF Live
  <2>4. Agrees(eval[e])'
    BY <2>1 DEF Agrees
  <2>5. Consistent'
    BY <2>2, <2>4 DEF Consistent, Live
  <2>6. Answered'
    BY <2>3 DEF Answered, Live
  <2> QED BY <1>1, <2>5, <2>6 DEF Informed
<1> QED BY <1>2, <1>3

LEMMA RequestsInformed ==
  ASSUME Typed, Informed, Requests \/ Environment
  PROVE  Informed'
<1> USE DEF student, history
<1>a. Typed'
  BY RequestsTyped, EnvironmentTyped
<1>b. ASSUME rows' = rows PROVE \A r \in Record : Still(r)
  BY <1>b DEF Still
<1>6. ASSUME NEW r \in Record, NEW m \in Marks, CreateElsewhere(r, m)
      PROVE  Informed'
  <2>1. rows' = [rows EXCEPT ![r] = [mark |-> m, place |-> "OTHER_STUDENT",
                                     deleted |-> FALSE]]
        /\ rows[r] = Missing /\ rows \in [Record -> Row]
    BY <1>6 DEF CreateElsewhere, Typed, TypeOK
  <2>2. \A d \in Record : Still(d)
    BY <1>a, <2>1, StillIs DEF Counted, Missing
  <2> QED BY <1>6, <2>2, QuietInformed DEF CreateElsewhere
<1>1. ASSUME NEW r \in Record, NEW m \in Marks, NEW e \in Eval,
             CreateRecord(r, m, e)
      PROVE  Informed'
  BY <1>1, ShakenInformed DEF CreateRecord, Typed
<1>2. ASSUME NEW q \in Request, NEW r \in Record, NEW b \in Bodies,
             PatchRecord(q, r, b)
      PROVE  Informed'
  BY <1>2, <1>b, QuietInformed DEF PatchRecord
<1>3. ASSUME NEW q \in Request, NEW e \in Eval, WriteRecord(q, e)
      PROVE  Informed'
  <2>a. UNCHANGED <<student, alerts>> /\ Disturbs
    BY <1>3 DEF WriteRecord
  <2>1. CASE Starts(eval, e)
    BY <2>1, <2>a, ShakenInformed DEF Typed
  <2>2. PICK r \in Record : r = req[q].record
    BY <1>3, RequestShape DEF WriteRecord, Typed, TypeOK
  <2> DEFINE new == Patched(rows[r], req[q])
  <2>3. rows' = [rows EXCEPT ![r] = new] /\ rows \in [Record -> Row]
    BY <1>3, <2>2 DEF WriteRecord, Typed, TypeOK
  <2>4. \/ Starts(eval, e)
        \/ /\ eval' = IF Shifts(rows[r], new) THEN Shaken(eval) ELSE eval
           /\ excused' = (excused \/ Overlooked(rows[r], new, req[q]))
           /\ \/ ~Reevaluates(req[q].prev, req[q].new)
              \/ new.place = "OTHER_STUDENT"
    BY <1>3, <2>2 DEF WriteRecord
  <2>5. excused \in BOOLEAN
    BY DEF Typed, TypeOK
  <2>6. CASE ~Starts(eval, e) /\ Shifts(rows[r], new)
    <3>1. Overlooked(rows[r], new, req[q])
      <4>1. new.mark = req[q].new
        BY DEF Patched
      <4>2. CASE new.place = "OTHER_STUDENT"
        <5>1. Counted(rows[r])
          BY <2>6, <4>2 DEF Shifts, Counted
        <5> QED BY <2>6, <4>2, <5>1 DEF Overlooked, Counted
      <4>3. CASE ~Reevaluates(req[q].prev, req[q].new)
        BY <2>6, <4>1, <4>3 DEF Overlooked, Shifts, Counted, Reevaluates
      <4> QED BY <2>4, <2>6, <4>2, <4>3
    <3>2. eval' = Shaken(eval) /\ excused' = TRUE
      BY <2>4, <2>6, <3>1
    <3> QED BY <2>a, <3>2, ShakenInformed DEF Typed
  <2>7. CASE ~Starts(eval, e) /\ ~Shifts(rows[r], new)
    <3>1. eval' = eval /\ excused' = (excused \/ FALSE)
      BY <2>4, <2>7 DEF Overlooked
    <3>2. excused' = excused
      BY <2>5, <3>1
    <3>3. /\ Counted(rows[r]) <=> Counted(new)
          /\ Counted(rows[r]) => new.mark = rows[r].mark
      <4>1. Counted(rows[r]) \in BOOLEAN /\ Counted(new) \in BOOLEAN
        BY DEF Counted
      <4> QED BY <2>7, <4>1 DEF Shifts
    <3> HIDE DEF new
    <3>4. \A d \in Record : Still(d)
      BY <1>a, <2>3, <3>3, StillIs
    <3>5. DueNow' = DueNow
      BY <2>a, <3>4, Unmoved
    <3>6. explained' = explained
      <4>1. explained' = explained \cup DueNow'
        BY <2>a DEF Disturbs
      <4> QED BY <3>5, <4>1 DEF Informed, Justified
    <3> QED BY <2>a, <3>1, <3>2, <3>4, <3>6, QuietInformed
  <2> QED BY <2>1, <2>6, <2>7
<1>4. ASSUME NEW r \in Record, RemoveRecord(r)
      PROVE  Informed'
  <2>1. rows[r] \in Row /\ rows \in [Record -> Row] /\ rows[r].mark # "MISSING"
    BY <1>4 DEF RemoveRecord, Typed, TypeOK, Filled
  <2>2. /\ rows'[r].mark = rows[r].mark /\ rows'[r].place = rows[r].place
        /\ \A d \in Record : d # r => rows'[d] = rows[d]
    BY <1>4, <2>1 DEF RemoveRecord, Row
  <2>3. \A d \in Record : Still(d)
    BY <1>a, <2>2, StillIs DEF Counted
  <2>4. UNCHANGED <<student, eval, alerts, history>>
    BY <1>4 DEF RemoveRecord
  <2> QED BY <2>3, <2>4, QuietInformed
<1>5. CASE Environment
  <2>1. /\ eval' = Shaken(eval) /\ excused' = TRUE
        /\ UNCHANGED alerts
        /\ Disturbs
    BY <1>5 DEF Environment, ChangeEnrolment, ChangeSponsorship,
       ChangeSetting, Unevaluated
  <2> QED BY <2>1, ShakenInformed DEF Typed
<1> QED BY <1>1, <1>2, <1>3, <1>4, <1>5, <1>6 DEF Requests

(* A step of one evaluation: what it must leave for the rest to hold.        *)
LEMMA EvaluateInformed ==
  ASSUME Exact, Typed, Informed, NEW e \in Eval,
         Evaluate(e) \/ FailEvaluation(e)
  PROVE  Informed'
<1> USE DEF student, history
<1>a. TypeOK
  BY DEF Typed
<1>b. /\ UNCHANGED <<rows, student, req>>
      /\ \A d \in Eval : d # e => eval'[d] = eval[d]
      /\ eval[e] \in EvalState /\ eval \in [Eval -> EvalState]
  BY <1>a, EvaluateEffect DEF TypeOK
<1>c. DueNow' = DueNow /\ \A x : Agrees(x)' <=> Agrees(x)
  BY <1>b, Unmoved DEF Still
<1>d. Live(eval[e]) => Agrees(eval[e])
  BY DEF Informed, Consistent
<1>e. Live(eval[e]) /\ eval[e].pc # "FindEnrolment"
        /\ eval[e].pc \notin {"FindAlert", "CreateAlert"} => enrolled
  BY <1>b, <1>d, EvalShape DEF Agrees, Live, Started
<1>1. ASSUME NEW x, eval'[e] = x, Live(x) => Agrees(x)
      PROVE  Consistent'
  <2>1. SUFFICES ASSUME NEW d \in Eval, Live(eval'[d])
                 PROVE  Agrees(eval[d])'
    BY DEF Consistent, Live
  <2>2. PICK y : y = eval'[d]
    OBVIOUS
  <2>3. Agrees(y)
    BY <1>1, <1>b, <2>1, <2>2 DEF Informed, Consistent
  <2>4. Agrees(y)'
    BY <1>c, <2>3
  <2> QED BY <2>2, <2>4 DEF Agrees
<1>2. ASSUME UNCHANGED <<alerts, explained>>,
             \/ excused'
             \/ excused' = excused /\ (Live(eval[e]) => Live(eval'[e]))
             \/ excused' = excused /\ (Live(eval[e]) =>
                                         \A t \in DueNow : alerts[t] > 0)
      PROVE  Justified' /\ Answered'
  <2>1. Justified'
    BY <1>2, <1>c DEF Informed, Justified, AlertsWereDue
  <2>2. Answered'
    BY <1>2, <1>b, <1>c DEF Informed, Answered, Live
  <2> QED BY <2>1, <2>2
<1>3. CASE FindEnrolment(e)
  <2>1. eval[e].pc = "FindEnrolment" /\ UNCHANGED <<alerts, excused, explained>>
    BY <1>3 DEF FindEnrolment
  <2>2. CASE enrolled
    <3>1. eval'[e] = [eval[e] EXCEPT !.pc = "Count"]
      BY <1>3, <1>b, <2>2 DEF FindEnrolment, Becomes
    <3>2. eval'[e].pc = "Count" /\ eval'[e].fresh = eval[e].fresh
      BY <1>b, <2>1, <3>1, EvalShape
    <3>3. Consistent'
      BY <1>1, <2>2, <3>2 DEF Agrees
    <3>4. Live(eval[e]) => Live(eval'[e])
      BY <3>2 DEF Live
    <3> QED BY <1>2, <2>1, <3>3, <3>4 DEF Informed
  <2>3. CASE ~enrolled
    <3>1. eval'[e] = Idle
      BY <1>3, <1>b, <2>3 DEF FindEnrolment, Becomes
    <3>2. Consistent'
      BY <1>1, <3>1 DEF Live, Idle
    <3>3. DueNow = {}
      BY <2>3 DEF DueNow, LowFor
    <3> QED BY <1>2, <2>1, <3>2, <3>3 DEF Informed
  <2> QED BY <2>2, <2>3
<1>4. CASE CountRecords(e)
  <2>1. UNCHANGED <<alerts, excused, explained>>
    BY <1>4 DEF CountRecords
  <2>2. PICK x :
          /\ x = eval'[e]
          /\ \/ /\ eval[e].pc = "Count"
                /\ \/ x = [pc |-> "CountPresent", total |-> Total(rows),
                           fresh |-> eval[e].fresh]
                   \/ x = [pc |-> "CountTotal", present |-> Present(rows),
                           fresh |-> eval[e].fresh]
             \/ /\ eval[e].pc = "CountPresent"
                /\ x = [pc |-> "ReadRules", total |-> eval[e].total,
                        present |-> Present(rows), fresh |-> eval[e].fresh]
             \/ /\ eval[e].pc = "CountTotal"
                /\ x = [pc |-> "ReadRules", total |-> Total(rows),
                        present |-> eval[e].present, fresh |-> eval[e].fresh]
    BY <1>4, <1>b DEF CountRecords, Becomes
  <2>3. x.pc # "Idle" /\ x.fresh = eval[e].fresh
    BY <2>2
  <2>4. Live(x) => Agrees(x)
    <3>1. SUFFICES ASSUME Live(x) PROVE Agrees(x)
      OBVIOUS
    <3>2. Live(eval[e]) /\ enrolled
      BY <1>e, <2>2, <2>3, <3>1 DEF Live
    <3> QED BY <1>d, <2>2, <3>2 DEF Agrees
  <2>5. Consistent'
    BY <1>1, <2>2, <2>4
  <2>6. Live(eval[e]) => Live(eval'[e])
    BY <2>2, <2>3 DEF Live
  <2> QED BY <1>2, <2>1, <2>5, <2>6 DEF Informed
<1>5. CASE ReadRules(e)
  <2> DEFINE type == AlertFor(Rate(eval[e].present, eval[e].total), sponsored,
                              setting)
             calls == EnoughRecords(eval[e].total) /\ type # Nothing
  <2>1. eval[e].pc = "ReadRules" /\ UNCHANGED <<alerts, excused, explained>>
    BY <1>5 DEF ReadRules
  <2>2. eval'[e] = IF calls THEN [pc |-> "FindAlert", type |-> type,
                                  fresh |-> eval[e].fresh]
                   ELSE Idle
    BY <1>5, <1>b DEF ReadRules, Becomes
  <2>3. Live(eval[e]) => DueNow = IF calls THEN {type} ELSE {}
    <3>1. SUFFICES ASSUME Live(eval[e])
                   PROVE  DueNow = IF calls THEN {type} ELSE {}
      OBVIOUS
    <3>2. /\ enrolled
          /\ eval[e].total = Total(rows)
          /\ eval[e].present = Present(rows)
      BY <1>d, <2>1, <3>1 DEF Agrees
    <3> QED BY <3>2, RulesAgree
  <2> HIDE DEF type, calls
  <2>4. CASE calls
    <3>1. /\ eval'[e].pc = "FindAlert" /\ eval'[e].type = type
          /\ eval'[e].fresh = eval[e].fresh
      BY <2>2, <2>4
    <3>2. Live(eval'[e]) => Live(eval[e])
      BY <2>1, <3>1 DEF Live
    <3>3. Live(eval[e]) => Live(eval'[e])
      BY <3>1 DEF Live
    <3>4. Consistent'
      BY <1>1, <2>3, <2>4, <3>1, <3>2 DEF Agrees
    <3> QED BY <1>2, <2>1, <3>3, <3>4 DEF Informed
  <2>5. CASE ~calls
    <3>1. Consistent'
      BY <1>1, <2>2, <2>5 DEF Live, Idle
    <3>2. Live(eval[e]) => \A t \in DueNow : alerts[t] > 0
      BY <2>3, <2>5
    <3> QED BY <1>2, <2>1, <3>1, <3>2 DEF Informed
  <2> QED BY <2>4, <2>5
<1>6. CASE FindAlert(e)
  <2>1. eval[e].pc = "FindAlert" /\ UNCHANGED <<alerts, excused, explained>>
    BY <1>6 DEF FindAlert
  <2>2. CASE IsOpen(eval[e].type)
    <3>1. eval'[e] = Idle
      BY <1>6, <1>b, <2>2 DEF FindAlert, Becomes
    <3>2. Consistent'
      BY <1>1, <3>1 DEF Live, Idle
    <3>3. Live(eval[e]) => \A t \in DueNow : alerts[t] > 0
      BY <1>d, <2>1, <2>2 DEF Agrees, IsOpen
    <3> QED BY <1>2, <2>1, <3>2, <3>3 DEF Informed
  <2>3. CASE ~IsOpen(eval[e].type)
    <3>1. eval'[e] = [eval[e] EXCEPT !.pc = "CreateAlert"]
      BY <1>6, <1>b, <2>3 DEF FindAlert, Becomes
    <3>2. /\ eval'[e].pc = "CreateAlert" /\ eval'[e].type = eval[e].type
          /\ eval'[e].fresh = eval[e].fresh
      BY <1>b, <2>1, <3>1, EvalShape
    <3>3. Live(eval'[e]) <=> Live(eval[e])
      BY <2>1, <3>2 DEF Live
    <3>4. Live(eval[e]) => DueNow = {eval[e].type}
      BY <1>d, <2>1 DEF Agrees
    <3>5. Consistent'
      BY <1>1, <3>2, <3>3, <3>4 DEF Agrees
    <3> QED BY <1>2, <2>1, <3>3, <3>5 DEF Informed
  <2> QED BY <2>2, <2>3
<1>7. CASE CreateAlert(e)
  <2>1. /\ eval[e].pc = "CreateAlert"
        /\ excused' = excused
        /\ eval'[e] = Idle
    BY <1>7, <1>b DEF CreateAlert, Becomes
  <2>2. PICK t \in AlertType : t = eval[e].type
    BY <1>b, <2>1, EvalShape
  <2>3. eval[e].fresh \in BOOLEAN
    BY <1>b, <2>1, EvalShape
  <2>4. /\ alerts' = [alerts EXCEPT ![t] = @ + 1]
        /\ explained' = explained \cup {u \in {t} : ~eval[e].fresh}
    BY <1>7, <2>2 DEF CreateAlert
  <2>5. eval[e].fresh => DueNow = {t}
    BY <1>d, <2>1, <2>2 DEF Agrees, Live
  <2>6. alerts \in [AlertType -> Nat] /\ alerts'[t] > 0
    BY <1>a, <2>4 DEF TypeOK
  <2>7. t \in explained'
    BY <2>3, <2>4, <2>5 DEF Informed, Justified
  <2>8. \A u \in AlertType : u # t => alerts'[u] = alerts[u]
    BY <2>4, <2>6
  <2>9. Justified'
    BY <1>c, <2>4, <2>7, <2>8 DEF Informed, Justified, AlertsWereDue
  <2>10. Consistent'
    BY <1>1, <2>1 DEF Live, Idle
  <2>11. DueNow \subseteq AlertType
    BY DEF DueNow
  <2>12. Answered'
    <3>1. CASE eval[e].fresh
      BY <1>c, <2>5, <2>6, <3>1 DEF Answered
    <3>2. CASE ~eval[e].fresh
      <4>1. (\E d \in Eval : Live(eval[d])) => \E d \in Eval : Live(eval'[d])
        BY <1>b, <3>2 DEF Live
      <4>2. (\A u \in DueNow : alerts[u] > 0) => \A u \in DueNow : alerts'[u] > 0
        BY <2>6, <2>8, <2>11
      <4> QED BY <1>c, <2>1, <4>1, <4>2 DEF Informed, Answered, Live
    <3> QED BY <2>3, <3>1, <3>2
  <2> QED BY <2>9, <2>10, <2>12 DEF Informed
<1>8. CASE FailEvaluation(e)
  <2>1. UNCHANGED <<alerts, explained>> /\ excused' /\ eval'[e] = Idle
    BY <1>8, <1>b DEF FailEvaluation, Becomes
  <2>2. Consistent'
    BY <1>1, <2>1 DEF Live, Idle
  <2> QED BY <1>2, <2>1, <2>2 DEF Informed
<1> QED BY <1>3, <1>4, <1>5, <1>6, <1>7, <1>8 DEF Evaluate

LEMMA InformedInvariant == Exact => (Spec => []Informed)
<1> SUFFICES ASSUME Exact PROVE Spec => []Informed
  OBVIOUS
<1>1. Typed /\ Informed /\ [Next]_vars => Informed'
  <2>1. SUFFICES ASSUME Typed, Informed, [Next]_vars PROVE Informed'
    OBVIOUS
  <2>2. CASE UNCHANGED vars
    BY <2>1, <2>2, QuietInformed DEF vars, Still
  <2> QED BY <2>1, <2>2, RequestsInformed, EvaluateInformed DEF Next
<1> QED BY <1>1, InitInformed, TypedInvariant, PTL DEF Spec

(* With fewer than twenty records, every alert of a student was due at some  *)
(* moment, or what the evaluation read had changed under it.                *)
THEOREM Groundless == Exact => (Spec => []AlertsWereDue)
<1>1. Informed => AlertsWereDue
  BY DEF Informed, Justified
<1> QED BY <1>1, InformedInvariant, PTL

(* With fewer than twenty records, when no evaluation runs and nothing       *)
(* excuses it, a student whose records call for an alert has one, however    *)
(* many marks are written and corrected at once.                            *)
THEOREM Missed == Exact => (Spec => []NoMissedAlert)
<1>1. Informed => NoMissedAlert
  BY DEF Informed, Answered, NoMissedAlert, Settled, Live
<1> QED BY <1>1, InformedInvariant, PTL
===============================================================================
