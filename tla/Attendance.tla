------------------------------ MODULE Attendance ------------------------------
(****************************************************************************)
(* The attendance records of one student in the year of the current        *)
(* enrolment, and the evaluations that attendance.service.ts starts without *)
(* awaiting them and that open alerts.  An evaluation is a process of its   *)
(* own: it outlives the request, and two of them interleave at each await.  *)
(* Records of other students and years are there because a PATCH may move a *)
(* record between them; evaluations of other students are not.              *)
(****************************************************************************)
EXTENDS Integers, FiniteSets

CONSTANTS
  Record,     \* rows of attendance_records
  Request,    \* how many PATCH requests may be in progress at once
  Eval,       \* how many detached evaluations may run at once
  MinSample,  \* records needed before an alert; the code has 5
  Settings,   \* integers the two threshold settings may hold
  NotANumber, \* what parseInt makes of any other setting, or of none
  Visas,      \* what sponsored may be at first, a subset of BOOLEAN
  Mishaps,    \* bound: how often the environment acts or an evaluation fails
  Marks,      \* statuses that POST bodies carry
  Bodies      \* what PATCH bodies carry

ASSUME MinSampleAssumption == MinSample \in Nat \ {0}
ASSUME SettingsAssumption == Settings \subseteq Int /\ NotANumber \notin Int
ASSUME VisasAssumption == Visas \subseteq BOOLEAN
ASSUME MishapsAssumption == Mishaps \in Nat
ASSUME SlotsAssumption == IsFiniteSet(Record) /\ IsFiniteSet(Eval)

AlertType == {"TIER4_RISK", "LOW_ATTENDANCE"}
MarkStatus ==
  {"PRESENT", "ABSENT", "LATE", "EXCUSED", "AUTHORISED_ABSENCE"}
Attended == {"PRESENT", "LATE"}
Unset == "UNSET"
Nothing == "NOTHING"
\* What studentId and moduleRegistrationId make of a record: one of this
\* student and year, of this student in another year, or of somebody else.
Place == {"HERE", "OTHER_YEAR", "OTHER_STUDENT"}
ASSUME BodiesAssumption ==
  /\ Marks \subseteq MarkStatus
  /\ Bodies \subseteq [status : MarkStatus \cup {Unset},
                      place : Place \cup {Unset}]

VARIABLES
  rows,      \* [Record -> Missing, or the mark and whether it is deleted]
  enrolled,  \* the student has an ENROLLED enrolment
  sponsored, \* the UKVI record says SPONSORED
  setting,   \* the stored thresholds
  req,       \* [Request -> a PATCH between its read and its write]
  eval,      \* [Eval -> how far the evaluation is and what it holds]
  alerts,    \* [AlertType -> ACTIVE alerts of the student]
  mishaps,   \* bound: the Mishaps so far
  excused,   \* history: a due alert may be absent (see NoMissedAlert)
  explained  \* history: alert types that were due at some moment, or were
             \* decided on values of several moments

student == <<enrolled, sponsored, setting>>
history == <<excused, explained>>
vars == <<rows, student, req, eval, alerts, mishaps, history>>

Missing == [mark |-> "MISSING", place |-> "HERE", deleted |-> FALSE]
Idle == [pc |-> "Idle"]

Row == [mark : MarkStatus \cup {"MISSING"}, place : Place, deleted : BOOLEAN]
RequestState ==
  UNION { [pc : {"Idle"}],
          [pc : {"Write"}, record : Record, prev : MarkStatus,
           new : MarkStatus, place : Place \cup {Unset}] }
Tally == 0..Cardinality(Record)
\* fresh: nothing the evaluation depends on has changed since it started.
EvalState ==
  UNION { [pc : {"Idle"}],
          [pc : {"FindEnrolment", "Count"}, fresh : BOOLEAN],
          [pc : {"CountPresent"}, total : Tally, fresh : BOOLEAN],
          [pc : {"CountTotal"}, present : Tally, fresh : BOOLEAN],
          [pc : {"ReadRules"}, total : Tally, present : Tally, fresh : BOOLEAN],
          [pc : {"FindAlert", "CreateAlert"}, type : AlertType,
           fresh : BOOLEAN] }

TypeOK ==
  /\ rows \in [Record -> Row]
  /\ enrolled \in BOOLEAN
  /\ sponsored \in BOOLEAN
  /\ setting \in [{"ukvi", "general"} -> Settings \cup {NotANumber}]
  /\ req \in [Request -> RequestState]
  /\ eval \in [Eval -> EvalState]
  /\ alerts \in [AlertType -> Nat]
  /\ mishaps \in 0..Mishaps
  /\ excused \in BOOLEAN
  /\ explained \subseteq AlertType

Init ==
  /\ rows = [r \in Record |-> Missing]
  /\ enrolled = TRUE
  /\ sponsored \in Visas
  /\ setting = [s \in {"ukvi", "general"} |-> NotANumber]
  /\ req = [r \in Request |-> Idle]
  /\ eval = [e \in Eval |-> Idle]
  /\ alerts = [t \in AlertType |-> 0]
  /\ mishaps = 0
  /\ excused = FALSE
  /\ explained = {}

------------------------------------------------------------------------------
(* What an evaluation computes                                              *)

\* Neither count looks at deletedAt: a deleted record still counts.
Counted(row) == row.place = "HERE" /\ row.mark # "MISSING"
Total(table) == Cardinality({r \in Record : Counted(table[r])})
Present(table) ==
  Cardinality({r \in Record : Counted(table[r]) /\ table[r].mark \in Attended})

\* In tenths of a percent, rounded as toFixed(1) does.
Rate(present, total) ==
  IF total > 0 THEN (2000 * present + total) \div (2 * total) ELSE 0

Threshold(value, default) == IF value \in 1..100 THEN value ELSE default
Thresholds(stored) ==
  [ukvi |-> 10 * Threshold(stored["ukvi"], 70),
   general |-> 10 * Threshold(stored["general"], 80)]

EnoughRecords(total) == total >= MinSample

\* The one alert that a rate calls for: UKVI takes precedence.
MutantAtThreshold(rate, isSponsored, stored) ==
  IF isSponsored /\ rate <= Thresholds(stored).ukvi THEN "TIER4_RISK"
  ELSE IF rate <= Thresholds(stored).general THEN "LOW_ATTENDANCE"
  ELSE Nothing
AlertFor(rate, isSponsored, stored) ==
  IF isSponsored /\ rate < Thresholds(stored).ukvi THEN "TIER4_RISK"
  ELSE IF rate < Thresholds(stored).general THEN "LOW_ATTENDANCE"
  ELSE Nothing

\* What an evaluation would answer if it saw everything in one moment;
\* written from the documented rules and not with the operators above.
LowFor(kind, default) ==
  LET mine == {r \in Record : rows[r] # Missing /\ rows[r].place = "HERE"}
      total == Cardinality(mine)
      there == Cardinality({r \in mine :
                              rows[r].mark = "PRESENT" \/ rows[r].mark = "LATE"})
      least == IF setting[kind] = NotANumber THEN default
               ELSE IF setting[kind] < 1 \/ setting[kind] > 100 THEN default
               ELSE setting[kind]
  IN  /\ enrolled
      /\ total >= MinSample
      /\ 100 * there < least * total
DueNow ==
  {t \in AlertType :
     IF sponsored /\ LowFor("ukvi", 70) THEN t = "TIER4_RISK"
     ELSE LowFor("general", 80) /\ t = "LOW_ATTENDANCE"}

------------------------------------------------------------------------------
(* History: kept by every step that changes what an evaluation reads         *)

Shaken(running) ==
  [e \in Eval |->
     IF running[e].pc = "Idle" THEN running[e]
     ELSE [running[e] EXCEPT !.fresh = FALSE]]
Disturbs == explained' = explained \cup DueNow'

\* void evaluateAttendanceThresholds(...)
Starts(running, e) ==
  /\ running[e] = Idle
  /\ eval' = [Shaken(running) EXCEPT
                ![e] = [pc |-> "FindEnrolment", fresh |-> TRUE]]

------------------------------------------------------------------------------
(* Requests on /attendance                                                   *)

CreateRecord(r, mark, e) ==
  /\ rows[r] = Missing
  /\ rows' = [rows EXCEPT ![r] = [mark |-> mark, place |-> "HERE",
                                 deleted |-> FALSE]]
  /\ Starts(eval, e)
  /\ excused' = FALSE
  /\ UNCHANGED <<student, req, alerts, mishaps>>
  /\ Disturbs

\* A record of somebody else: the evaluation it starts is theirs.
CreateElsewhere(r, mark) ==
  /\ rows[r] = Missing
  /\ rows' = [rows EXCEPT ![r] = [mark |-> mark, place |-> "OTHER_STUDENT",
                                 deleted |-> FALSE]]
  /\ UNCHANGED <<student, req, eval, alerts, mishaps, history>>

\* zod fills in the default of the creation schema, in a PATCH too.
BodyStatus(body) == IF body.status = Unset THEN "ABSENT" ELSE body.status

PatchRecord(q, r, body) ==
  /\ req[q] = Idle
  /\ rows[r] # Missing
  /\ ~rows[r].deleted
  /\ req' = [req EXCEPT ![q] = [pc |-> "Write", record |-> r,
                                prev |-> rows[r].mark,
                                new |-> BodyStatus(body),
                                place |-> body.place]]
  /\ UNCHANGED <<rows, student, eval, alerts, mishaps, history>>

\* The comparison is of two statuses, the one that was read and the one that
\* was written; whose record it was is not compared.
MutantOnlyPresence(prev, new) == prev # new /\ new = "PRESENT"
Reevaluates(prev, new) == prev # new

\* What the update by id leaves of the row.
Patched(row, w) ==
  [mark |-> w.new, place |-> IF w.place = Unset THEN row.place ELSE w.place,
   deleted |-> row.deleted]

\* The write changes what this student's rate is computed from.
Shifts(old, new) ==
  \/ Counted(old) # Counted(new)
  \/ Counted(new) /\ old.mark # new.mark

\* History: such a change that update() could not see in the two statuses: the
\* one it had read was overwritten meanwhile, or the record has moved.
Overlooked(old, new, w) ==
  Shifts(old, new) /\ (old.mark # w.prev \/ old.place # new.place)

\* The evaluation it starts is of the student the record has now.
WriteRecord(q, e) ==
  LET w == req[q]
      old == rows[w.record]
      new == Patched(old, w)
  IN  /\ w.pc = "Write"
      /\ rows' = [rows EXCEPT ![w.record] = new]
      /\ req' = [req EXCEPT ![q] = Idle]
      /\ IF Reevaluates(w.prev, w.new) /\ new.place # "OTHER_STUDENT"
           THEN Starts(eval, e) /\ excused' = FALSE
           ELSE /\ eval' = IF Shifts(old, new) THEN Shaken(eval) ELSE eval
                /\ excused' = (excused \/ Overlooked(old, new, w))
      /\ UNCHANGED <<student, alerts, mishaps>>
      /\ Disturbs

RemoveRecord(r) ==
  /\ rows[r] # Missing
  /\ ~rows[r].deleted
  /\ rows' = [rows EXCEPT ![r].deleted = TRUE]
  /\ UNCHANGED <<student, req, eval, alerts, mishaps, history>>

------------------------------------------------------------------------------
(* What other services change under a running evaluation                    *)

Mishap == mishaps < Mishaps /\ mishaps' = mishaps + 1

Unevaluated ==
  /\ Mishap
  /\ eval' = Shaken(eval)
  /\ excused' = TRUE
  /\ UNCHANGED <<rows, req, alerts>>
  /\ Disturbs
ChangeEnrolment ==
  enrolled' = ~enrolled /\ UNCHANGED <<sponsored, setting>> /\ Unevaluated
ChangeSponsorship ==
  sponsored' = ~sponsored /\ UNCHANGED <<enrolled, setting>> /\ Unevaluated
ChangeSetting(s, v) ==
  /\ setting[s] # v
  /\ setting' = [setting EXCEPT ![s] = v]
  /\ UNCHANGED <<enrolled, sponsored>>
  /\ Unevaluated

------------------------------------------------------------------------------
(* evaluateAttendanceThresholds, one action per awaited call                 *)

Becomes(e, next) == eval' = [eval EXCEPT ![e] = next]

FindEnrolment(e) ==
  /\ eval[e].pc = "FindEnrolment"
  /\ Becomes(e, IF enrolled THEN [eval[e] EXCEPT !.pc = "Count"] ELSE Idle)
  /\ UNCHANGED <<rows, student, req, alerts, mishaps, history>>

\* Promise.all: two counts, in either order.
CountRecords(e) ==
  LET v == eval[e] IN
  /\ \/ /\ v.pc = "Count"
        /\ \/ Becomes(e, [pc |-> "CountPresent", total |-> Total(rows),
                          fresh |-> v.fresh])
           \/ Becomes(e, [pc |-> "CountTotal", present |-> Present(rows),
                          fresh |-> v.fresh])
     \/ /\ v.pc = "CountPresent"
        /\ Becomes(e, [pc |-> "ReadRules", total |-> v.total,
                       present |-> Present(rows), fresh |-> v.fresh])
     \/ /\ v.pc = "CountTotal"
        /\ Becomes(e, [pc |-> "ReadRules", total |-> Total(rows),
                       present |-> v.present, fresh |-> v.fresh])
  /\ UNCHANGED <<rows, student, req, alerts, mishaps, history>>

\* Three reads of rows that seldom change, taken together.
ReadRules(e) ==
  LET v == eval[e]
      type == AlertFor(Rate(v.present, v.total), sponsored, setting)
  IN  /\ v.pc = "ReadRules"
      /\ Becomes(e, IF EnoughRecords(v.total) /\ type # Nothing
                      THEN [pc |-> "FindAlert", type |-> type,
                            fresh |-> v.fresh]
                      ELSE Idle)
      /\ UNCHANGED <<rows, student, req, alerts, mishaps, history>>

\* createAlertIfNotOpen up to its write; nothing closes an alert again.
MutantLooksForTwo(type) == alerts[type] > 2
IsOpen(type) == alerts[type] > 0
FindAlert(e) ==
  /\ eval[e].pc = "FindAlert"
  /\ Becomes(e, IF IsOpen(eval[e].type) THEN Idle
                ELSE [eval[e] EXCEPT !.pc = "CreateAlert"])
  /\ UNCHANGED <<rows, student, req, alerts, mishaps, history>>

CreateAlert(e) ==
  LET v == eval[e] IN
  /\ v.pc = "CreateAlert"
  /\ alerts' = [alerts EXCEPT ![v.type] = @ + 1]
  /\ explained' = explained \cup {t \in {v.type} : ~v.fresh}
  /\ Becomes(e, Idle)
  /\ UNCHANGED <<rows, student, req, mishaps, excused>>

\* Any awaited call may throw; the error is logged and nothing is retried.  Or
\* the process ends, perhaps before the evaluation of a written record began.
FailEvaluation(e) ==
  /\ Mishap
  /\ eval[e] # Idle
  /\ Becomes(e, Idle)
  /\ excused' = TRUE
  /\ UNCHANGED <<rows, student, req, alerts, explained>>

Requests ==
  \/ \E r \in Record, m \in Marks :
       CreateElsewhere(r, m) \/ \E e \in Eval : CreateRecord(r, m, e)
  \/ \E q \in Request, r \in Record, b \in Bodies : PatchRecord(q, r, b)
  \/ \E q \in Request, e \in Eval : WriteRecord(q, e)
  \/ \E r \in Record : RemoveRecord(r)
Environment ==
  \/ ChangeEnrolment
  \/ ChangeSponsorship
  \/ \E s \in {"ukvi", "general"}, v \in Settings : ChangeSetting(s, v)
Evaluate(e) ==
  \/ FindEnrolment(e)
  \/ CountRecords(e)
  \/ ReadRules(e)
  \/ FindAlert(e)
  \/ CreateAlert(e)
Next ==
  \/ Requests
  \/ Environment
  \/ \E e \in Eval : Evaluate(e) \/ FailEvaluation(e)

Spec == Init /\ [][Next]_vars

------------------------------------------------------------------------------
(* Properties                                                                *)

Settled == \A e \in Eval : eval[e].pc = "Idle"

\* When no evaluation is running, a student whose records call for an alert
\* has one, for attendance.service.ts:191 and :215 start an evaluation after
\* a creation and after a change of status.  Excused are an evaluation that
\* threw, a change made elsewhere that starts none, a PATCH that compared with
\* a status another PATCH had already overwritten, and a PATCH that moves a
\* record between students or years without an evaluation of this student.
NoMissedAlert ==
  Settled /\ ~excused => \A t \in DueNow : alerts[t] > 0

\* Every open alert was due at some moment, unless what it was decided on
\* changed under the evaluation: the two counts, the thresholds and the visa
\* are read one after the other (attendance.service.ts:64-73).
AlertsWereDue ==
  \A t \in AlertType : alerts[t] > 0 => t \in explained

\* Duplicates come only from evaluations that looked for an open alert before
\* the other had created it (attendance.service.ts:123-128), so there are never
\* more open alerts of a type than evaluations that can run at once; with one
\* at a time the alert is unique, which is what the comment at :52 says.
DuplicatesAreRaces ==
  \A t \in AlertType : alerts[t] <= Cardinality(Eval)
==============================================================================
