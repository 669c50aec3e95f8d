----------------------------- MODULE Conversion ------------------------------
(****************************************************************************)
(* Applicant-to-student conversion: convertToStudent of                     *)
(* applications.service.ts with the student and enrolment services it calls *)
(* and the staff operations on the same rows.  The handler awaits between   *)
(* every look-up and the creation it decides, outside any transaction;      *)
(* clients retry a conversion that failed.                                  *)
(*                                                                          *)
(* personId is unique in the students table, deleted rows included, so a    *)
(* student row is named by its person; a live enrolment has no such key and *)
(* is counted.                                                              *)
(****************************************************************************)
EXTENDS Naturals, FiniteSets

CONSTANTS
  Application,
  Person,
  Journey,        \* programme and academic year
  PersonOf,       \* [Application -> Person], through the applicant
  JourneyOf,      \* [Application -> Journey]
  Request,        \* how many conversions may be in progress at once
  StaffOps,       \* the staff operations a run allows
  MaxYear,        \* bound: calendar years 0..MaxYear
  MaxAborts,      \* bound: handlers cut off in a behaviour
  MaxEnrolments   \* bound: live enrolments counted per journey

ASSUME ApplicantsAssumption ==
  /\ PersonOf \in [Application -> Person]
  /\ JourneyOf \in [Application -> Journey]
  /\ IsFiniteSet(Person)

ASSUME BoundsAssumption ==
  /\ StaffOps \subseteq {"enrol", "remove_enrolment", "remove_student",
                         "withdraw"}
  /\ MaxYear \in Nat /\ MaxAborts \in Nat
  /\ MaxEnrolments \in Nat \ {0}

Place == Person \X Journey
PlaceOf(a) == <<PersonOf[a], JourneyOf[a]>>

\* STU-<year>-<n>
StudentNumber == (0..MaxYear) \X (1..(Cardinality(Person) + 1))

VARIABLES
  accepted,   \* applications at FIRM or UNCONDITIONAL_OFFER
  student,    \* [Person -> the students row of that person]
  enrolled,   \* [Place -> live enrolments of that person on that journey]
  converted,  \* applications whose application.converted was emitted
  req,        \* [Request -> where the conversion is and what it holds]
  year,       \* the calendar year
  aborts,     \* history, for MaxAborts
  outrun      \* history: conversions that found no enrolment where somebody
              \* has created one since

vars == <<accepted, student, enrolled, converted, req, year, aborts, outrun>>

Idle == [pc |-> "Idle"]

RequestState ==
  UNION { [pc : {"Idle"}],
          [pc : {"FindStudent", "FindEnrolment", "CreateEnrolment", "Finish"},
           app : Application],
          [pc : {"Count"}, app : Application, year : 0..MaxYear,
           seen : 0..Cardinality(Person)],
          [pc : {"CreateStudent"}, app : Application, number : StudentNumber,
           seen : 0..Cardinality(Person)] }

StudentRow ==
  UNION { [state : {"MISSING"}],
          [state : {"LIVE", "DELETED"}, number : StudentNumber] }

TypeOK ==
  /\ accepted \subseteq Application
  /\ student \in [Person -> StudentRow]
  /\ enrolled \in [Place -> 0..MaxEnrolments]
  /\ converted \subseteq Application
  /\ req \in [Request -> RequestState]
  /\ year \in 0..MaxYear
  /\ aborts \in 0..MaxAborts
  /\ outrun \subseteq Request

Init ==
  /\ accepted = {}
  /\ student = [p \in Person |-> [state |-> "MISSING"]]
  /\ enrolled = [pl \in Place |-> 0]
  /\ converted = {}
  /\ req = [r \in Request |-> Idle]
  /\ year = 0
  /\ aborts = 0
  /\ outrun = {}

------------------------------------------------------------------------------
(* convertToStudent, one action per awaited call                            *)

Goto(r, pc) == req' = [req EXCEPT ![r] = [pc |-> pc, app |-> req[r].app]]

\* The application is read and its status checked.
Convert(r, a) ==
  /\ req[r] = Idle
  /\ a \in accepted
  /\ req' = [req EXCEPT ![r] = [pc |-> "FindStudent", app |-> a]]
  /\ UNCHANGED <<accepted, student, enrolled, converted, year, aborts, outrun>>

MutantNoLookup(p) == FALSE
HasLiveStudent(p) == student[p].state = "LIVE"

LiveStudents == {p \in Person : HasLiveStudent(p)}

\* studentRepo.getByPersonId; generateStudentNumber takes the year at once.
\* seen is history: how many students there were at this look-up.
FindStudent(r) ==
  /\ req[r].pc = "FindStudent"
  /\ LET a == req[r].app
     IN IF HasLiveStudent(PersonOf[a])
        THEN Goto(r, "FindEnrolment")
        ELSE req' = [req EXCEPT ![r] = [pc |-> "Count", app |-> a,
                                        year |-> year,
                                        seen |-> Cardinality(LiveStudents)]]
  /\ UNCHANGED <<accepted, student, enrolled, converted, year, aborts, outrun>>

MutantNumberOne(y) == <<y, 1>>
NextNumber(y) == <<y, Cardinality(LiveStudents) + 1>>

CountStudents(r) ==
  /\ req[r].pc = "Count"
  /\ req' = [req EXCEPT ![r] = [pc |-> "CreateStudent", app |-> req[r].app,
                                number |-> NextNumber(req[r].year),
                                seen |-> req[r].seen]]
  /\ UNCHANGED <<accepted, student, enrolled, converted, year, aborts, outrun>>

\* The unique constraints on personId and studentNumber, which deleted rows
\* keep holding.
Free(p, number) ==
  /\ student[p].state = "MISSING"
  /\ \A o \in Person : student[o].state # "MISSING"
                         => student[o].number # number

CreateStudent(r) ==
  /\ req[r].pc = "CreateStudent"
  /\ Free(PersonOf[req[r].app], req[r].number)
  /\ student' = [student EXCEPT ![PersonOf[req[r].app]] =
                   [state |-> "LIVE", number |-> req[r].number]]
  /\ Goto(r, "FindEnrolment")
  /\ UNCHANGED <<accepted, enrolled, converted, year, aborts, outrun>>

\* P2002: the client gets 409 and nothing is retried.
Conflict(r) ==
  /\ req[r].pc = "CreateStudent"
  /\ ~ Free(PersonOf[req[r].app], req[r].number)
  /\ req' = [req EXCEPT ![r] = Idle]
  /\ UNCHANGED <<accepted, student, enrolled, converted, year, aborts, outrun>>

MutantAlwaysCreates(pl) == "CreateEnrolment"
AfterLookup(pl) == IF enrolled[pl] > 0 THEN "Finish" ELSE "CreateEnrolment"

\* enrolmentRepo.findForJourney
FindEnrolment(r) ==
  /\ req[r].pc = "FindEnrolment"
  /\ Goto(r, AfterLookup(PlaceOf(req[r].app)))
  /\ UNCHANGED <<accepted, student, enrolled, converted, year, aborts, outrun>>

OneMore(n) == IF n < MaxEnrolments THEN n + 1 ELSE n

\* The conversions that have found no enrolment at pl and will create one.
Creating(pl) ==
  {r \in Request : req[r].pc = "CreateEnrolment" /\ PlaceOf(req[r].app) = pl}

\* Request r creates an enrolment at pl while others are about to.
Outruns(pl, r) == outrun' = (outrun \cup Creating(pl)) \ {r}

MutantForgetsEnrolment(r) ==
  /\ req[r].pc = "CreateEnrolment"
  /\ Goto(r, "Finish")
  /\ outrun' = outrun \ {r}
  /\ UNCHANGED <<accepted, student, enrolled, converted, year, aborts>>
\* The enrolment and its first status history row, in one transaction.
CreateEnrolment(r) ==
  /\ req[r].pc = "CreateEnrolment"
  /\ enrolled' = [enrolled EXCEPT ![PlaceOf(req[r].app)] = OneMore(@)]
  /\ Goto(r, "Finish")
  /\ Outruns(PlaceOf(req[r].app), r)
  /\ UNCHANGED <<accepted, student, converted, year, aborts>>

\* The audit row, then application.converted.
Finish(r) ==
  /\ req[r].pc = "Finish"
  /\ converted' = converted \cup {req[r].app}
  /\ req' = [req EXCEPT ![r] = Idle]
  /\ UNCHANGED <<accepted, student, enrolled, year, aborts, outrun>>

\* An awaited call throws or the process stops; what is written stays.
Abort(r) ==
  /\ req[r] # Idle
  /\ aborts < MaxAborts
  /\ aborts' = aborts + 1
  /\ req' = [req EXCEPT ![r] = Idle]
  /\ outrun' = outrun \ {r}
  /\ UNCHANGED <<accepted, student, enrolled, converted, year>>

------------------------------------------------------------------------------
(* The rest of the system on the same rows                                  *)

\* PATCH /applications to FIRM or UNCONDITIONAL_OFFER, and out of them.
Accept(a) ==
  /\ accepted' = accepted \cup {a}
  /\ UNCHANGED <<student, enrolled, converted, req, year, aborts, outrun>>

Withdraw(a) ==
  /\ "withdraw" \in StaffOps
  /\ accepted' = accepted \ {a}
  /\ UNCHANGED <<student, enrolled, converted, req, year, aborts, outrun>>

\* DELETE /students/:id
RemoveStudent(p) ==
  /\ "remove_student" \in StaffOps
  /\ HasLiveStudent(p)
  /\ student' = [student EXCEPT ![p].state = "DELETED"]
  /\ UNCHANGED <<accepted, enrolled, converted, req, year, aborts, outrun>>

\* POST /enrolments names a student and a programme and looks nothing up.
Enrol(pl) ==
  /\ "enrol" \in StaffOps
  /\ student[pl[1]].state # "MISSING"
  /\ enrolled' = [enrolled EXCEPT ![pl] = OneMore(@)]
  /\ outrun' = outrun \cup Creating(pl)
  /\ UNCHANGED <<accepted, student, converted, req, year, aborts>>

\* DELETE /enrolments/:id
RemoveEnrolment(pl) ==
  /\ "remove_enrolment" \in StaffOps
  /\ enrolled[pl] > 0
  /\ enrolled' = [enrolled EXCEPT ![pl] = @ - 1]
  /\ UNCHANGED <<accepted, student, converted, req, year, aborts, outrun>>

NewYear ==
  /\ year < MaxYear
  /\ year' = year + 1
  /\ UNCHANGED <<accepted, student, enrolled, converted, req, aborts, outrun>>

Continue(r) ==
  \/ FindStudent(r) \/ CountStudents(r) \/ CreateStudent(r) \/ Conflict(r)
  \/ FindEnrolment(r) \/ CreateEnrolment(r) \/ Finish(r)

Next ==
  \/ \E r \in Request :
       (\E a \in Application : Convert(r, a)) \/ Continue(r) \/ Abort(r)
  \/ \E a \in Application : Accept(a) \/ Withdraw(a)
  \/ \E p \in Person : RemoveStudent(p)
  \/ \E pl \in Place : Enrol(pl) \/ RemoveEnrolment(pl)
  \/ NewYear

Spec == Init /\ [][Next]_vars

\* The client of an accepted application that has not been converted tries
\* again whenever its last attempt has ended.
Retry(a) ==
  /\ a \notin converted
  /\ \A r \in Request : req[r] # Idle => req[r].app # a
  /\ \E r \in Request : Convert(r, a)

FairSpec ==
  /\ Spec
  /\ \A r \in Request : WF_vars(Continue(r))
  /\ \A a \in Application : SF_vars(Retry(a))

------------------------------------------------------------------------------
(* Properties                                                               *)

\* "The same person cannot be enrolled on the same programme twice in the
\* same year" (enrolment.repository.ts): however conversions interleave, are
\* cut off and repeated, one of them enrols a person who is enrolled there
\* only if that enrolment was created after it had looked for one.
SecondEnrolmentIsRace ==
  [][\A r \in Request :
       CreateEnrolment(r)
         => enrolled[PlaceOf(req[r].app)] = 0 \/ r \in outrun]_vars

\* A conversion conflicts on a unique constraint only "if a concurrent
\* conversion races" (student.repository.ts): somebody else created a student
\* after this request found none for its person.
ConflictMeansRace ==
  [][\A r \in Request :
       Conflict(r) => Cardinality(LiveStudents) # req[r].seen]_vars

\* application.converted tells the truth: what it announced is there, although
\* an earlier attempt may have stopped half way.
ConvertedIsEnrolled ==
  \A a \in converted :
    HasLiveStudent(PersonOf[a]) /\ enrolled[PlaceOf(a)] > 0

\* "The endpoint is safe to retry": a client that keeps retrying converts its
\* application, whatever was written by the attempts that failed.
RetriesSucceed ==
  \A a \in Application :
    a \in accepted ~> a \in converted \/ a \notin accepted
==============================================================================
