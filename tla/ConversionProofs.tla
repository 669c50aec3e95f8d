--------------------------- MODULE ConversionProofs --------------------------
(****************************************************************************)
(* Proofs about Conversion for any number of people, applications and       *)
(* concurrent conversions.                                                  *)
(****************************************************************************)
EXTENDS Conversion, FiniteSetTheorems, TLAPS

LEMMA PlaceFacts ==
  ASSUME NEW a \in Application
  PROVE  PersonOf[a] \in Person /\ PlaceOf(a) \in Place
BY ApplicantsAssumption DEF PlaceOf, Place

\* The number of live students is a number, at most that of people.
LEMMA LiveCount ==
  /\ IsFiniteSet(LiveStudents)
  /\ Cardinality(LiveStudents) \in 0..Cardinality(Person)
<1>1. LiveStudents \subseteq Person
  BY DEF LiveStudents
<1>2. Cardinality(Person) \in Nat
  BY ApplicantsAssumption, FS_CardinalityType
<1>3. IsFiniteSet(LiveStudents) /\ Cardinality(LiveStudents) <= Cardinality(Person)
  BY <1>1, ApplicantsAssumption, FS_Subset
<1>4. Cardinality(LiveStudents) \in Nat
  BY <1>3, FS_CardinalityType
<1> QED
  BY <1>2, <1>3, <1>4

LEMMA NextNumberType ==
  ASSUME NEW y \in 0..MaxYear
  PROVE  /\ NextNumber(y) \in StudentNumber
         /\ NextNumber(y)[2] = Cardinality(LiveStudents) + 1
<1>1. Cardinality(Person) \in Nat
  BY ApplicantsAssumption, FS_CardinalityType
<1>2. Cardinality(LiveStudents) + 1 \in 1..(Cardinality(Person) + 1)
  BY <1>1, LiveCount
<1> QED
  BY <1>2 DEF NextNumber, StudentNumber

\* What a conversion in progress holds, by where it waits.
LEMMA RequestShape ==
  ASSUME TypeOK, NEW r \in Request
  PROVE  /\ req[r] \in RequestState
         /\ req[r] # Idle => req[r].pc # "Idle" /\ req[r].app \in Application
         /\ req[r].pc = "Count" => /\ req[r].year \in 0..MaxYear
                                   /\ req[r].seen \in 0..Cardinality(Person)
         /\ req[r].pc = "CreateStudent" =>
              /\ req[r].number \in StudentNumber
              /\ req[r].seen \in 0..Cardinality(Person)
BY DEF TypeOK, RequestState, Idle

------------------------------------------------------------------------------
LEMMA InitTypeOK == Init => TypeOK
BY BoundsAssumption DEF Init, TypeOK, RequestState, StudentRow, Idle

LEMMA NextTypeOK == TypeOK /\ [Next]_vars => TypeOK'
<1> SUFFICES ASSUME TypeOK, [Next]_vars PROVE TypeOK'
  OBVIOUS
<1> USE BoundsAssumption
<1>1. CASE UNCHANGED vars
  BY <1>1 DEF vars, TypeOK
<1>2. ASSUME NEW r \in Request, NEW a \in Application, Convert(r, a)
      PROVE  TypeOK'
  BY <1>2 DEF Convert, TypeOK, RequestState
<1>3. ASSUME NEW r \in Request, FindStudent(r) PROVE TypeOK'
  <2>1. req[r].app \in Application
    BY <1>3, RequestShape DEF FindStudent, Idle
  <2>2. year \in 0..MaxYear /\ Cardinality(LiveStudents) \in 0..Cardinality(Person)
    BY LiveCount DEF TypeOK
  <2>3. req' \in [Request -> RequestState]
    <3>1. CASE HasLiveStudent(PersonOf[req[r].app])
      BY <1>3, <2>1, <3>1 DEF FindStudent, Goto, TypeOK, RequestState
    <3>2. CASE ~ HasLiveStudent(PersonOf[req[r].app])
      <4>1. [pc |-> "Count", app |-> req[r].app, year |-> year,
             seen |-> Cardinality(LiveStudents)] \in RequestState
        BY <2>1, <2>2 DEF RequestState
      <4> QED
        BY <1>3, <3>2, <4>1 DEF FindStudent, TypeOK
    <3> QED
      BY <3>1, <3>2
  <2> QED
    BY <1>3, <2>3 DEF FindStudent, TypeOK
<1>4. ASSUME NEW r \in Request, CountStudents(r) PROVE TypeOK'
  <2>1. /\ req[r].app \in Application /\ req[r].year \in 0..MaxYear
        /\ req[r].seen \in 0..Cardinality(Person)
    BY <1>4, RequestShape DEF CountStudents, Idle
  <2>2. NextNumber(req[r].year) \in StudentNumber
    BY <2>1, NextNumberType
  <2> QED
    BY <1>4, <2>1, <2>2 DEF CountStudents, TypeOK, RequestState
<1>5. ASSUME NEW r \in Request, CreateStudent(r) PROVE TypeOK'
  <2>1. req[r].app \in Application /\ req[r].number \in StudentNumber
    BY <1>5, RequestShape DEF CreateStudent, Idle
  <2>2. student' \in [Person -> StudentRow]
    BY <1>5, <2>1, PlaceFacts DEF CreateStudent, TypeOK, StudentRow
  <2> QED
    BY <1>5, <2>1, <2>2 DEF CreateStudent, Goto, TypeOK, RequestState
<1>6. ASSUME NEW r \in Request, Conflict(r) PROVE TypeOK'
  BY <1>6 DEF Conflict, TypeOK, RequestState, Idle
<1>7. ASSUME NEW r \in Request, FindEnrolment(r) PROVE TypeOK'
  <2>1. req[r].app \in Application
    BY <1>7, RequestShape DEF FindEnrolment, Idle
  <2> QED
    BY <1>7, <2>1 DEF FindEnrolment, AfterLookup, Goto, TypeOK, RequestState
<1>8. ASSUME NEW r \in Request, CreateEnrolment(r) PROVE TypeOK'
  <2>1. req[r].app \in Application
    BY <1>8, RequestShape DEF CreateEnrolment, Idle
  <2>2. enrolled' \in [Place -> 0..MaxEnrolments]
    BY <1>8, <2>1, PlaceFacts DEF CreateEnrolment, OneMore, TypeOK
  <2>3. outrun' \subseteq Request
    BY <1>8 DEF CreateEnrolment, Outruns, Creating, TypeOK
  <2>4. req' \in [Request -> RequestState]
    BY <1>8, <2>1 DEF CreateEnrolment, Goto, TypeOK, RequestState
  <2> QED
    BY <1>8, <2>2, <2>3, <2>4 DEF CreateEnrolment, TypeOK
<1>9. ASSUME NEW r \in Request, Finish(r) PROVE TypeOK'
  <2>1. req[r].app \in Application
    BY <1>9, RequestShape DEF Finish, Idle
  <2> QED
    BY <1>9, <2>1 DEF Finish, TypeOK, RequestState, Idle
<1>10. ASSUME NEW r \in Request, Abort(r) PROVE TypeOK'
  BY <1>10 DEF Abort, TypeOK, RequestState, Idle
<1>11. ASSUME NEW a \in Application, Accept(a) \/ Withdraw(a) PROVE TypeOK'
  BY <1>11 DEF Accept, Withdraw, TypeOK
<1>12. ASSUME NEW p \in Person, RemoveStudent(p) PROVE TypeOK'
  <2>1. student[p].number \in StudentNumber /\ student[p] \in StudentRow
    BY <1>12 DEF RemoveStudent, HasLiveStudent, TypeOK, StudentRow
  <2>2. [student[p] EXCEPT !.state = "DELETED"] \in StudentRow
    BY <1>12, <2>1 DEF RemoveStudent, HasLiveStudent, StudentRow
  <2> QED
    BY <1>12, <2>2 DEF RemoveStudent, TypeOK
<1>13. ASSUME NEW pl \in Place, Enrol(pl) \/ RemoveEnrolment(pl) PROVE TypeOK'
  <2>1. enrolled' \in [Place -> 0..MaxEnrolments]
    BY <1>13 DEF Enrol, RemoveEnrolment, OneMore, TypeOK
  <2>2. outrun' \subseteq Request
    BY <1>13 DEF Enrol, RemoveEnrolment, Creating, TypeOK
  <2> QED
    BY <1>13, <2>1, <2>2 DEF Enrol, RemoveEnrolment, TypeOK
<1>14. CASE NewYear
  BY <1>14 DEF NewYear, TypeOK
<1> QED
  BY <1>1, <1>2, <1>3, <1>4, <1>5, <1>6, <1>7, <1>8, <1>9, <1>10, <1>11, <1>12,
     <1>13, <1>14 DEF Next, Continue

\* Rows, numbers and conversions in progress keep their types (TypeOK).
THEOREM TypeCorrect == Spec => []TypeOK
BY InitTypeOK, NextTypeOK, PTL DEF Spec

------------------------------------------------------------------------------
(* The numbers: while no student is deleted, what a request counted was     *)
(* handed out by nobody unless a student was created since.                 *)

LookedBefore(r) == req[r].seen <= Cardinality(LiveStudents)
StillNone(r) ==
  req[r].seen = Cardinality(LiveStudents)
    => student[PersonOf[req[r].app]].state = "MISSING"
NumberIsNext(r) ==
  req[r].pc = "CreateStudent"
    => /\ req[r].number[2] > req[r].seen
       /\ req[r].number[2] <= Cardinality(LiveStudents) + 1

NumbersInv ==
  /\ TypeOK
  /\ \A p \in Person :
       /\ student[p].state # "DELETED"
       /\ student[p].state = "LIVE"
            => student[p].number[2] <= Cardinality(LiveStudents)
  /\ \A r \in Request :
       req[r].pc \in {"Count", "CreateStudent"}
         => LookedBefore(r) /\ StillNone(r) /\ NumberIsNext(r)

LEMMA NumberRange ==
  ASSUME NEW n \in StudentNumber PROVE n[2] \in Nat
BY ApplicantsAssumption, FS_CardinalityType DEF StudentNumber

LEMMA InitNumbers == Init => NumbersInv
<1> SUFFICES ASSUME Init PROVE NumbersInv
  OBVIOUS
<1>1. \A p \in Person : student[p].state = "MISSING"
  BY DEF Init
<1>2. \A r \in Request : req[r].pc = "Idle"
  BY DEF Init, Idle
<1> QED
  BY InitTypeOK, <1>1, <1>2 DEF NumbersInv

LEMMA NextNumbers ==
  ASSUME "remove_student" \notin StaffOps
  PROVE  NumbersInv /\ [Next]_vars => NumbersInv'
<1> SUFFICES ASSUME NumbersInv, [Next]_vars PROVE NumbersInv'
  OBVIOUS
<1> DEFINE C == Cardinality(LiveStudents)
<1>t. TypeOK /\ TypeOK'
  BY NextTypeOK DEF NumbersInv
<1>c. C \in Nat
  BY LiveCount, ApplicantsAssumption, FS_CardinalityType
\* Everything but the four actions of student creation keeps the rows and
\* the requests that are about to create one.
<1> DEFINE Waiting(r) == req[r].pc \in {"Count", "CreateStudent"}
<1>k. ASSUME UNCHANGED student,
             \A r \in Request : Waiting(r)' => req'[r] = req[r]
      PROVE  NumbersInv'
  <2>1. C' = C
    BY <1>k DEF LiveStudents, HasLiveStudent
  <2>2. ASSUME NEW r \in Request, Waiting(r)'
        PROVE  (LookedBefore(r) /\ StillNone(r) /\ NumberIsNext(r))'
    <3>1. req'[r] = req[r] /\ Waiting(r)
      BY <1>k, <2>2
    <3> QED
      BY <3>1, <2>1, <1>k DEF NumbersInv, LookedBefore, StillNone, NumberIsNext
  <2> QED
    BY <1>t, <1>k, <2>1, <2>2 DEF NumbersInv
<1>1. CASE UNCHANGED vars
  BY <1>1, <1>k DEF vars
<1>2. ASSUME NEW r \in Request, NEW a \in Application, Convert(r, a)
      PROVE  NumbersInv'
  BY <1>2, <1>k, <1>t DEF Convert, TypeOK
<1>3. ASSUME NEW r \in Request, FindStudent(r) PROVE NumbersInv'
  <2>1. CASE HasLiveStudent(PersonOf[req[r].app])
    BY <1>3, <2>1, <1>k, <1>t DEF FindStudent, Goto, TypeOK
  <2>2. CASE ~ HasLiveStudent(PersonOf[req[r].app])
    <3>1. UNCHANGED student /\ C' = C
      BY <1>3 DEF FindStudent, LiveStudents, HasLiveStudent
    <3>2. /\ req'[r].pc = "Count" /\ req'[r].seen = C
          /\ req'[r].app = req[r].app /\ req[r].app \in Application
      BY <1>3, <2>2, <1>t, RequestShape DEF FindStudent, TypeOK, Idle
    <3>3. student[PersonOf[req[r].app]].state = "MISSING"
      BY <3>2, <2>2, <1>t, PlaceFacts
         DEF NumbersInv, TypeOK, StudentRow, HasLiveStudent
    <3>4. \A o \in Request : o # r => req'[o] = req[o]
      BY <1>3, <2>2, <1>t DEF FindStudent, TypeOK
    <3>5. ASSUME NEW o \in Request, Waiting(o)'
          PROVE  (LookedBefore(o) /\ StillNone(o) /\ NumberIsNext(o))'
      <4>1. CASE o = r
        BY <4>1, <3>1, <3>2, <3>3, <1>c DEF LookedBefore, StillNone, NumberIsNext
      <4>2. CASE o # r
        BY <4>2, <3>1, <3>4, <3>5
           DEF NumbersInv, LookedBefore, StillNone, NumberIsNext
      <4> QED
        BY <4>1, <4>2
    <3> QED
      BY <1>t, <3>1, <3>5 DEF NumbersInv
  <2> QED
    BY <2>1, <2>2
<1>4. ASSUME NEW r \in Request, CountStudents(r) PROVE NumbersInv'
  <2>1. UNCHANGED student /\ C' = C
    BY <1>4 DEF CountStudents, LiveStudents, HasLiveStudent
  <2>2. /\ req'[r].pc = "CreateStudent" /\ req'[r].app = req[r].app
        /\ req'[r].seen = req[r].seen
        /\ req'[r].number = NextNumber(req[r].year)
    BY <1>4, <1>t DEF CountStudents, TypeOK
  <2>3. NextNumber(req[r].year)[2] = C + 1
    BY <1>4, <1>t, RequestShape, NextNumberType DEF CountStudents
  <2>4. req[r].seen \in Nat /\ LookedBefore(r) /\ StillNone(r)
    BY <1>4, <1>t, RequestShape, ApplicantsAssumption, FS_CardinalityType
       DEF CountStudents, NumbersInv
  <2>5. \A o \in Request : o # r => req'[o] = req[o]
    BY <1>4, <1>t DEF CountStudents, TypeOK
  <2>6. ASSUME NEW o \in Request, Waiting(o)'
        PROVE  (LookedBefore(o) /\ StillNone(o) /\ NumberIsNext(o))'
    <3>1. CASE o = r
      BY <3>1, <2>1, <2>2, <2>3, <2>4, <1>c
         DEF LookedBefore, StillNone, NumberIsNext
    <3>2. CASE o # r
      BY <3>2, <2>1, <2>5, <2>6
         DEF NumbersInv, LookedBefore, StillNone, NumberIsNext
    <3> QED
      BY <3>1, <3>2
  <2> QED
    BY <1>t, <2>1, <2>6 DEF NumbersInv
<1>5. ASSUME NEW r \in Request, CreateStudent(r) PROVE NumbersInv'
  <2>1. PICK p \in Person : p = PersonOf[req[r].app]
    BY <1>5, <1>t, RequestShape, PlaceFacts DEF CreateStudent, Idle
  <2>2. student[p].state = "MISSING"
    BY <1>5, <2>1 DEF CreateStudent, Free
  <2>3. student' = [student EXCEPT ![p] = [state |-> "LIVE",
                                           number |-> req[r].number]]
    BY <1>5, <2>1 DEF CreateStudent
  <2>4. LiveStudents' = LiveStudents \cup {p} /\ p \notin LiveStudents
    BY <2>2, <2>3, <1>t DEF LiveStudents, HasLiveStudent, TypeOK
  <2>5. C' = C + 1
    BY <2>4, LiveCount, FS_AddElement
  <2>6. req[r].number[2] <= C + 1 /\ req[r].number[2] \in Nat
    BY <1>5, <1>t, RequestShape, NumberRange
       DEF CreateStudent, NumbersInv, NumberIsNext
  <2>7. ASSUME NEW o \in Person
        PROVE  /\ student'[o].state # "DELETED"
               /\ student'[o].state = "LIVE" => student'[o].number[2] <= C'
    <3>1. CASE o = p
      BY <3>1, <2>3, <2>5, <2>6, <1>t DEF TypeOK
    <3>2. CASE o # p
      <4>1. student'[o] = student[o]
        BY <3>2, <2>3, <1>t DEF TypeOK
      <4>2. student[o].state = "LIVE" => student[o].number[2] \in Nat
        BY <1>t, NumberRange DEF TypeOK, StudentRow
      <4> QED
        BY <4>1, <4>2, <2>5, <1>c DEF NumbersInv
    <3> QED
      BY <3>1, <3>2
  <2>8. \A o \in Request : o # r => req'[o] = req[o]
    BY <1>5, <1>t DEF CreateStudent, Goto, TypeOK
  <2>9. ~ Waiting(r)'
    BY <1>5, <1>t DEF CreateStudent, Goto, TypeOK
  <2>10. ASSUME NEW o \in Request, Waiting(o)'
         PROVE  (LookedBefore(o) /\ StillNone(o) /\ NumberIsNext(o))'
    <3>1. req'[o] = req[o] /\ Waiting(o)
      BY <2>8, <2>9, <2>10
    <3>2. req[o].seen \in Nat
      BY <3>1, <1>t, RequestShape, ApplicantsAssumption, FS_CardinalityType
    <3>3. LookedBefore(o) /\ NumberIsNext(o)
      BY <3>1 DEF NumbersInv
    <3>4. req[o].pc = "CreateStudent" => req[o].number[2] \in Nat
      BY <3>1, <1>t, RequestShape, NumberRange
    <3>5. req[o].seen < C'
      BY <3>2, <3>3, <2>5, <1>c DEF LookedBefore
    <3> QED
      BY <3>1, <3>2, <3>3, <3>4, <3>5, <2>5, <1>c
         DEF LookedBefore, StillNone, NumberIsNext
  <2> QED
    BY <1>t, <2>7, <2>10 DEF NumbersInv
<1>6. ASSUME NEW r \in Request, Conflict(r) \/ Finish(r) \/ Abort(r)
      PROVE  NumbersInv'
  <2>1. UNCHANGED student /\ req' = [req EXCEPT ![r] = Idle]
    BY <1>6 DEF Conflict, Finish, Abort
  <2> QED
    BY <2>1, <1>k, <1>t DEF TypeOK, Idle
<1>7. ASSUME NEW r \in Request, FindEnrolment(r) \/ CreateEnrolment(r)
      PROVE  NumbersInv'
  <2>1. UNCHANGED student /\ \A o \in Request : o # r => req'[o] = req[o]
    BY <1>7, <1>t DEF FindEnrolment, CreateEnrolment, Goto, TypeOK
  <2>2. ~ Waiting(r)'
    BY <1>7, <1>t DEF FindEnrolment, CreateEnrolment, AfterLookup, Goto, TypeOK
  <2> QED
    BY <2>1, <2>2, <1>k
<1>8. ASSUME NEW a \in Application, Accept(a) \/ Withdraw(a) PROVE NumbersInv'
  BY <1>8, <1>k DEF Accept, Withdraw
<1>9. ASSUME NEW p \in Person, RemoveStudent(p) PROVE NumbersInv'
  BY <1>9 DEF RemoveStudent
<1>10. ASSUME NEW pl \in Place, Enrol(pl) \/ RemoveEnrolment(pl)
       PROVE  NumbersInv'
  BY <1>10, <1>k DEF Enrol, RemoveEnrolment
<1>11. CASE NewYear
  BY <1>11, <1>k DEF NewYear
<1> QED
  BY <1>1, <1>2, <1>3, <1>4, <1>5, <1>6, <1>7, <1>8, <1>9, <1>10, <1>11
     DEF Next, Continue

\* A request that conflicts although nobody created a student since it looked
\* contradicts NumbersInv: its number is free and its person has no row.
LEMMA ConflictIsRace ==
  ASSUME NumbersInv, NEW r \in Request, Conflict(r)
  PROVE  Cardinality(LiveStudents) # req[r].seen
<1> SUFFICES ASSUME Cardinality(LiveStudents) = req[r].seen PROVE FALSE
  OBVIOUS
<1>0. TypeOK /\ Cardinality(LiveStudents) \in Nat
  BY LiveCount, ApplicantsAssumption, FS_CardinalityType DEF NumbersInv
<1>1. /\ student[PersonOf[req[r].app]].state = "MISSING"
      /\ req[r].number[2] > Cardinality(LiveStudents)
      /\ req[r].number[2] \in Nat
  BY <1>0, RequestShape, NumberRange
     DEF Conflict, NumbersInv, StillNone, NumberIsNext
<1>2. ASSUME NEW o \in Person, student[o].state # "MISSING"
      PROVE  student[o].number # req[r].number
  <2>1. student[o].state = "LIVE" /\ student[o].number \in StudentNumber
    BY <1>0, <1>2 DEF NumbersInv, TypeOK, StudentRow
  <2>2. student[o].number[2] <= Cardinality(LiveStudents)
    BY <2>1 DEF NumbersInv
  <2> QED
    BY <2>1, <2>2, <1>0, <1>1, NumberRange
<1> QED
  BY <1>1, <1>2 DEF Conflict, Free

\* While no student is deleted, a conversion conflicts only when somebody
\* created a student after it looked (ConflictMeansRace).
THEOREM ConflictsAreRaces ==
  ASSUME "remove_student" \notin StaffOps
  PROVE  Spec => ConflictMeansRace
<1>1. NumbersInv => (\A r \in Request :
        Conflict(r) => Cardinality(LiveStudents) # req[r].seen)
  BY ConflictIsRace
<1> QED
  BY InitNumbers, NextNumbers, <1>1, PTL DEF Spec, ConflictMeansRace

------------------------------------------------------------------------------
(* The rows behind application.converted.                                   *)

NoRemovals == StaffOps \cap {"remove_student", "remove_enrolment"} = {}

HasStudentBy(r) ==
  req[r].pc \in {"FindEnrolment", "CreateEnrolment", "Finish"}
    => HasLiveStudent(PersonOf[req[r].app])
HasEnrolmentBy(r) ==
  req[r].pc = "Finish" => enrolled[PlaceOf(req[r].app)] > 0

ProgressInv ==
  /\ TypeOK
  /\ ConvertedIsEnrolled
  /\ \A r \in Request : HasStudentBy(r) /\ HasEnrolmentBy(r)

LEMMA InitProgress == Init => ProgressInv
BY InitTypeOK
   DEF Init, Idle, ProgressInv, ConvertedIsEnrolled, HasStudentBy,
       HasEnrolmentBy

\* Without removals a live student and a live enrolment stay.
LEMMA NothingRemoved ==
  ASSUME TypeOK, NoRemovals, [Next]_vars
  PROVE  /\ \A p \in Person : HasLiveStudent(p) => HasLiveStudent(p)'
         /\ \A pl \in Place : enrolled[pl] > 0 => enrolled'[pl] > 0
<1> USE BoundsAssumption DEF HasLiveStudent
<1>1. CASE UNCHANGED <<student, enrolled>>
  BY <1>1
<1>2. ASSUME NEW r \in Request, CreateStudent(r)
      PROVE  /\ UNCHANGED enrolled
             /\ \A p \in Person :
                  student[p].state = "LIVE" => student'[p].state = "LIVE"
  BY <1>2 DEF CreateStudent, TypeOK
<1>3. ASSUME NEW pl \in Place,
             enrolled' = [enrolled EXCEPT ![pl] = OneMore(@)]
      PROVE  \A q \in Place : enrolled[q] > 0 => enrolled'[q] > 0
  BY <1>3 DEF OneMore, TypeOK
<1>4. ASSUME NEW r \in Request, CreateEnrolment(r)
      PROVE  /\ UNCHANGED student
             /\ \A q \in Place : enrolled[q] > 0 => enrolled'[q] > 0
  <2>1. PlaceOf(req[r].app) \in Place
    BY <1>4, RequestShape, PlaceFacts DEF CreateEnrolment, Idle
  <2> QED
    BY <1>3, <1>4, <2>1 DEF CreateEnrolment
<1>5. ASSUME NEW pl \in Place, Enrol(pl)
      PROVE  /\ UNCHANGED student
             /\ \A q \in Place : enrolled[q] > 0 => enrolled'[q] > 0
  BY <1>3, <1>5 DEF Enrol
<1>6. /\ \A p \in Person : ~ RemoveStudent(p)
      /\ \A pl \in Place : ~ RemoveEnrolment(pl)
  BY DEF RemoveStudent, RemoveEnrolment, NoRemovals
<1> QED
  BY <1>1, <1>2, <1>4, <1>5, <1>6
     DEF Next, Continue, vars, Convert, FindStudent, CountStudents, Conflict,
         FindEnrolment, Finish, Abort, Accept, Withdraw, NewYear

LEMMA NextProgress ==
  ASSUME NoRemovals PROVE ProgressInv /\ [Next]_vars => ProgressInv'
<1> SUFFICES ASSUME ProgressInv, [Next]_vars PROVE ProgressInv'
  OBVIOUS
<1>t. TypeOK /\ TypeOK'
  BY NextTypeOK DEF ProgressInv
<1>s. /\ \A p \in Person : HasLiveStudent(p) => HasLiveStudent(p)'
      /\ \A pl \in Place : enrolled[pl] > 0 => enrolled'[pl] > 0
  BY <1>t, NothingRemoved
\* A request that did not step, or ended, keeps its part of the invariant.
<1>r. ASSUME NEW r \in Request, req'[r] = req[r] \/ req'[r] = Idle
      PROVE  HasStudentBy(r)' /\ HasEnrolmentBy(r)'
  <2>1. CASE req'[r] = Idle
    BY <2>1 DEF HasStudentBy, HasEnrolmentBy, Idle
  <2>2. CASE req'[r] = req[r] /\ req[r] # Idle
    <3>1. PICK a \in Application : a = req[r].app
      BY <2>2, <1>t, RequestShape
    <3>2. PersonOf[a] \in Person /\ PlaceOf(a) \in Place
      BY PlaceFacts
    <3> QED
      BY <2>2, <3>1, <3>2, <1>s
         DEF ProgressInv, HasStudentBy, HasEnrolmentBy, PlaceOf
  <2> QED
    BY <1>r, <2>1, <2>2
\* So does an application that was converted before.
<1>a. ASSUME NEW a \in converted
      PROVE  HasLiveStudent(PersonOf[a])' /\ enrolled'[PlaceOf(a)] > 0
  BY <1>t, <1>s, PlaceFacts DEF ProgressInv, ConvertedIsEnrolled, TypeOK
<1>1. ASSUME UNCHANGED converted,
             \A r \in Request : HasStudentBy(r)' /\ HasEnrolmentBy(r)'
      PROVE  ProgressInv'
  BY <1>1, <1>a, <1>t DEF ProgressInv, ConvertedIsEnrolled, PlaceOf
<1>2. ASSUME UNCHANGED <<req, converted>> PROVE ProgressInv'
  BY <1>1, <1>2, <1>r
<1>3. ASSUME NEW r \in Request, UNCHANGED converted,
             \A o \in Request : o # r => req'[o] = req[o],
             HasStudentBy(r)', HasEnrolmentBy(r)'
      PROVE  ProgressInv'
  BY <1>1, <1>3, <1>r
<1>4. ASSUME NEW r \in Request, NEW a \in Application, Convert(r, a)
      PROVE  ProgressInv'
  BY <1>3, <1>4, <1>t DEF Convert, TypeOK, HasStudentBy, HasEnrolmentBy
<1>5. ASSUME NEW r \in Request, FindStudent(r) PROVE ProgressInv'
  <2>1. /\ UNCHANGED <<converted, student>>
        /\ \A o \in Request : o # r => req'[o] = req[o]
        /\ req'[r].app = req[r].app
        /\ \/ req'[r].pc = "Count"
           \/ req'[r].pc = "FindEnrolment" /\ HasLiveStudent(PersonOf[req[r].app])
    BY <1>5, <1>t DEF FindStudent, Goto, TypeOK
  <2> QED
    BY <1>3, <2>1 DEF HasStudentBy, HasEnrolmentBy, HasLiveStudent
<1>6. ASSUME NEW r \in Request, CountStudents(r) PROVE ProgressInv'
  BY <1>3, <1>6, <1>t DEF CountStudents, TypeOK, HasStudentBy, HasEnrolmentBy
<1>7. ASSUME NEW r \in Request, CreateStudent(r) PROVE ProgressInv'
  <2>1. PersonOf[req[r].app] \in Person
    BY <1>7, <1>t, RequestShape, PlaceFacts DEF CreateStudent, Idle
  <2>2. /\ UNCHANGED converted
        /\ \A o \in Request : o # r => req'[o] = req[o]
        /\ req'[r].app = req[r].app /\ req'[r].pc = "FindEnrolment"
        /\ student'[PersonOf[req[r].app]].state = "LIVE"
    BY <1>7, <1>t, <2>1 DEF CreateStudent, Goto, TypeOK
  <2> QED
    BY <1>3, <2>2 DEF HasStudentBy, HasEnrolmentBy, HasLiveStudent
<1>8. ASSUME NEW r \in Request, Conflict(r) \/ Abort(r) PROVE ProgressInv'
  BY <1>3, <1>8, <1>r, <1>t DEF Conflict, Abort, TypeOK
<1>9. ASSUME NEW r \in Request, FindEnrolment(r) PROVE ProgressInv'
  <2>1. /\ UNCHANGED <<converted, student, enrolled>>
        /\ \A o \in Request : o # r => req'[o] = req[o]
        /\ req'[r].app = req[r].app
        /\ req'[r].pc = AfterLookup(PlaceOf(req[r].app))
    BY <1>9, <1>t DEF FindEnrolment, Goto, TypeOK
  <2>2. HasLiveStudent(PersonOf[req[r].app])
    BY <1>9 DEF FindEnrolment, ProgressInv, HasStudentBy
  <2> QED
    BY <1>3, <2>1, <2>2
       DEF HasStudentBy, HasEnrolmentBy, HasLiveStudent, AfterLookup, PlaceOf
<1>10. ASSUME NEW r \in Request, CreateEnrolment(r) PROVE ProgressInv'
  <2>1. PlaceOf(req[r].app) \in Place
    BY <1>10, <1>t, RequestShape, PlaceFacts DEF CreateEnrolment, Idle
  <2>2. /\ UNCHANGED <<converted, student>>
        /\ \A o \in Request : o # r => req'[o] = req[o]
        /\ req'[r].app = req[r].app /\ req'[r].pc = "Finish"
        /\ enrolled'[PlaceOf(req[r].app)] > 0
    BY <1>10, <1>t, <2>1, BoundsAssumption
       DEF CreateEnrolment, Goto, OneMore, TypeOK
  <2>3. HasLiveStudent(PersonOf[req[r].app])
    BY <1>10 DEF CreateEnrolment, ProgressInv, HasStudentBy
  <2> QED
    BY <1>3, <2>2, <2>3 DEF HasStudentBy, HasEnrolmentBy, HasLiveStudent, PlaceOf
<1>11. ASSUME NEW r \in Request, Finish(r) PROVE ProgressInv'
  <2>1. PICK a \in Application : a = req[r].app
    BY <1>11, <1>t, RequestShape DEF Finish, Idle
  <2>2. HasLiveStudent(PersonOf[a]) /\ enrolled[PlaceOf(a)] > 0
    BY <1>11, <2>1 DEF Finish, ProgressInv, HasStudentBy, HasEnrolmentBy
  <2>3. HasLiveStudent(PersonOf[a])' /\ enrolled'[PlaceOf(a)] > 0
    BY <1>11, <2>2 DEF Finish, HasLiveStudent
  <2>4. \A o \in Request : req'[o] = req[o] \/ req'[o] = Idle
    BY <1>11, <1>t DEF Finish, TypeOK
  <2>5. converted' = converted \cup {a}
    BY <1>11, <2>1 DEF Finish
  <2> QED
    BY <1>a, <1>r, <1>t, <2>3, <2>4, <2>5
       DEF ProgressInv, ConvertedIsEnrolled, PlaceOf
<1>12. ASSUME NEW a \in Application, Accept(a) \/ Withdraw(a)
       PROVE  ProgressInv'
  BY <1>2, <1>12 DEF Accept, Withdraw
<1>13. ASSUME NEW p \in Person, RemoveStudent(p) PROVE ProgressInv'
  BY <1>2, <1>13 DEF RemoveStudent
<1>14. ASSUME NEW pl \in Place, Enrol(pl) \/ RemoveEnrolment(pl)
       PROVE  ProgressInv'
  BY <1>2, <1>14 DEF Enrol, RemoveEnrolment
<1>15. CASE NewYear \/ UNCHANGED vars
  BY <1>2, <1>15 DEF NewYear, vars
<1> QED
  BY <1>4, <1>5, <1>6, <1>7, <1>8, <1>9, <1>10, <1>11, <1>12, <1>13, <1>14, <1>15
     DEF Next, Continue

\* Unless staff delete rows, whatever was announced as converted is there,
\* however conversions interleave, conflict and are cut off.
THEOREM AnnouncedIsThere ==
  ASSUME NoRemovals PROVE Spec => []ConvertedIsEnrolled
BY InitProgress, NextProgress, PTL DEF Spec, ProgressInv

------------------------------------------------------------------------------
(* What a conversion that is about to create an enrolment has seen.         *)

\* It found none, and there is none still unless one was created since.
SawNone(r) ==
  req[r].pc = "CreateEnrolment" /\ r \notin outrun
    => enrolled[PlaceOf(req[r].app)] = 0

SawNoneInv == TypeOK /\ \A r \in Request : SawNone(r)

LEMMA NextSawNone == SawNoneInv /\ [Next]_vars => SawNoneInv'
<1> SUFFICES ASSUME SawNoneInv, [Next]_vars PROVE SawNoneInv'
  OBVIOUS
<1>t. TypeOK /\ TypeOK'
  BY NextTypeOK DEF SawNoneInv
<1>k. ASSUME UNCHANGED enrolled, NEW r \in Request, outrun' \ {r} = outrun \ {r},
             \A o \in Request : o # r => req'[o] = req[o], SawNone(r)'
      PROVE  SawNoneInv'
  BY <1>k, <1>t DEF SawNoneInv, SawNone, PlaceOf
<1>1. CASE UNCHANGED <<req, enrolled, outrun>>
  BY <1>1, <1>t DEF SawNoneInv, SawNone, PlaceOf
<1>2. ASSUME NEW r \in Request, NEW a \in Application, Convert(r, a)
      PROVE  SawNoneInv'
  BY <1>2, <1>k, <1>t DEF Convert, TypeOK, SawNone
<1>3. ASSUME NEW r \in Request,
             \/ FindStudent(r) \/ CountStudents(r) \/ CreateStudent(r)
             \/ Conflict(r) \/ Finish(r) \/ Abort(r)
      PROVE  SawNoneInv'
  <2>1. /\ UNCHANGED enrolled /\ outrun' \ {r} = outrun \ {r}
        /\ \A o \in Request : o # r => req'[o] = req[o]
    BY <1>3, <1>t
       DEF FindStudent, CountStudents, CreateStudent, Conflict, Finish, Abort,
           Goto, TypeOK
  <2>2. req'[r].pc # "CreateEnrolment"
    BY <1>3, <1>t
       DEF FindStudent, CountStudents, CreateStudent, Conflict, Finish, Abort,
           Goto, Idle, TypeOK
  <2> QED
    BY <2>1, <2>2, <1>k DEF SawNone
<1>4. ASSUME NEW r \in Request, FindEnrolment(r) PROVE SawNoneInv'
  <2>1. PlaceOf(req[r].app) \in Place
    BY <1>4, <1>t, RequestShape, PlaceFacts DEF FindEnrolment, Idle
  <2>2. /\ UNCHANGED <<enrolled, outrun>> /\ req'[r].app = req[r].app
        /\ req'[r].pc = AfterLookup(PlaceOf(req[r].app))
        /\ \A o \in Request : o # r => req'[o] = req[o]
    BY <1>4, <1>t DEF FindEnrolment, Goto, TypeOK
  <2>3. req'[r].pc = "CreateEnrolment" => enrolled[PlaceOf(req[r].app)] = 0
    BY <2>1, <2>2, <1>t DEF AfterLookup, TypeOK
  <2> QED
    BY <2>2, <2>3, <1>k DEF SawNone, PlaceOf
\* Whoever creates an enrolment outruns the others that are about to.
<1>c. ASSUME NEW pl \in Place, NEW r \in Request, req'[r] = req[r],
             \A q \in Place : q # pl => enrolled'[q] = enrolled[q],
             req[r].pc = "CreateEnrolment" /\ PlaceOf(req[r].app) = pl
               => r \in outrun',
             r \in outrun => r \in outrun'
      PROVE  SawNone(r)'
  <2>1. CASE req[r].pc = "CreateEnrolment" /\ r \notin outrun'
    <3>1. PICK q \in Place : q = PlaceOf(req[r].app)
      BY <2>1, <1>t, RequestShape, PlaceFacts DEF Idle
    <3>2. q # pl /\ enrolled[q] = 0
      BY <1>c, <2>1, <3>1 DEF SawNoneInv, SawNone
    <3> QED
      BY <1>c, <3>1, <3>2 DEF SawNone, PlaceOf
  <2> QED
    BY <1>c, <2>1 DEF SawNone
<1>5. ASSUME NEW r \in Request, CreateEnrolment(r) PROVE SawNoneInv'
  <2>1. PICK pl \in Place : pl = PlaceOf(req[r].app)
    BY <1>5, <1>t, RequestShape, PlaceFacts DEF CreateEnrolment, Idle
  <2>2. \A q \in Place : q # pl => enrolled'[q] = enrolled[q]
    BY <1>5, <2>1, <1>t DEF CreateEnrolment, TypeOK
  <2>3. req'[r].pc = "Finish" /\ \A o \in Request : o # r => req'[o] = req[o]
    BY <1>5, <1>t DEF CreateEnrolment, Goto, TypeOK
  <2>4. ASSUME NEW o \in Request PROVE SawNone(o)'
    <3>1. CASE o = r
      BY <3>1, <2>3 DEF SawNone
    <3>2. CASE o # r
      BY <1>5, <3>2, <2>1, <2>2, <2>3, <1>c
         DEF CreateEnrolment, Outruns, Creating
    <3> QED
      BY <3>1, <3>2
  <2> QED
    BY <2>4, <1>t DEF SawNoneInv
<1>6. ASSUME NEW pl \in Place, Enrol(pl) PROVE SawNoneInv'
  <2>1. UNCHANGED req /\ \A q \in Place : q # pl => enrolled'[q] = enrolled[q]
    BY <1>6, <1>t DEF Enrol, TypeOK
  <2>2. ASSUME NEW o \in Request PROVE SawNone(o)'
    BY <1>6, <2>1, <1>c DEF Enrol, Creating
  <2> QED
    BY <2>2, <1>t DEF SawNoneInv
<1>7. ASSUME NEW pl \in Place, RemoveEnrolment(pl) PROVE SawNoneInv'
  <2>1. /\ enrolled[pl] > 0 /\ UNCHANGED <<req, outrun>>
        /\ \A q \in Place : enrolled[q] = 0 => enrolled'[q] = 0
    BY <1>7, <1>t DEF RemoveEnrolment, TypeOK
  <2>2. ASSUME NEW r \in Request PROVE SawNone(r)'
    <3>1. CASE req[r].pc = "CreateEnrolment"
      <4>1. PICK q \in Place : q = PlaceOf(req[r].app)
        BY <3>1, <1>t, RequestShape, PlaceFacts DEF Idle
      <4> QED
        BY <4>1, <2>1 DEF SawNoneInv, SawNone, PlaceOf
    <3> QED
      BY <3>1, <2>1 DEF SawNone
  <2> QED
    BY <2>2, <1>t DEF SawNoneInv
<1> QED
  BY <1>1, <1>2, <1>3, <1>4, <1>5, <1>6, <1>7
     DEF Next, Continue, Accept, Withdraw, RemoveStudent, NewYear, vars

\* A conversion enrols a person who is enrolled on the journey already only if
\* that enrolment was created between its look-up and its creation, however
\* many conversions overlap, are cut off and repeated and whatever staff enrol,
\* withdraw and delete (SecondEnrolmentIsRace).
THEOREM SecondsAreRaces == Spec => SecondEnrolmentIsRace
<1>1. Init => SawNoneInv
  BY InitTypeOK DEF Init, Idle, SawNoneInv, SawNone
<1>2. SawNoneInv => (\A r \in Request :
        CreateEnrolment(r)
          => enrolled[PlaceOf(req[r].app)] = 0 \/ r \in outrun)
  BY DEF SawNoneInv, SawNone, CreateEnrolment
<1> QED
  BY <1>1, NextSawNone, <1>2, PTL DEF Spec, SecondEnrolmentIsRace
==============================================================================
