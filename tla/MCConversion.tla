---------------------------- MODULE MCConversion -----------------------------
(* Instances of Conversion for TLC.                                         *)
EXTENDS Conversion, TLC

CONSTANTS a1, a2, a3, p1, p2, j1, r1, r2

\* One person with two applications for the same journey.
SharedApplications == {a1, a2}
OnePerson == {p1}
TwoApplications == {a1, a3}
Persons  == {p1, p2}
Journeys == {j1}
OneJourney(A) == [a \in A |-> j1]
PersonOfShared == [a \in SharedApplications |-> p1]
PersonOfTwo == (a1 :> p1) @@ (a3 :> p2)
JourneyOfShared == OneJourney(SharedApplications)
JourneyOfTwo == OneJourney(TwoApplications)
OneRequest  == {r1}
TwoRequests == {r1, r2}

AllStaffOps == {"enrol", "withdraw", "remove_enrolment", "remove_student"}
StaffEnrols == {"enrol"}
==============================================================================
