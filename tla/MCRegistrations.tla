--------------------------- MODULE MCRegistrations ---------------------------
(* Instances of Registrations for TLC: two registrations fill the limit of  *)
(* an enrolment, and the second module has the first as its prerequisite.   *)
EXTENDS Registrations, TLC

CONSTANTS g1, g2, x1, m1, m2, y1, y2, r1, r2, u1

TwoRegistrations == {g1, g2}
OneEnrolment  == {x1}
TwoModules    == {m1, m2}
TwoYears      == {y1, y2}
OneYear       == {y1}
TwoRegistrars == {r1, r2}
OneUpdate     == {u1}
CreditsOfModules == (m1 :> 60) @@ (m2 :> 80)
SecondNeedsFirst == (m1 :> {}) @@ (m2 :> {m1})

PatchBody(m, f, y) == [enrolment |-> Unset, module |-> m, form |-> f, year |-> y]
BothForms == {PatchBody(m2, "connect", Unset), PatchBody(m2, "scalar", Unset)}

Suspensions == {"ENROLLED", "SUSPENDED"}
==============================================================================
