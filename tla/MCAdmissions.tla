---------------------------- MODULE MCAdmissions -----------------------------
(* Instances of Admissions for TLC.  Requests are interchangeable, and so   *)
(* are the rows a run names with model values.                              *)
EXTENDS Admissions, TLC

CONSTANTS a1, c1, c2, r1, r2

OneApplication  == {a1}
TwoConditions   == {c1, c2}
OneRequest      == {r1}
TwoRequests     == {r1, r2}

AnyPatch == ApplicationStatus \cup {Unset}
\* No status, and from review to each kind of offer.
OfferPatches ==
  {Unset, "UNDER_REVIEW", "CONDITIONAL_OFFER", "UNCONDITIONAL_OFFER"}

\* One status of each kind; Unset is parsed as PENDING.
AnyCondition == {"MET", "NOT_MET", Unset}
MetOrPending == {"MET", Unset}

Symmetry == Permutations(TwoRequests) \cup Permutations(TwoConditions)
==============================================================================
