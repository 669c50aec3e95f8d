---------------------------- MODULE MCAssessment -----------------------------
(* Instances of Assessment for TLC.                                         *)
EXTENDS Assessment, TLC

CONSTANTS a1, m1, r1, r2, g1, g2

Attempts == {a1}
Results  == {m1}
Requests == {r1, r2}
Registrations == {g1, g2}
Symmetry == Permutations(Requests) \cup Permutations(Registrations)
\* Marks come in halves; a body that names a registration brings none.
Statuses == {"MODERATED", "CONFIRMED", "REFERRED"}
Bodies ==
  { b \in AttemptBody :
      /\ b.status \in Statuses
      /\ ~(b.mark /\ b.grade)
      /\ b.to # Kept => b.status = "MODERATED" /\ ~b.mark /\ ~b.grade }
==============================================================================
