---------------------------- MODULE MCAttendance -----------------------------
(* Instances of Attendance for TLC.                                         *)
EXTENDS Attendance, TLC

CONSTANTS d1, d2, q1, e1, e2

Records  == {d1, d2}
OneRequest == {q1}
Evals    == {e1, e2}
Body(s, p) == [status |-> s, place |-> p]
PatchBodies == {Body("PRESENT", Unset), Body(Unset, "OTHER_STUDENT"),
                Body(Unset, "HERE")}
Symmetry == Permutations(Records) \cup Permutations(Evals)
==============================================================================
