SPECIFICATION Spec
CONSTANTS
  d1 = d1
  d2 = d2
  q1 = q1
  e1 = e1
  e2 = e2
  Record <- Records
  Request <- OneRequest
  Eval <- Evals
  MinSample = 2
  Settings = {50}
  NotANumber = NotANumber
  Visas = {TRUE}
  Mishaps = 1
  Marks = {"PRESENT", "ABSENT"}
  Bodies <- PatchBodies
SYMMETRY Symmetry
INVARIANTS
  NoMissedAlert
  AlertsWereDue
  DuplicatesAreRaces
CHECK_DEADLOCK FALSE
