SPECIFICATION Spec
CONSTANTS
  a1 = a1
  m1 = m1
  r1 = r1
  r2 = r2
  g1 = g1
  g2 = g2
  Registration <- Registrations
  Attempt <- Attempts
  Result <- Results
  Request <- Requests
  AttemptBodies <- Bodies
  ResultBodies = {"PROVISIONAL", "CONFIRMED"}
SYMMETRY Symmetry
INVARIANTS
  RatifiedHadNoOpenAttempt
  AnnouncedOnce
  CompletedIsReleased
PROPERTIES
  MovesFollowGraph
CHECK_DEADLOCK FALSE
