SPECIFICATION FairSpec
CONSTANTS
  g1 = g1
  g2 = g2
  x1 = x1
  m1 = m1
  m2 = m2
  y1 = y1
  y2 = y2
  r1 = r1
  r2 = r2
  u1 = u1
  Unset = Unset
  Registration <- TwoRegistrations
  Enrolment <- OneEnrolment
  Module <- TwoModules
  Year <- OneYear
  Credits <- CreditsOfModules
  Prerequisites <- SecondNeedsFirst
  MaxCredits = 120
  Registrar <- TwoRegistrars
  EnrolmentRequest <- OneUpdate
  Body <- BothForms
  EnrolmentTo <- Suspensions
INVARIANTS TypeOK CreditCap PrerequisitesPassed NoMissedCascade
PROPERTIES CascadeHappens
