SPECIFICATION Spec
CONSTANTS
  a1 = a1
  a2 = a2
  a3 = a3
  p1 = p1
  p2 = p2
  j1 = j1
  r1 = r1
  r2 = r2
  Person <- OnePerson
  Journey <- Journeys
  Application <- SharedApplications
  PersonOf <- PersonOfShared
  JourneyOf <- JourneyOfShared
  Request <- TwoRequests
  StaffOps <- AllStaffOps
  MaxYear = 1
  MaxAborts = 2
  MaxEnrolments = 2
PROPERTIES SecondEnrolmentIsRace
