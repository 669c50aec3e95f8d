SPECIFICATION FairSpec
CONSTANTS
  a1 = a1
  a2 = a2
  a3 = a3
  p1 = p1
  p2 = p2
  j1 = j1
  r1 = r1
  r2 = r2
  Person <- Persons
  Journey <- Journeys
  Application <- TwoApplications
  PersonOf <- PersonOfTwo
  JourneyOf <- JourneyOfTwo
  Request <- TwoRequests
  StaffOps <- StaffEnrols
  MaxYear = 0
  MaxAborts = 2
  MaxEnrolments = 2
INVARIANTS ConvertedIsEnrolled
PROPERTIES ConflictMeansRace RetriesSucceed
