SPECIFICATION Spec
CONSTANTS
  a1 = a1
  c1 = c1
  c2 = c2
  r1 = r1
  r2 = r2
  NoApp = NoApp
  Application <- OneApplication
  Condition <- TwoConditions
  Request <- TwoRequests
  PatchedTo <- OfferPatches
  ConditionTo <- MetOrPending
SYMMETRY Symmetry
INVARIANTS TypeOK DecisionStamped NoMissedPromotion EventsTellTheTruth
PROPERTIES PromotionsJustified
