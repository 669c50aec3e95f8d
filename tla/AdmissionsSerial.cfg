SPECIFICATION FairSpec
CONSTANTS
  a1 = a1
  c1 = c1
  c2 = c2
  r1 = r1
  r2 = r2
  NoApp = NoApp
  Application <- OneApplication
  Condition <- TwoConditions
  Request <- OneRequest
  PatchedTo <- AnyPatch
  ConditionTo <- AnyCondition
PROPERTIES PromotionHappens FollowsGraph
