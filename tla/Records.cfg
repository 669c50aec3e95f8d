SPECIFICATION Spec
CONSTANTS
  Requests = {r1, r2}
  Tables <- AllServices
  MaxRequests = 2
SYMMETRY Symmetric
INVARIANTS TrailEndsAtRow MirrorEndsAtRow
PROPERTIES RemovedIsOutOfReach MovesFollowGraph
CHECK_DEADLOCK FALSE
