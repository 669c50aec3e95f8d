CONSTANTS
  Request = {"r1", "r2"}
  User = {"student", "personal_tutor"}
  RolesOf <- MCRoles
  Portal = {"student"}
  TTL = 0
  MaxLookup = 1
  Horizon = 2
  Window = 1
  Max = 1
  MaxFaults = 1
SPECIFICATION Spec
INVARIANT OneRefreshForAll
INVARIANT EntryIsRecent
INVARIANT KnownToScope
CHECK_DEADLOCK FALSE
PROPERTY BlockedIsReleased
