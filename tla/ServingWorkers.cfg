\* Three requests for one slot: the slot of a request that is cut is free while
\* its generation still runs.
SPECIFICATION Spec
CONSTANTS
  Requests = {"r1", "r2", "r3"}
  Kind <- ThreeKinds
  Asked <- ThreeAsked
  Slots = 1
  QuotaLimit = 3
  MaxWindows = 0
  MaxCancels = 1
CHECK_DEADLOCK FALSE
INVARIANT WorkersBounded
