\* Four requests and one or two slots, as loads set them: a full pool, a queue of
\* two priorities behind it, and cancellations at every point.
CONSTANTS
  r1 = r1
  r2 = r2
  r3 = r3
  r4 = r4
  Requests = {r1, r2, r3, r4}
  Priorities <- MCPriorities
  Settings = {1, 2}
  Pendings <- MCPendings
  BatchSizes <- MCBatchSizes
SPECIFICATION AdmissionSpec
SYMMETRY RequestSymmetry
INVARIANTS
  AdmissionTypeOK
  SlotAccounting
  NoLostWakeup
PROPERTIES
  NoOvertaking
  GrantsFit
  ImplementsSemaphore
\* Every request is used once, so the system stops.
CHECK_DEADLOCK FALSE
