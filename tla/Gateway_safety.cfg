\* Three requests with one key, a channel of one entry, and a server that stops.
CONSTANTS
  Requests = {r1, r2, r3}
  Entries = {r1, r2, r3}
  Limits <- MCLimits
  Window = 2
  Second = 2
  Estimates = {1}
  Usages = {0, 2}
  MaxStall = 1
  MaxTime = 3
  Capacity = 1
SPECIFICATION Spec
SYMMETRY RequestSymmetry
INVARIANTS
  GatewayTypeOK
  WithinRpm
  WithinTpm
  StoredOnce
  LossIsExplained
PROPERTIES
  HintSuffices
\* The requests are used up, so the system stops.
CHECK_DEADLOCK FALSE
