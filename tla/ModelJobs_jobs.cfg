\* One job of any kind, two calls that cancel it, a crash and a failing save.
CONSTANTS
  Jobs = {p1}
  Kinds = {"pull", "quantize", "import"}
  Calls = {c1, c2}
  MaxCrashes = 1
  MaxSaveErrors = 1
SPECIFICATION FairSpec
INVARIANTS
  AnnouncedAsStored
  CancelledInTime
  NoOrphanRow
PROPERTIES
  JobsSettle
\* Every job is created once and every call made once, so the system stops.
CHECK_DEADLOCK FALSE
