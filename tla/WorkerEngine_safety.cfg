\* Two jobs, one of which may be cancelled, and one slot, loads and unloads, and a
\* death of the worker at any point, after which any write may start a new one.
CONSTANTS
  j1 = j1
  j2 = j2
  Host = Host
  Caller = Caller
  Requests = {j1, j2}
  Recycles = FALSE
  Settings = {1}
  MaxNumSeqs = 1
  Priorities = {0}
  PipeBound = 1
  Cancellable = {j1}
  Cancels = {}
  MaxSpawns = 2
  MaxCrashes = 1
  MaxControls = 2
SPECIFICATION Spec
INVARIANTS
  EngineTypeOK
  SlotsFollowJobs
  WorkerWithinCapacity
  NoOrphanJob
\* Jobs, loads and deaths are used up, so the system stops.
CHECK_DEADLOCK FALSE
