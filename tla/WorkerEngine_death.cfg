\* One job and a worker that dies under it.
CONSTANTS
  j1 = j1
  Host = Host
  Caller = Caller
  Requests = {j1}
  Recycles = FALSE
  Settings = {1}
  MaxNumSeqs = 1
  Priorities = {0}
  PipeBound = 1
  Cancellable = {}
  Cancels = {}
  MaxSpawns = 3
  MaxCrashes = 1
  MaxControls = 1
SPECIFICATION Spec
INVARIANTS
  DeathIsReported
\* Jobs, loads and deaths are used up, so the system stops.
CHECK_DEADLOCK FALSE
