\* Two loads or unloads that may be given up, processes that are replaced for other
\* devices, a death of the worker, and a job beside them.
CONSTANTS
  j1 = j1
  Host = Host
  Caller = Caller
  Requests = {j1}
  Recycles = TRUE
  Settings = {1}
  MaxNumSeqs = 1
  Priorities = {0}
  PipeBound = 1
  Cancellable = {Host}
  Cancels = {}
  MaxSpawns = 9
  MaxCrashes = 1
  MaxControls = 2
SPECIFICATION FairSpec
PROPERTIES
  ControlsEnd
\* Jobs, loads and deaths are used up, so the system stops.
CHECK_DEADLOCK FALSE
