\* Three jobs on one slot, two of which may be cancelled and may stay in the
\* generator, so that the last report may be one of two pending jobs.
CONSTANTS
  j1 = j1
  j2 = j2
  j3 = j3
  Host = Host
  Caller = Caller
  Requests = {j1, j2, j3}
  Recycles = FALSE
  Settings = {1}
  MaxNumSeqs = 1
  Priorities = {0}
  PipeBound = 1
  Cancellable = {j1, j2}
  Cancels = {}
  MaxSpawns = 3
  MaxCrashes = 0
  MaxControls = 1
SPECIFICATION FairSpec
PROPERTIES
  WaitersServed
\* Jobs, loads and deaths are used up, so the system stops.
CHECK_DEADLOCK FALSE
