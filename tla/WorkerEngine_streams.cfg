\* One job, which its client or Cancel(jobId) may cancel, one load that may be given
\* up, processes that are replaced for other devices, and two deaths.
CONSTANTS
  j1 = j1
  Host = Host
  Caller = Caller
  Requests = {j1}
  Recycles = TRUE
  Settings = {1}
  MaxNumSeqs = 1
  Priorities = {0}
  PipeBound = 1
  Cancellable = {j1, Host}
  Cancels = {j1}
  MaxSpawns = 9
  MaxCrashes = 2
  MaxControls = 1
SPECIFICATION FairSpec
PROPERTIES
  StreamsEnd
\* Jobs, loads and deaths are used up, so the system stops.
CHECK_DEADLOCK FALSE
