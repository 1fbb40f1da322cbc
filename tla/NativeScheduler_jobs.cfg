\* Four jobs on five pages: sharing, preemption, the return from it, and the
\* cancellation of a job that shares, at every point.
CONSTANTS
  j1 = j1
  j2 = j2
  j3 = j3
  j4 = j4
  NoPage = NoPage
  NoHash = NoHash
  NoJob = NoJob
  Pages = {1, 2, 3, 4, 5}
  Prefixes <- MCPrefixes
  Jobs <- MCJobs
  Kind <- MCKind
  Cancellable = {j2}
  PageSize = 2
  MaxNumSeqs = 3
  MaxChunkSize = 1
  MaxBatchedTokens = 2
SPECIFICATION FairSpec
INVARIANTS
  SchedulerTypeOK
  CountsAreHolders
  SharedPagesAgree
  IndexIsValid
  PagesCoverTokens
PROPERTIES
  CancelWins
  JobsEnd
\* Jobs are submitted once, so the system stops.
CHECK_DEADLOCK FALSE
