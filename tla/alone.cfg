SPECIFICATION FairSpec
CONSTANTS
  Category <- MCCategory
  AutoCategory <- MCAutoCategory
  None = None
  MaxRevision = 1
  MaxJobs = 9
  MaxAttempts = 4
  MaxFailures = 3
  Requests = {"retry"}
  Faults = {"crash", "transient", "permanent", "io", "source"}
INVARIANTS
  TypeOK
  OneRunning
  SettledOrFailed
  CompletedIsCurrent
  SummaryIsFresh
  AttemptLimit
PROPERTIES
  TerminalJobs
  NotResummarised
  WorkerStarts
  Settles
\* the system rests when nothing is queued and nobody asks for anything
CHECK_DEADLOCK FALSE
