SPECIFICATION Spec
CONSTANTS
  Category <- MCCategory
  AutoCategory <- MCAutoCategory
  None = None
  MaxRevision = 1
  MaxJobs = 6
  MaxAttempts = 4
  MaxFailures = 1
  Requests = {"summary"}
  Faults = {"permanent"}
INVARIANTS
  CompletedUpToDate
\* the system rests when nothing is queued and nobody asks for anything
CHECK_DEADLOCK FALSE
