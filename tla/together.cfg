SPECIFICATION Spec
CONSTANTS
  Category <- MCCategory
  AutoCategory <- MCAutoCategory
  None = None
  MaxRevision = 2
  MaxJobs = 10
  MaxAttempts = 4
  MaxFailures = 1
  Requests <- AllRequests
  Faults = {"crash", "stop", "io", "clips"}
INVARIANTS
  NothingAhead
  InputOnce
PROPERTIES
  NewRevisionHasJob
  JobsAreLedger
\* the system rests when nothing is queued and nobody asks for anything
CHECK_DEADLOCK FALSE
