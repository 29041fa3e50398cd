SPECIFICATION Spec
CONSTANTS
  Category <- MCCategory
  AutoCategory <- MCAutoCategory
  None = None
  MaxRevision = 1
  MaxJobs = 4
  MaxAttempts = 4
  MaxFailures = 1
  Requests <- NoRequests
  Faults = {"crash"}
INVARIANTS
  RegisteredIntact
\* the system rests when nothing is queued and nobody asks for anything
CHECK_DEADLOCK FALSE
