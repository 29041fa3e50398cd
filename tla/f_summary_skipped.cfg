SPECIFICATION Spec
CONSTANTS
  Category <- MCCategory
  AutoCategory <- MCAutoCategory
  None = None
  MaxRevision = 2
  MaxJobs = 9
  MaxAttempts = 4
  MaxFailures = 0
  Requests = {"speaker", "summary"}
  Faults <- NoFaults
INVARIANTS
  SummaryUnderway
\* the system rests when nothing is queued and nobody asks for anything
CHECK_DEADLOCK FALSE
