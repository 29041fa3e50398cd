SPECIFICATION Spec
CONSTANTS
  Category <- MCCategory
  AutoCategory <- MCAutoCategory
  None = None
  MaxRevision = 3
  MaxJobs = 12
  MaxAttempts = 4
  MaxFailures = 1
  Requests = {"speaker"}
  Faults = {"crash"}
PROPERTIES
  WorkerStarts
\* the system rests when nothing is queued and nobody asks for anything
CHECK_DEADLOCK FALSE
