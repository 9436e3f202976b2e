SPECIFICATION Spec
CONSTANTS
  q1 = q1  q2 = q2
  Requests <- TwoRequests
  MaxFiles = 2
  Readonly = FALSE
  Overruns = TRUE
INVARIANTS StoredIsAudited
CHECK_DEADLOCK FALSE
