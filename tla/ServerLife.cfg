SPECIFICATION FairSpec
CONSTANTS
  q1 = q1  q2 = q2
  Requests <- TwoRequests
  MaxFiles = 2
  Readonly = FALSE
  Overruns = TRUE
INVARIANTS TypeOK StoredIsAuditedUnlessCut AuditIsTrue RepliesAddUp
PROPERTIES ShutdownEnds
CHECK_DEADLOCK FALSE
