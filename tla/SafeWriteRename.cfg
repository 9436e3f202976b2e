SPECIFICATION FairSpec
CONSTANTS
  u1 = u1  u2 = u2  m1 = m1  a = a
  Uploads <- TwoUploads
  Mkdirs <- OneMkdir
  Base <- OneName
  Sizes <- EmptyToOver
  MaxBytes = 1
  MaxInt = 3
  MaxRetries = 1
  HardLinks = FALSE
  Readonly = FALSE
  MaxClock = 1
  MaxCrashes = 0
INVARIANTS NothingLeftBehind
PROPERTIES CallsReturn
CHECK_DEADLOCK FALSE
