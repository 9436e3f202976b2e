SPECIFICATION Spec
CONSTANTS
  u1 = u1  u2 = u2  m1 = m1  a = a
  Uploads <- TwoUploads
  Mkdirs <- OneMkdir
  Base <- OneName
  Sizes <- EmptyToOver
  MaxBytes = 1
  MaxInt = 3
  MaxRetries = 2
  HardLinks = TRUE
  Readonly = FALSE
  MaxClock = 1
  MaxCrashes = 1
SYMMETRY UploadSymmetry
INVARIANTS TypeOK StoredStays VisibleIsWhole NothingLeftBehind ErrorsAreTrue
PROPERTIES NoOverwrite ImplementsDropZone
CHECK_DEADLOCK FALSE
