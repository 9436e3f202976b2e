SPECIFICATION ListSpec
CONSTANTS
  u1 = u1  u2 = u2  m1 = m1  nothing = nothing
  Nothing <- nothing
  Uploads <- TwoUploads
  Mkdirs <- OneMkdir
  Calls <- AllCalls
  Names <- TwoNames
  TempOf <- Temps
  Fold <- Folded
  Asks <- Requests
  Scans <- TempsAround
INVARIANTS ListTypeOK StoredIsListed TempsAreOfTheUnanswered SortedAsAsked
PROPERTIES ListIsAnswered
CHECK_DEADLOCK FALSE
