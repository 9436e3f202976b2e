SPECIFICATION Spec
CONSTANTS
  home = home  sub = sub
  Dirs <- TwoDirs
  Root = home
  MaxGestures = 2
  MaxLinks = 2
  MaxUnderWay = 2
INVARIANTS OneUploadPerDrop
CHECK_DEADLOCK FALSE
