SPECIFICATION Spec
CONSTANTS
  home = home  sub = sub
  Dirs <- TwoDirs
  Root = home
  MaxGestures = 2
  MaxLinks = 1
  MaxUnderWay = 2
INVARIANTS ViewIsUrl AnsweredIsShown
CHECK_DEADLOCK FALSE
