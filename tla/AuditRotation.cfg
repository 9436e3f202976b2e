SPECIFICATION FairSpec
CONSTANTS
  l1 = l1  r1 = r1  r2 = r2  c1 = c1
  Loggers <- OneLogger
  Reopeners <- TwoReopeners
  Closers <- OneCloser
  MaxHandles = 3
  MaxRotations = 1
INVARIANTS TypeOK WritesToOpenFile NoHandleLeaks FollowsRotation QuietUnlessMissed
PROPERTIES CallsReturn
