SPECIFICATION Spec
CONSTANTS
  u1 = u1  u2 = u2  m1 = m1  skip = skip  up = up
  Uploads <- TwoUploads
  Mkdirs <- OneMkdir
  Names <- TwoNames
  Fallback = skip
  Up = up
  Bases <- SomeBases
  RelPaths <- SomePaths
  MaxRelPathDepth = 2
  MaxRounds = 5
  Trees <- SomeTrees
INVARIANTS TypeOK StaysInside FoundWhereSent FoldersMerge RefusedForAReason
CHECK_DEADLOCK FALSE
