SPECIFICATION RelayFairSpec
CONSTANTS
  tree = tree
  other = other
  here = here
  dCwd = dCwd
  dTree = dTree
  dOther = dOther
  repo = repo
  otherRepo = otherRepo
  NoDir = NoDir
  NoRepo = NoRepo
  Sessions = {tree, other, here}
  PreExisting = {tree, other}
  Dirs = {dCwd, dTree, dOther}
  Cwd = dCwd
  Project <- MCProject
  Repo <- MCRepo
  Malformed = {here}
  GitMayFail = FALSE
  Sweeps = 1
  MaxVersion = 2
  Leaving = {tree}
  Changing = {tree}
  MaxPushes = 2
  MaxViews = 1
INVARIANTS
  ForeignNeverSurfaces
  SweepIsComplete
  OwnedRowsSurface
PROPERTY
  OwnedRowEventuallyShown
CHECK_DEADLOCK FALSE
