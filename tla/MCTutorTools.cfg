SPECIFICATION MCSpec
CONSTANTS
  Sessions = {old, new}
  PreExisting = {old}
  HasWorkspace = TRUE
  MaxMoves = 4
  MaxClaims = 1
  A = A
  B = B
  AB = AB
  Names = {A, B, AB}
  Spelled <- MCSpelled
  MaxSymbols = 3
  MaxSegments = 2
  Trees <- MCTrees
  Drafts <- MCDrafts
  Code = Code
  Outside = Outside
  Elsewhere = Elsewhere
  NoFile = NoFile
  Budget = 9
INVARIANTS
  KnownSessionsContributed
  MatchIsDescent
  BoundedByLevels
  RefreshKeepsUnchanged
PROPERTIES
  KnownSessionsGetTools
  CallsEnd
CHECK_DEADLOCK FALSE
