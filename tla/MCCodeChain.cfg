SPECIFICATION Spec
SYMMETRY Symmetry
CHECK_DEADLOCK FALSE
CONSTANTS
  Sessions = {s1}
  Roots = {a}
  Steps = {b, c}
  Edges = {e}
  Slots = {c1, c2}
  NoChain = NoChain
  NoRow = NoRow
  Corrupt = Corrupt
  NoNode = NoNode
  Idle = Idle
  Story = Story
  MaxChains = 2
  MaxStored = 2
  MaxNodes = 3
  MaxDepth = 2
  MaxRounds = 1
  MaxBlock = 1
  MaxCalls = 3
  Views = {v1, v2}
  NoView = NoView
  Findings <- WeakOrNone
INVARIANTS
  IndexMatchesRows
  RecentChainsKept
  StepwiseWellFormed
  NothingAcceptedIsLost
  NeverDropped
PROPERTY
  PanelKeepsItsPlace
