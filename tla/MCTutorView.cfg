SPECIFICATION Spec
SYMMETRY Symmetry
CHECK_DEADLOCK FALSE
CONSTANTS
  Sessions = {s1}
  Roots = {a}
  Steps = {b}
  Slots = {c1, c2}
  NoChain = NoChain
  NoRow = NoRow
  Corrupt = Corrupt
  NoNode = NoNode
  MaxChains = 2
  MaxStored = 2
  Views = {v1, v2}
  NoView = NoView
  MaxInbox = 1
  MaxSpent = 3
INVARIANTS
  ShowsThePanel
  SelectionOnTree
  SyncedIsLast
PROPERTY
  AnswersInOrder
