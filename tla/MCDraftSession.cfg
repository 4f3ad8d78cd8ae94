SPECIFICATION Spec
CONSTANTS
  s1 = s1
  draft = draft
  t1 = t1
  t2 = t2
  v1 = v1
  v2 = v2
  v3 = v3
  NoTurn = NoTurn
  NoChat = NoChat
  NoThread = NoThread
  Turns = {t1, t2}
  Sessions = {s1}
  Local <- MCLocal
  Opening <- MCOpening
  Typed <- MCTyped
  Openable = {s1}
  Retries = 2
  Walkers = {v1, v2, v3}
INVARIANTS
  ActiveIsShown
  ConfigHeard
  StoreFollows
  NoneLeftWaiting
CHECK_DEADLOCK FALSE
