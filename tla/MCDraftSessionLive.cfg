SPECIFICATION FairSpec
CONSTANTS
  s1 = s1
  draft = draft
  t1 = t1
  t2 = t2
  v1 = v1
  v2 = v2
  v3 = v3
  NoTurn = NoTurn
  NoChat = NoChat
  NoThread = NoThread
  Turns = {t1, t2}
  Sessions = {s1}
  Local <- MCLocal
  Opening <- MCOpening
  Typed <- MCNothing
  Openable = {s1}
  Retries = 1
  Walkers = {v1, v2, v3}
CHECK_DEADLOCK FALSE
PROPERTIES
  DraftUnblocks
  RegistryArrives
