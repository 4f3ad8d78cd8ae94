SPECIFICATION FairSpec
CONSTANTS
  r1 = r1
  Requests = {r1}  Sessions = {r1}  Turns = {r1}
  Callers = {r1, side}
  Target <- MCTarget
  NoTurn = NoTurn  NoChat = NoChat  Off = Off
  Retries = 1  Quiet = 2  Hard = 3  MaxFrames = 3
INVARIANTS EndsInTime FoldConverges
PROPERTIES EndsForCause RequestEnds SessionGoesWithRequest
CHECK_DEADLOCK FALSE
