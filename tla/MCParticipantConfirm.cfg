SPECIFICATION Spec
CONSTANTS
  r1 = r1
  Requests = {r1}  Sessions = {r1}  Turns = {r1}
  Callers = {r1, side, aside}
  Target <- MCTarget
  NoTurn = NoTurn  NoChat = NoChat  Off = Off
  Retries = 5  Quiet = 2  Hard = 3  MaxFrames = 3
INVARIANTS NoConfirmationWaits
CHECK_DEADLOCK FALSE
