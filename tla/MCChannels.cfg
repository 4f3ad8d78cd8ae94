SPECIFICATION MCSpec
CONSTANTS
  Frames = {f1, f2}
  Eof = Eof
  Unsettled = Unsettled
  MaxFrames = 5
  MaxSends = 2
  Relays = {r1, r2}
  Watchers = {w}
  NoView = NoView
  MissLimit = 3
  MaxInFlight = 3
INVARIANTS
  ExactlyOnceInOrder
  NoLostWakeup
  NothingMissed
  RelaysHearOnce
PROPERTIES
  EveryFrameReceived
  ImplementsChannel
  NoNeedlessVerdict
  DeadChannelHeals
CHECK_DEADLOCK FALSE
