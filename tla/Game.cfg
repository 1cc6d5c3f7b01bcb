SPECIFICATION GameSpec
CONSTANTS
  Levels <- AllLevels
  FinishLine = 3
  MaxScroll = 12
  MaxSpeed = 18
  G_dist = 40
INVARIANTS BodyClear NearTheStart
PROPERTIES SpeedLimit Lands Finishes
