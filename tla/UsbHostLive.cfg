SPECIFICATION Spec
CONSTANTS
  NumDevices = 3
  Devices <- ThreeDevices
  NoDevice <- Nobody
  Keycodes <- Keys
  Windows = {}
  Reliable = TRUE
  ResetDetects = TRUE
INVARIANTS NoUnseenChange SpeedMatches
PROPERTIES UnplugNoticed PluggedRuns
