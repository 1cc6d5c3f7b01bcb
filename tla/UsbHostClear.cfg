SPECIFICATION Spec
CONSTANTS
  NumDevices = 3
  Devices <- TwoDevices
  NoDevice <- Nobody
  Keycodes <- Keys
  Windows = {}
  Reliable = TRUE
  ResetDetects = FALSE
PROPERTIES AttachStartsClear
