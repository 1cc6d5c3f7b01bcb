SPECIFICATION Spec
CONSTANTS
  NumDevices = 3
  Devices <- TwoDevices
  NoDevice <- Nobody
  Keycodes <- Keys
  Windows = {"ack"}
  Reliable = TRUE
  ResetDetects = FALSE
PROPERTIES AckedChangeWasSeen
