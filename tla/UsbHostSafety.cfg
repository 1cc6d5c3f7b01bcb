SPECIFICATION Spec
CONSTANTS
  NumDevices = 3
  Devices <- TwoDevices
  NoDevice <- Nobody
  Keycodes <- Keys
  Windows = {"ack", "reset"}
  Reliable = FALSE
  ResetDetects = TRUE
INVARIANTS PollsEnumeratedDevice DeviceAnswersAtItsAddress NoTransferDuringBusReset
