SPECIFICATION Spec
CONSTANTS
  NakLimit = 2
  RetryLimit = 2
  MaxFaults = 2
  Devices <- AllDevices
INVARIANTS TypeOK RunningAgrees ErrorHasCause
PROPERTIES ImplementsRequest Ends
