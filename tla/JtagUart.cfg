SPECIFICATION Spec
CONSTANTS
  BufLen = 3
  FifoDepth = 2
  NearlyEmpty = 1
  NearlyFull = 0
  DefaultTimeout = 2
  IntMax = 4
  MaxCount = 2
  Applications <- Uses
  MaxTyped = 0
  Numbers = 6
INVARIANTS DriverSound
PROPERTIES ImplementsStream WritesReturn NoneLeftOff
