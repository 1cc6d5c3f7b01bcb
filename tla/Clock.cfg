SPECIFICATION Spec
CONSTANTS
  Alarm = {a1, a2}
  List = List
  Null = Null
  Wrap = 8
  MaxTicks = 7
  TickRate = 3
  Milli = 3
  Micro = 6
  Settle = 1
  XferTimeout = 2
  Moments <- Times
INVARIANTS ClockSound
PROPERTIES ImplementsCountdown InTime
