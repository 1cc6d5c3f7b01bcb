SPECIFICATION LibrarySpec
CONSTANTS
  MAX_FD = 5
  uart = uart
  rozipfs = rozipfs
  null = null
  Device = {uart}
  FileSystem = {rozipfs}
  Console = uart
  DevNull = null
  None = None
  Provides <- Functions
  Mode = {"RDONLY", "WRONLY"}
  Flag = {"NONBLOCK"}
  Found = {{uart, rozipfs}, {rozipfs}}
  Fn = {f, register}
  Site = {s1, s2}
  RegisterFn = register
  RegisterSite = s1
  Node = 12
  Slab = 24
  HeapLimit = 92
  Requests = {7}
  TextBytes = 132
  BucketBytes = 32
  MaxCalls = 5
  MaxRequests = 1
  Length <- Lengths
  Raises <- Raising
  MaxNesting = 4
  Value <- Values
  Keycode = {0, 26}
  LED = {8}
  IntMax = 127
  CpuFreq = 50
  CyclesPerLoop = 9
  Million = 1
  Delays = {0, 1, 24, 25, 26, 51, 100}
  ResetHold = 51
  ByteWrap = 4
  MaxReads = 9
  Lines = 3
  MaxSections = 2
  DataWords = 2
  BssWords = 3
  Ctors = 2
  Formats <- AllFormats
  Chars = {"b"}
  Words = {0, 16, 2571, 4095}
  Strings <- SomeText
  TopShift = 2
  Level <- Levels
  Conversion <- Conversions
  LogWord = 8
  Number = {0, 26, 128, 255}
  Written <- LogWrites
  EchoLen = 4
  Interval = 1
  Depth = 2
  MaxInterrupts = 2
  Half = 3
  TimerFreq = 5
  OwnPeriod = 4
INVARIANTS OneHolder StartedUp ProfilerSound ExceptionsTransparent BoardAsAsked
INVARIANTS InterruptsSound PrintsFormat LogSound
PROPERTIES ImplementsDescriptors StampNearCall
CHECK_DEADLOCK FALSE
