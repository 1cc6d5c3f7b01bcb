SPECIFICATION Spec
CONSTANTS
  NakLimit = 3
  RetryLimit = 2
  MaxPktSize = 8
  ReportSize = 8
  Requested = 8
  MaxReports = 4
INVARIANTS ToggleAgrees
PROPERTIES ImplementsStream PollReturns ReportsArrive
