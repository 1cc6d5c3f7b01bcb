SPECIFICATION Spec
CONSTANTS
  NakLimit = 3
  RetryLimit = 2
  MaxPktSize = 4
  ReportSize = 4
  Requested = 8
  MaxReports = 4

PROPERTIES NakMeansNoNewData
