CONSTANTS
  Tests = {t1, t2}
  Hosts <- MCHosts
  Lower <- MCLower
  EmptyPlatform <- MCEmptyPlatform
  NoExit = NoExit
  Killed = Killed
  SampleLists <- MCSampleLists
  ThresholdNum = 6
  ThresholdDen = 5
  InitialFiles <- MCInitialFilesBadShape
  MalformedLogs = TRUE
  WriteErrors = FALSE
  ReportWriteErrors = TRUE
  MaxRuns = 3

SPECIFICATION Spec

INVARIANT ExitOneMeansRegression
