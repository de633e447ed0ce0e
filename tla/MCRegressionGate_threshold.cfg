CONSTANTS
  Tests = {t1, t2}
  Hosts <- MCHosts
  Lower <- MCLower
  EmptyPlatform <- MCEmptyPlatform
  NoExit = NoExit
  Killed = Killed
  SampleLists <- MCSampleLists
  ThresholdNum = 9
  ThresholdDen = 10
  InitialFiles <- MCInitialFiles
  MalformedLogs = FALSE
  WriteErrors = FALSE
  ReportWriteErrors = FALSE
  MaxRuns = 3

SPECIFICATION Spec

INVARIANT RoundTripStable
