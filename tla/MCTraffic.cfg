CONSTANTS
  p1 = p1
  p2 = p2
  Process <- MCProcess
  NoProcess = NoProcess
  MaxPaths = 2
  MaxTests = 2
  MaxTestFaults = 1
  MaxBytes = 2
  MaxChanges = 2
  Count = 3
  MaxConnects = 2
  MaxOthers = 1
  MaxSlotFaults = 2
SPECIFICATION MCSpec
INVARIANTS
  HelpersBelongToTest
  ReportIsOwn
  NeverCountedTwice
  EngineOnIssuedSessions
  NothingLeftConnected
  
PROPERTIES
  TestsEnd
  PausesLoseNothing
  FinishedReportStays
  
CHECK_DEADLOCK FALSE
