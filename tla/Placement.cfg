SPECIFICATION Spec
CONSTANTS
  Papers    <- MCPapers
  Sheets    <- MCSheets
  NoSheet   = NoSheet
  Size      <- MCSize
  Correct   <- MCCorrect
  Fits      <- MCFits
  NBands    = 2
  Sessions  <- MCSessions
  NoSession = NoSession
  NoLevel   = NoLevel
  Requests  <- MCRequests
  SessionOf <- MCSession
  IndexOf   <- MCIndex
  SheetOf   <- MCSheet
  MaxFaults = 1
  Times     <- MCTimes
CHECK_DEADLOCK FALSE
INVARIANTS
  TypeOK
  AcknowledgedAnswerCounts
  EstimateIsHighestPassed
PROPERTIES
  ScoresAreFinal
  ImplementsTest
