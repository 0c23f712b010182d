SPECIFICATION Spec
CONSTANTS
  Papers    <- MCPapers
  Sheets    <- MCSheets
  NoSheet   = NoSheet
  Size      <- MCSize
  Correct   <- MCCorrect
  Fits      <- MCFits
  NBands    = 2
  Sessions  <- MCSessions
  NoSession = NoSession
  NoLevel   = NoLevel
  Requests  <- LatestRequests
  SessionOf <- LatestSession
  IndexOf   <- LatestIndex
  SheetOf   <- LatestSheet
  MaxFaults = 0
  Times     <- MCTimes
CHECK_DEADLOCK FALSE
INVARIANT
  LatestCompletedOwnsLevel
