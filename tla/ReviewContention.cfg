SPECIFICATION FairSpec
CONSTANTS
  Requests     <- ContentionActivities
  Activities   <- ContentionActivities
  Reviews      <- ContentionReviews
  Items        <- ContentionItems
  Described    <- ContentionItems
  ActivityOf   <- ContentionActivityOf
  ItemsOf      <- ContentionItemsOf
  AttemptOf    <- ContentionAttemptOf
  NoAttempt    = NoAttempt
  SaveAttempts = 4
  MaxFaults    = 0
CHECK_DEADLOCK FALSE
INVARIANT
  ConflictHasCause
PROPERTIES
  NoScheduleRegression
  EveryRequestEnds
