SPECIFICATION DeliverySpec
CONSTANTS
  Requests     <- DeliveryRequests
  Activities   <- DeliveryActivities
  Reviews      <- DeliveryReviews
  Items        <- DeliveryItems
  Described    <- DeliveryDescribed
  ActivityOf   <- DeliveryActivityOf
  ItemsOf      <- DeliveryItemsOf
  AttemptOf    <- DeliveryAttemptOf
  NoAttempt    = NoAttempt
  SaveAttempts = 2
  MaxFaults    = 2
CHECK_DEADLOCK FALSE
INVARIANTS
  TypeOK
  AnswersTellWhatWasWritten
  VersionsCountSchedules
  RecordedIsScheduled
  ScheduledOnce
PROPERTY
  ImplementsLedger
