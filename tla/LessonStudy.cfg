SPECIFICATION Spec
CONSTANTS
  a1 = a1
  a2 = a2
  d1 = d1
  d2 = d2
  d3 = d3
  Attempts = {a1, a2}
  Deliveries = {d1, d2, d3}
  NoPayload = NoPayload
  NoDoc = NoDoc
  Trimmed <- MCTrimmed
  Normal <- MCNormal
  Runes <- MCRunes
  Markers <- MCMarkers
  Banned <- MCBanned
  Native <- MCNative
  Misspelt <- MCMisspelt
  Uuids <- MCUuids
  ExerciseIds <- MCExerciseIds
  ReferenceIds <- MCReferenceIds
  Upper <- MCUpper
  Drafts <- MCDrafts
  Studied <- MCStudied
  Available <- MCAvailable
  AttemptOf <- MCAttemptOf
  CompletedAt <- MCCompletedAt
  Earlier <- MCEarlier
  Rank <- MCRank
  PageSize = 2
  MaxFaults = 1
INVARIANTS
  TypeOK
  ResultsAreJudgedByTheLesson
  ShownLessonIsAnswerable
  ShownLessonImportsAgain
  AcknowledgedAttemptIsRecorded
  ProgressHasResult
  ListingIsExact
CHECK_DEADLOCK FALSE
