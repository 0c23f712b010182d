SPECIFICATION Spec
CONSTANTS
  Docs      <- MCDocs
  NoDoc     = NoDoc
  Ids       <- MCIds
  Words     <- MCWords
  Keys      <- MCKeys
  NoKey     = NoKey
  NoMarker  = NoMarker
  IdOf      <- MCIdOf
  WordsOf   <- MCWordsOf
  Imports   <- ReuseImports
  DocOf     <- ReuseDocOf
  KeyOf     <- ReuseKeyOf
  Deletes   <- ReuseDeletes
  LessonOf  <- ReuseLessonOf
  MaxFaults = 0
CHECK_DEADLOCK FALSE
INVARIANT
  KeyReuseIsRefused
