SPECIFICATION Spec
CONSTANTS
  Docs      <- MCDocs
  NoDoc     = NoDoc
  Ids       <- MCIds
  Words     <- MCWords
  Keys      <- MCKeys
  NoKey     = NoKey
  NoMarker  = NoMarker
  IdOf      <- MCIdOf
  WordsOf   <- MCWordsOf
  Imports   <- MCImports
  DocOf     <- MCDocOf
  KeyOf     <- MCKeyOf
  Deletes   <- MCDeletes
  LessonOf  <- MCLessonOf
  MaxFaults = 1
CHECK_DEADLOCK FALSE
INVARIANTS
  TypeOK
  AcknowledgedImportIsInGlossary
  OrphansComeFromRaces
  KeyNamesOneLesson
