SPECIFICATION Spec
CONSTANTS
  None = None
  VocabSlice = 2
  MatchedPool = 2
  FreePool = 3
  GrammarSlice = 1
  TopicLimit = 2
  Singular <- MCSingular
  Han <- MCHan
  Content <- MCContent
  Structure <- MCStructure
  Questions <- MCQuestions
  Verbs <- MCVerbs
  Alike <- MCAlike
  Languages = {"ja", "pl"}
  Order <- MCOrder
  Kind <- MCKind
  Level <- MCLevel
  Tags <- MCTags
  Keywords <- MCKeywords
  Entry <- MCEntry
  Releases = {1, 2}
  Version <- MCVersion
  Words <- MCWords
  Near <- MCNear
  Scenarios <- MCScenarios
  PageSize = 2
  PutBuffer = 2
  MaxLag = 2
  MaxTries = 2
  MaxPages = 3
INVARIANTS
  TypeOK
  ReadsMissNothing
  FinishedLoadIsTheRelease
  OfferedIdsCanBeReferenced
  NewWordsComeFirst
  StageIsAnswerable
CHECK_DEADLOCK FALSE
