SPECIFICATION Spec
CONSTANTS
  IsJob <- MCIsJob
  Headers <- MCHeaders
  Offences <- MCOffences
  NamespaceLines = 2
  ClassLines = 2
  NormalTrigger = 1
  TestTrigger = 2
INVARIANTS
  Inv
  FiltersAreOfTheFile
  OffencesAreReported
  StatusTellsReport
  TextIsReadOrReported
  BracketsMatch
  OpenBlocksAreBraces
  ElseLeavesNoTrace
  DuplicatesAreReal
  SystemHeadersComeFirst
  LongFunctionsAreFound
