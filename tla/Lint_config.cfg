SPECIFICATION Spec
CONSTANTS
  IsJob <- ConfigJob
  Headers <- MCHeaders
  Offences <- MCOffences
  NamespaceLines = 2
  ClassLines = 2
  NormalTrigger = 1
  TestTrigger = 2
INVARIANT
  SettingsAreNearest
