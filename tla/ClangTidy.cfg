SPECIFICATION Spec
CONSTANTS
  Entries = 4
  MaxTask = 2
  ThirdParty <- MCThirdParty
INVARIANTS
  Inv
  JoinedIsChecked
  SuccessMeansPassed
PROPERTY Finishes
CHECK_DEADLOCK FALSE
