SPECIFICATION Spec
CONSTANTS
  NThread = 4
  MaxPicks = 5
  Main = main
  NULL = null
INVARIANTS
  StartedLoopsAreReady
  PicksAreBalanced
  Inv
PROPERTY PoolStarts
