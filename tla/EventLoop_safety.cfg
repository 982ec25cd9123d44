SPECIFICATION SafeSpec
CONSTANTS
  Owner = owner
  Producers = {main}
  Channels = {c1, c2}
  ConnFds <- MCTwoFds
  WakeFd <- MCWakeFd
  PipeCapacity = 1
  NULL = null
INVARIANTS
  AssertHolds
  NoLostWakeup
  InterestFollowsTable
  Inv
PROPERTY StepsAreRegistrySteps
