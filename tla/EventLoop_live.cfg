SPECIFICATION Spec
CONSTANTS
  Owner = owner
  Producers = {main}
  Channels = {c1, c2}
  ConnFds <- MCOneFd
  WakeFd <- MCWakeFd
  PipeCapacity = 1
  NULL = null
PROPERTY RequestsAreApplied
