SPECIFICATION Spec
CONSTANTS
  e1 = e1
  p1 = p1
  p2 = p2
  w1 = w1
  w2 = w2
  m1 = m1
  Ed25519Keys = {e1}
  Secp256r1Keys = {p1, p2}
  PermissionSets = {}
  Thresholds = {1}
  MaxSigners = 2
  TableSize = 2
  Wallets = {w1}
  Messages = {m1}
  InitialSettings <- Shared
  MaxSlot = 2
  MaxEvents = 2
PROPERTIES
  ThresholdCountsMembers
CHECK_DEADLOCK FALSE
