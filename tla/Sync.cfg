SPECIFICATION Spec
CONSTANTS
  e1 = e1
  p1 = p1
  p2 = p2
  w1 = w1
  w2 = w2
  m1 = m1
  Ed25519Keys = {}
  Secp256r1Keys = {p1}
  PermissionSets = {}
  Thresholds = {1}
  MaxSigners = 2
  TableSize = 3
  Wallets = {w1, w2}
  Messages = {m1}
  InitialSettings <- TwoWallets
  MaxSlot = 4
  MaxEvents = 3
INVARIANTS
  TypeOK
  AssertionsUsedOnce
  SearchFindsSlots
  IntentsFollowDelegations
  NextBlockUnlocks
CHECK_DEADLOCK FALSE
