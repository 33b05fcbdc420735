SPECIFICATION Spec
CONSTANTS
  e1 = e1
  e2 = e2
  p1 = p1
  c1 = c1
  c2 = c2
  Ed25519Keys = {e1, e2}
  Secp256r1Keys = {p1}
  PermissionSets = {}
  Thresholds = {}
  MaxSigners = 2
  BufferIds <- ByPasskey
  Chunks = {c1, c2}
  Plans <- ManyPlans
  ExpectedChoices <- Declarations
  Configs <- ThreeConfigs
  ChunkBytes = 20
  TimeLimit = 1
  AssertionLife = 2
  MaxTime = 3
  NoBuffer = NoBuffer
  NoKey = NoKey
INVARIANTS
  ApprovalIsBacked
  VotesAreEndorsements
  ExpectedSignersEndorsed
PROPERTIES
  ImplementsProposals
  RunsOnceInTime
  ContentFrozen
