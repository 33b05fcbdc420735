SPECIFICATION Spec
CONSTANTS
  Ed25519Keys = {e1, e2}
  Secp256r1Keys = {p1}
  PermissionSets <- VariedPermissions
  Thresholds = {2}
  MaxSigners = 3
  Domains = {d1}
  Urls = {u1}
  MaxWallets = 2
SYMMETRY MCSymmetry
INVARIANTS
  TypeOK
  WalletsMirrorMembers
  NeverLockedOut
  OneDelegatedWallet
  DelegateNeverStranded
PROPERTIES
  PermanentMemberStays
