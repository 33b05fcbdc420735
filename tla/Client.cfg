SPECIFICATION Spec
CONSTANTS
    Refused = Refused
    Undefined = Undefined
    A = A
    B = B
    P = P
    Q = Q
    T1 = T1
    T2 = T2
    S = S
    E = E
    K = K
    L = L
    Payer = Payer
    Authority = Authority
    Admin = Admin
    Destination = Destination
    Mint = Mint
    Token2022 = Token2022
    MultiWallet = MultiWallet
    SystemProgram = SystemProgram
    TokenProgram = TokenProgram
    AssociatedTokenProgram = AssociatedTokenProgram
    Secp256r1Program = Secp256r1Program
    SlotHashesSysvar = SlotHashesSysvar
    InstructionsSysvar = InstructionsSysvar
    TipAccount = TipAccount
    ComputeBudgetProgram = ComputeBudgetProgram
    MemoProgram = MemoProgram
    ManagerKey = S
    ManagerUrl = "url"
    Vault <- MCVault
    Addresses <- MCAddresses
    MaxInstructions = 2
    MaxTables = 2
    MaxRequests = 2
CHECK_DEADLOCK FALSE
INVARIANTS
    BufferRunsWhatWasWritten
    PackedRunsWhatWasWritten
    ManagerReadsMessages
    UnderstoodAsMeant
    ParsersAgree
    BundleKeepsItsPromise
    ManagerAgrees
