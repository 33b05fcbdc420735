SPECIFICATION Spec
CONSTANTS
    t1 = t1
    t2 = t2
    t3 = t3
    Transactions <- MCTransactions
    CoSigned <- MCCoSigned
    MaxAttempts = 3
    MaxPolls = 2
CHECK_DEADLOCK FALSE
INVARIANTS
    AskedOnce
    ReturnedIsConfirmed
PROPERTIES
    SentWhole
    CallEnds
