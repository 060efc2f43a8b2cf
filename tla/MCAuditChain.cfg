CONSTANTS
    Txn = {t1, t2, t3}
    Inspection = {i1, i2}
    Chain = Chain
    Body = {b1, b2}
    Digest <- TupleDigest
    Hash <- TupleHash
    Genesis = Genesis
    Unread = Unread
    MaxEvents = 5
SPECIFICATION Spec
SYMMETRY Symmetric
INVARIANTS
    ChainIsVerified
    SeenTailStaysTheTail
    TamperingIsDetected
PROPERTIES
    TransactionsEnterWhole
