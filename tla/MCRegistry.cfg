CONSTANTS
    n1 = n1
    n2 = n2
    alice = alice
    Names = {n1, n2}
    Addrs = {alice}
    Expiries = {}
    Nullifiers <- MCNullifiers
    NoNf = 0
    PoolSize = 2
    Liveness = 2
    Nu7 = 3
    OldDelta = 2
    NewDelta = 3
    MaxHeight = 4
    MaxTime = 0
SPECIFICATION Spec
CONSTRAINT NullifiersInOrder
SYMMETRY Symmetry
INVARIANTS
    TypeOK
    RewindExact
    AuthorityUnspent
    OwnershipChain
    NoStaleClaim
PROPERTIES
    ImplementsLedger
