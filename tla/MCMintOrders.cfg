CONSTANTS
    n1 = n1
    alice = alice
    bob = bob
    Nullifiers <- MCNullifiers
    Names = {n1}
    Addrs = {alice}
    Expiries = {}
    NoNf = 0
    PoolSize = 2
    Liveness = 1
    Nu7 = 1
    OldDelta = 1
    NewDelta = 1
    MaxHeight = 5
    MaxTime = 1
    MaxReorgs = 1
    MaxRestarts = 1
SPECIFICATION MintSpec
INVARIANTS
    SeenConfirmed
    OneUnresolved
    ChallengesCurrent
    
PROPERTIES
    OrderKept
