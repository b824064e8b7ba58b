CONSTANTS
    n1 = n1
    alice = alice
    bob = bob
    Nullifiers <- MCNullifiers
    Names = {n1}
    Addrs = {alice}
    Expiries = {}
    NoNf = 0
    PoolSize = 2
    Liveness = 1
    Nu7 = 1
    OldDelta = 1
    NewDelta = 1
    MaxHeight = 4
    MaxTime = 1
    MaxReorgs = 0
    MaxRestarts = 0
SPECIFICATION MintSpec
INVARIANTS
    NotSignedAgain
