CONSTANTS
    n1 = n1
    n2 = n2
    alice = alice
    bob = bob
    Names = {n1, n2}
    Addrs = {alice, bob}
    TAddrs = {alice, bob}
    T1 <- OwnT1
    Asks <- BothAsks
    Codes = {1, 2}
    D_OTP = 1
    D_DUTCH = 1
    MAX_ATTEMPTS = 2
    Liveness = 1
    Scopes <- MarketScopes
SPECIFICATION Spec
SYMMETRY Symmetry
INVARIANTS
    BookCurrent
    LogRebuildsBook
    OnePaymentOneBuy
PROPERTIES
    OnlySaleMoves
    QuoteHonoured
