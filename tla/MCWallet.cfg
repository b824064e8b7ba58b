CONSTANTS
    d1 = d1
    d2 = d2
    d3 = d3
    s1 = s1
    s2 = s2
    Deposits = {d1, d2, d3}
    Paid <- Payments
    Sends = {s1, s2}
    Amounts = {2}
    MARGINAL_FEE = 1
    MAX_CHECKPOINTS = 2
    Delta = 1
    Owners = {"a", "b"}
    Scopes <- WalletScopes
SPECIFICATION Spec
CHECK_DEADLOCK FALSE
INVARIANTS
    ReplayAgrees
    CanWitness
    ReservedUntilExpiry
    BalanceAgrees
