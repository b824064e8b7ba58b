CONSTANTS
    pair = pair
    intent = intent
    updates = updates
    guesses = guesses
    answer = answer
    Payments = {pair, intent, updates, guesses, answer}
    MemosOf <- AllPayments
    Codes = {1, 2}
    Prices = {200}
    Fees = {1}
    FEE_ACTIONS = 100
    D_OTP = 1
    MAX_ATTEMPTS = 2
    DAY = 1
    Delta = 2
    Scopes <- TreasuryScopes
SPECIFICATION FairSpec
INVARIANTS
    QueuesBacked
    RefundedOnce
    SweptOnce
PROPERTIES
    RefundKept
    PaymentsSettled
