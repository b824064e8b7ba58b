CONSTANTS
    gemini = gemini
    kraken = kraken
    coinbase = coinbase
    okx = okx
    Venues = {gemini, kraken, coinbase, okx}
    Trusted = gemini
    Dishonest = okx
    HonestPrices = {4, 6}
    WrongPrices = {2, 40, 50}
    ONE = 2
    SCALE = 1000
    MAX_USD_PRICE = 25
    COIN = 32
    MAX_MONEY = 60000
    DAY = 3
    MIN_DAY_SUCCESS_PERCENT = 50
    WORD = 64
    None = None
    MaxTime = 7
    MaxRounds = 3
SPECIFICATION Spec
INVARIANTS
    RateInHonestBand
    SecondsBilledOnce
PROPERTIES
    PricedAtFirstSight
