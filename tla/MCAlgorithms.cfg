CONSTANTS
    Never = Never
    Forever = Forever
    Nothing = Nothing
    Unclaimed = Unclaimed
    WINDOW = 3
    MAX_TIME_SINCE_MEDIAN = 2
    YEAR = 2
    MAX_TERM_YEARS = 2
    Years = {1, 2}
    FirstTimes = {0, 1}
    Prices = {1, 4}
    Ends = {4, 5}
    MaxHeight = 6
    BASE = 2
    CODE_LEN = 2
    DECIMALS = 2
    MAX_MONEY = 9
    MaxTermYears = 3
    MaxDigits = 3
    MaxEdits = 1
SPECIFICATION Spec
CHECK_DEADLOCK FALSE
INVARIANTS
    MedianAdvances
    UpdateKeepsTerm
    PriceFollowsLine
    OneReading
    ReadsBack
