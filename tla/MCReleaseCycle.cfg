SPECIFICATION FairSpec
CONSTANTS
    None = None
    Delta = 2
    MaxFaults = 2
PROPERTY DueReleased
