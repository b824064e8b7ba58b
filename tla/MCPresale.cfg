CONSTANTS
    n1 = n1
    n2 = n2
    Names = {n1, n2}
    Unlawful = Unlawful
    Forever = Forever
    Garbled = Garbled
    Awaited = Awaited
    Failed = Failed
    None = None
    Times = {1, 2}
    MaxRows = 2
    MaxTime = 2
    MaxChanges = 1
SPECIFICATION Spec
INVARIANTS
    ProtectionHonoured
