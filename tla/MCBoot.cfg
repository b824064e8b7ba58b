SPECIFICATION FairSpec
CONSTANTS
    s1 = s1  s2 = s2  s3 = s3  a1 = a1  a2 = a2
    Foreign = Foreign  None = None  Torn = Torn
    Seeds <- MCSeeds
    Anchors <- MCAnchors
    AttestedSeeds <- MCAttested
    Mined <- MCMined
    MaxChanges = 2
    MaxFaults = 2
CHECK_DEADLOCK FALSE
INVARIANTS
    KeysNamed
    DocumentsAgree
PROPERTIES
    BootServes
