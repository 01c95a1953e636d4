SPECIFICATION FairSpec
CONSTANTS
    c1 = c1
    c2 = c2
    p1 = p1
    p2 = p2
    t1 = t1
    t2 = t2
    None = None
    Creates = {c1, c2}
    Patches = {p1, p2}
    Tokens = {t1, t2}
    MaxAttempts = 2
    MaxCount = 1
    MaxFaults = 1
INVARIANTS
    TypeOK
    TokenFindsItsApp
    OneAppPerPost
    PatchReadsItsWrite
    CountsSurvivePatches
PROPERTIES
    CreateEnds
CHECK_DEADLOCK FALSE
