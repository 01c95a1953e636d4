SPECIFICATION FairSpec
CONSTANTS
    o1 = o1
    o2 = o2
    j1 = j1
    j2 = j2
    Owners = {o1, o2}
    Jobs = {j1, j2}
    MaxCount = 2
    MaxFaults = 1
    MaxRestarts = 1
INVARIANTS
    TypeOK
    ColumnWithinPeak
PROPERTIES
    NeverZeroed
    ColumnsConverge
