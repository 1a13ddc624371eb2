SPECIFICATION LiveSpec
CONSTANTS
    Jobs = {j1, j2}
    j1 = j1
    j2 = j2
    Readers = {r1}
    r1 = r1
    MaxPending = 2
    NoJob = NoJob
PROPERTIES
    EveryJobEnds
    StopJoins
