SPECIFICATION LiveSpec
CONSTANTS
    MaxJobs = 3
    Shots = 2
    MaxFaults = 2
INVARIANTS
    BankRecordsClip
    SidecarsMatch
    ActiveBankStays
PROPERTIES
    TakesSurvive
    PreviewsAreOut
    EveryJobEnds
CHECK_DEADLOCK FALSE
