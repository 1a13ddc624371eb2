SPECIFICATION LiveSpec
CONSTANTS
    rig = rig
    retarget = retarget
    c1 = c1
    c2 = c2
    Jobs <- MCJobs
    Heavy <- MCHeavy
    Retargets <- MCRetargets
    Wants <- MCWants
    Cards = {c1, c2}
    DefaultCard = c1
    NoCard = NoCard
    Free = Free
    MaxPending = 1
    MaxRecords = 1
    MaxChild = 2
    AdminCalls = {"drain", "load", "unload", "force"}
    IdleUnload = TRUE
    ChildMayDie = TRUE
    KillMayFail = TRUE
CHECK_DEADLOCK FALSE
INVARIANTS
    OneWorker
    LeasesAreExact
    PlacedAsChosen
PROPERTIES
    ReclaimSparesLeases
    KeepsContract
    EveryJobEnds
