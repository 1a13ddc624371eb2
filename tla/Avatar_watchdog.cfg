SPECIFICATION Spec
CONSTANTS
    rig = rig
    retarget = retarget
    c1 = c1
    c2 = c2
    Jobs <- MCJobs
    Heavy <- MCHeavy
    Retargets <- MCRetargets
    Wants <- MCWants
    Cards = {c1, c2}
    DefaultCard = c1
    NoCard = NoCard
    Free = Free
    MaxPending = 2
    MaxRecords = 1
    MaxChild = 2
    AdminCalls = {}
    IdleUnload = TRUE
    ChildMayDie = FALSE
    KillMayFail = FALSE
CHECK_DEADLOCK FALSE
PROPERTIES
    LeasedWorkerLives
