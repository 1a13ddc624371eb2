SPECIFICATION Spec
CONSTANTS
    Requests = {r1, r2}
    Polls = {}
    Admins = {gate}
    Models = {base}
    Variants = {}
    Base = base
    Gpus = {g1}
    DefaultGpu = g1
    NoModel = NoModel
    NoGpu = NoGpu
    Free = Free
    AdminCalls = {"drain", "unload", "load"}
    MaxChild = 2
    InProcessSwap = FALSE
    HealthMayFail = TRUE
    KillMayFail = FALSE
    DrainMayExpire = TRUE
PROPERTIES DrainMissesNothing EveryRequestAnswered DrainReturns
CHECK_DEADLOCK FALSE
