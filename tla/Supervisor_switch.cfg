SPECIFICATION Spec
CONSTANTS
    Requests = {r1, r2, r3}
    Polls = {p1}
    Admins = {}
    Models = {base, edit, other}
    Variants = {base, edit}
    Base = base
    Gpus = {g1, g2}
    DefaultGpu = g1
    NoModel = NoModel
    NoGpu = NoGpu
    Free = Free
    AdminCalls = {}
    MaxChild = 3
    InProcessSwap = TRUE
    HealthMayFail = TRUE
    KillMayFail = TRUE
    DrainMayExpire = FALSE
SYMMETRY RequestSymmetry
INVARIANTS OneResident SwitchSparesWork RightVariant
PROPERTIES KeepsSlot
CHECK_DEADLOCK FALSE
