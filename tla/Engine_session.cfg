SPECIFICATION LiveSpec
CONSTANTS
    Jobs = {j1, j2}
    Routes = {"motion", "rig", "render", "animate"}
    Tiers = 2
    Nobody = Nobody
    KeepResident = TRUE
    AdminCalls = {"drain", "load", "unload", "force"}
CHECK_DEADLOCK FALSE
INVARIANTS
    OneOnTheCard
    MotionWeightsInPlace
PROPERTIES
    KeepsContract
    EveryJobEnds
