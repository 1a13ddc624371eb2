SPECIFICATION Spec
CONSTANTS
    Jobs = {j1, j2}
    Routes = {"motion"}
    Tiers = 2
    Nobody = Nobody
    KeepResident = FALSE
    AdminCalls = {}
CHECK_DEADLOCK FALSE
INVARIANTS
    SolvesOnWeights
