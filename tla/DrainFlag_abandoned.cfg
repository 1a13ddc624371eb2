SPECIFICATION Spec
CONSTANTS
    Admins = {a1, a2}
    Readers = {r1, r2}
    Calls = {"drain", "clear"}
    MaxCalls = 2
    MaxDrains = 2
    DrainMax = 2
    Horizon = 6
INVARIANTS RaisedDrainIsStamped
PROPERTIES HealsOnlyOldDrains AbandonedDrainHeals
CHECK_DEADLOCK FALSE
