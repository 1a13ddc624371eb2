SPECIFICATION Spec
CONSTANTS
    Jobs = {j1, j2, j3}
    j1 = j1
    j2 = j2
    j3 = j3
    Readers = {r1}
    r1 = r1
    MaxPending = 2
    NoJob = NoJob
SYMMETRY Symmetry
PROPERTIES ImplementsLifecycle
INVARIANTS
    QueueIsExact
    LiveJobIsKept
    QueueIsBounded
    CancelDecides
