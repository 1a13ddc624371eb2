SPECIFICATION GLiveSpec
CONSTANTS
    Jobs = {j1, j2}
    j1 = j1
    j2 = j2
    Readers = {}
    MaxPending = 2
    NoJob = NoJob
    MaxSegments = 2
    MaxSyncs = 1
    MaxAdmins = 1
PROPERTIES
    FreeSparesRender
    OnlyCancelledJobsStop
    ImplementsJobManager
    UnloadReturns
