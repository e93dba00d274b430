SPECIFICATION Spec
CONSTANTS
    j1 = j1
    j2 = j2
    j3 = j3
    Jobs <- Trio
    Cohort <- OneCohort
    Limit <- MixedLimits
    Request <- Requests
    Scoped = {j1}
    Mandatory = {}
    Restartable = {}
    CanCrash = {j2}
    CanHide = {j2}
    Unwritable = {}
    Thermal = FALSE
    MaxRemedies = 2
    MaxJobs = 3
    Floor = 1
    Readings <- Memories
INVARIANTS SlotLimit FirstLaunchLimit MemoryPromise
CHECK_DEADLOCK FALSE
