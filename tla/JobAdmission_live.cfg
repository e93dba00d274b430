SPECIFICATION FairSpec
CONSTANTS
    j1 = j1
    j2 = j2
    j3 = j3
    Jobs <- Duo
    Cohort <- OneCohort
    Limit <- NoLimits
    Request <- NoRequests
    Scoped = {j1, j2}
    Mandatory = {j2}
    Restartable = {j1}
    CanCrash = {j1, j2}
    CanHide = {j2}
    Unwritable = {j1}
    Thermal = TRUE
    MaxRemedies = 1
    MaxJobs = 2
    Floor = 1
    Readings <- OneReading
INVARIANTS GuardCapacity
PROPERTIES LiveRecordsRemain EventuallyAdmitted
CHECK_DEADLOCK FALSE
