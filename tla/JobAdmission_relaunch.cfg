SPECIFICATION Spec
CONSTANTS
    j1 = j1
    j2 = j2
    j3 = j3
    Jobs <- Duo
    Cohort <- OneCohort
    Limit <- OneSlot
    Request <- NoRequests
    Scoped = {}
    Mandatory = {}
    Restartable = {j1}
    CanCrash = {}
    CanHide = {}
    Unwritable = {}
    Thermal = FALSE
    MaxRemedies = 64
    MaxJobs = 2
    Floor = 1
    Readings <- OneReading
INVARIANTS SlotsHonoured
CHECK_DEADLOCK FALSE
