SPECIFICATION RunSpec
CONSTANTS
    NoReading = NoReading
    Hosts <- MCHosts
    Unusable = NoReading
    ReserveMib = 2
    RecoveryMib = 3
    RecoverySeconds = 2
    Timeout = 3
    MaxStep = 2
    MaxDefer = 2
    SampleAge = 1
    GuardAge = 2
    Slack = 1
    Guards = 2
    Outdated = {1}
    SetBack = 2
    Nap = 3
INVARIANTS SustainedRecovery FinalStatus
PROPERTIES Decides AdmittedGuarded HonoursContract NoOverlap Ends
CHECK_DEADLOCK FALSE
