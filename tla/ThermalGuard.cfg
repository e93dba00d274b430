SPECIFICATION FairSpec
CONSTANTS
    j1 = j1
    j2 = j2
    Jobs = {j1, j2}
    MaxGen = 2
    Budget = 4
    Unlimited = 9
    Hosts <- MCHosts
INVARIANTS LimitsJournalled
PROPERTIES NeverOverKnownLimit HealthyMeansCapped LimitsReleased
CHECK_DEADLOCK FALSE
