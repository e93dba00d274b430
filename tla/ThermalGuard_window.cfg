SPECIFICATION Spec
CONSTANTS
    j1 = j1
    j2 = j2
    Jobs = {j1, j2}
    MaxGen = 2
    Budget = 4
    Unlimited = 9
    Hosts <- MCWindow
PROPERTIES NeverRestoresOver
CHECK_DEADLOCK FALSE
