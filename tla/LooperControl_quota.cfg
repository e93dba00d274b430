SPECIFICATION ControlSpec
CONSTANTS
    Loopers <- MCQuota
    Sizes <- MCSizes
INVARIANTS TransientLimit
CHECK_DEADLOCK FALSE
