SPECIFICATION Spec
CONSTANTS
    j1 = j1
    j2 = j2
    Jobs <- TwoJobs
    Nobody = Nobody
    Answers <- MCAnswers
    Interrupts = 1
INVARIANTS Honest AtMostOneLate RestartLast OwnRolledBack
PROPERTIES GraceIsFinal
CHECK_DEADLOCK FALSE
