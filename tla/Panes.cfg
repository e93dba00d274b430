SPECIFICATION PanesSpec
CONSTANTS
    c1 = c1
    c2 = c2
    p1 = p1
    p2 = p2
    Convs = {c1, c2}
    Panes = {p1, p2}
    Unknown = Unknown
    Keeps = {0, 1}
    MaxSaves = 3
    Hybrids <- MCHybrids
    Attempts <- MCAttempts
INVARIANTS CoverageHolds DoneMeansFinished SafetyFirst
PROPERTIES PredecessorRetained OnlyManualDrops CompletionNoticed
SYMMETRY Symmetries
CHECK_DEADLOCK FALSE
