SPECIFICATION MCSpec
CONSTANTS
    Head = head
    first = k1
    Kids = {k1, k2}
    KillRounds = 2
    MaxOutput = 1
INVARIANTS NothingOutlives ExitIsWhole
PROPERTY EverythingEnds
CHECK_DEADLOCK FALSE
