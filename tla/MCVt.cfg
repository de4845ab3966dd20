SPECIFICATION VtSpec
CONSTANTS
    MaxParams = 3
    MaxSub = 2
    MaxArg = 5
    MaxInterm = 1
    MaxOSCLen = 2
    MaxDCSLen = 2
    MaxOscId = 5
    BodyBound = 5
    Ids <- MCIds
    Apps <- MCApps
    MaxRecords = 2
    Titles = {t1, t2}
    Texts = {hello, world}
    LastSlot = 19
    MaxTitleStack = 2
    StatusBound = 4
    PushBound = 3
    Narrow = {letter, follower, sp}
    Wide = {wide}
    Space = sp
    Spacer = half
    Align = e
    letter = letter
    wide = wide
    follower = follower
    CutRegions = FALSE
    Heights = {1, 2, 3}
    Widths = {1, 2}
    Counts = {1, 2}
    TabSize = 2
    MaxKbdStack = 1
INVARIANTS
    RecordsAreTheLast
    TakesAreCurrent
    StyleReproduced
    ContinuationKeepsFlag
PROPERTIES
    BytesAreRead
    Confined
    PrintsOnPaper
    AltRoundTrip
CHECK_DEADLOCK FALSE
