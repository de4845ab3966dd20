SPECIFICATION LinkSpec
CONSTANTS
    Sockets = {s1, s2}
    NoSocket = NoSocket
    MaxTyped = 3
    MaxOutbox = 2
    MaxCuts = 2
    MaxForgets = 1
    MaxBoots = 2
    TypingInHandshake = FALSE
    ForgetUnacked = FALSE
    Lines = {plain, wrapped}
    Capacities = {0, 1, 2, 3, 8}
    MaxReplayLines = 2
    MaxCommitted = 10
    Infinity = 99
    Blank = blank
    Height = 2
    ResidentTailCap = 3
    BrowseCacheCap = 5
    PrefetchThreshold = 1
    PageSize = 2
    MinPage = 1
    Burst = 1
    FlushInBatch = FALSE
    LinesBefore = 8
    MaxEvents = 2
    MaxScrolls = 1
INVARIANTS DeliveryInv RingHolds RepliesAreHonest PageIsSound
PROPERTIES KeepsPromise OutboxDrains KeepsNewest GapsClose
\* With every event of the bounds spent, a page that has all it wants is idle.
CHECK_DEADLOCK FALSE
