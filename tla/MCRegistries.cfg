SPECIFICATION RegistriesSpec
CONSTANTS
    Sockets = {s1, s2}
    Keys = {k1, k2}
    Ledgers = {l1, l2, l3, l4}
    NoSocket = NoSocket
    NoLedger = NoLedger
    Cap = 1
    MaxReceived = 1
    Ids = {a, b}
    None = None
    MaxEntries = 1
    MaxSetSessions = 2
    MaxViewers = 1
INVARIANTS OwnershipInv AckIsExact CapHolds
PROPERTIES AttachedStays SupersededLeaves ClosedEnds
CHECK_DEADLOCK FALSE
