SPECIFICATION HostSpec
CONSTANTS
    Ids = {a, b, c}
    None = None
    MaxEntries = 2
    MaxSetSessions = 2
    MaxViewers = 2
SYMMETRY Symmetry
CHECK_DEADLOCK FALSE
INVARIANTS ArrangementInv ClientsPrevail RestoreRebuilds NothingStranded ReaperSpares
