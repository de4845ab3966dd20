SPECIFICATION MCSpec
CONSTANTS
    Clients = {c1, c2}
    first = c1
    Parts = {top, modes}
    Content = {x, y}
    Unknown = Unknown
    Window = 1
    Quiet = 1
    Cap = 2
    MaxRearms = 2
    Sync = 2
    MaxResizes = 1
    MaxSyncs = 1
    Sizes <- MCSizes
    NoSize = NoSize
    Reader = reader
    keepUnfocused = FALSE
    Days = {"holds", "crowd", "sizes", "focus"}
INVARIANTS AsleepIsShown FocusIsCurrent
PROPERTIES LaggingAreWritten UnsettledIsWhole HealFitsViewers
