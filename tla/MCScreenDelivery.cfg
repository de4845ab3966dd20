SPECIFICATION SessionSpec
CONSTANTS
    Infinity = 100
    Blank = 0
    Height = 2
    Capacities = {1, 2, 4}
    MaxReplayLines = 2
    MaxChunk = 1
    MaxOutput = 7
    MaxSockets = 3
    MaxWire = 6
    Behaviors = {"evicts", "returns", "deep", "alt", "erases", "watched", "heals", "drained"}
CHECK_DEADLOCK FALSE
INVARIANTS ScreenInv HistoryHeld
