SPECIFICATION SessionSpec
CONSTANTS
    Infinity = 100
    Blank = 0
    Height = 2
    Capacities = {1}
    MaxReplayLines = 2
    MaxChunk = 1
    MaxOutput = 7
    MaxSockets = 3
    MaxWire = 6
    Behaviors = {"heals"}
INVARIANT HealSparesHeld
CHECK_DEADLOCK FALSE
