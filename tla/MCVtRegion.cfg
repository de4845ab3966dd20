SPECIFICATION MCSpec
CONSTANTS
    Narrow = {letter, follower, sp}
    Wide = {wide}
    Space = sp
    Spacer = half
    Align = e
    letter = letter
    wide = wide
    follower = follower
    Heights = {1, 2, 3}
    Widths = {1, 2}
    Counts = {1, 2}
    TabSize = 2
    MaxKbdStack = 1
    CutRegions = TRUE
INVARIANT CursorOnScreen
CHECK_DEADLOCK FALSE
