SPECIFICATION InputSpec
CONSTANTS
    Sockets = {s1, s2}
    NoSocket = NoSocket
    MaxTyped = 3
    MaxOutbox = 2
    MaxCuts = 3
    MaxForgets = 0
    MaxBoots = 1
    TypingInHandshake = TRUE
    ForgetUnacked = FALSE
CHECK_DEADLOCK FALSE
INVARIANT AppliedInOrder
