SPECIFICATION MCSpec
CONSTANTS
    Launchers = {first, second}
    Pids = {p1, p2, p3}
    MaxTokens = 3
    MaxReuses = 1
    MaxInterrupts = 1
    Lsof = TRUE
    Free = Free
    Other = Other
    Nil = Nil
INVARIANT OrderlyTokensShared
CHECK_DEADLOCK FALSE
