CONSTANTS
    Chars   = {letter, emoji}
    Astral  = {emoji}
    MaxRuns = 5
SPECIFICATION ReloadSpec
INVARIANTS
    Reproduces
    CaretFollows
CHECK_DEADLOCK FALSE
