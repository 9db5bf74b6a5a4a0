\* Two moderators submit forms about the thread at the same time.
SPECIFICATION Spec
CONSTANTS
    op = op
    r1 = r1
    r2 = r2
    r3 = r3
    m1 = m1
    m2 = m2
    Replies = {op}
    Opener = op
    Top = Top
    Elsewhere = Elsewhere
    Mods = {m1, m2}
    Titles = {"old", "new"}
    ThreadStates = {"visible", "locked", "hidden"}
    MaxOrdinal = 2
    MaxDepth = 3
    MaxRetries = 1
    Failing = FALSE
    MaxEdits = 2
    MaxRequests = 5
SYMMETRY MCSymmetry
INVARIANTS
    LogTellsState
CHECK_DEADLOCK FALSE
