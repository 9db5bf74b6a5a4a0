\* One moderator changes the thread three times over; any of the handlers may
\* end before its log rows are written.
SPECIFICATION Spec
CONSTANTS
    op = op
    r1 = r1
    r2 = r2
    r3 = r3
    m1 = m1
    m2 = m2
    Replies = {op}
    Opener = op
    Top = Top
    Elsewhere = Elsewhere
    Mods = {m1}
    Titles = {"old", "new"}
    ThreadStates = {"visible", "locked", "hidden"}
    MaxOrdinal = 2
    MaxDepth = 3
    MaxRetries = 1
    Failing = TRUE
    MaxEdits = 3
SYMMETRY MCSymmetry
INVARIANTS
    LogTellsState
CHECK_DEADLOCK FALSE
