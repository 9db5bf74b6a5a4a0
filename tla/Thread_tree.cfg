\* An opening post and three replies racing for places, one retry each, room
\* for three siblings and three levels, so that both limits are met; and a
\* moderator who locks and hides the thread meanwhile, up to three times.  Any
\* handler may end half way.  Five requests: four posts and one form, or fewer
\* posts and more forms.
SPECIFICATION Spec
CONSTANTS
    op = op
    r1 = r1
    r2 = r2
    r3 = r3
    m1 = m1
    m2 = m2
    Replies = {op, r1, r2, r3}
    Opener = op
    Top = Top
    Elsewhere = Elsewhere
    Mods = {m1}
    Titles = {"old"}
    ThreadStates = {"visible", "locked", "hidden"}
    MaxOrdinal = 2
    MaxDepth = 3
    MaxRetries = 1
    Failing = TRUE
    MaxEdits = 3
    MaxRequests = 5
SYMMETRY MCSymmetry
INVARIANTS
    TypeOK
    RepliesUnderParents
    ContendedMeansRaced
    LogTellsState
PROPERTIES
    TreeOnlyGrows
CHECK_DEADLOCK FALSE
