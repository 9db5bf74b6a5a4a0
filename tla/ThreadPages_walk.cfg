\* Two readers, pages of two posts, a cache of one page, a thread of up to four
\* posts in any shape two levels deep, written to at any moment, its space too.
SPECIFICATION Spec
CONSTANTS
    r1 = r1
    r2 = r2
    Readers = {r1, r2}
    Base = 2
    Width = 2
    MaxOrdinal = 3
    MaxDepth = 2
    PageSize = 2
    CacheEntries = 1
    MaxWrites = 4
    MaxSpaceEdits = 1
SYMMETRY MCSymmetry
INVARIANTS
    TypeOK
    NeverStale
    PagesTile
    PermalinkLands
PROPERTIES
    TextSortsAsTree
CHECK_DEADLOCK FALSE
