\* The space is edited while its thread's page is in the cache.
SPECIFICATION Spec
CONSTANTS
    r1 = r1
    r2 = r2
    Readers = {r1, r2}
    Base = 2
    Width = 2
    MaxOrdinal = 3
    MaxDepth = 2
    PageSize = 2
    CacheEntries = 2
    MaxWrites = 2
    MaxSpaceEdits = 1
SYMMETRY MCSymmetry
INVARIANTS
    SpaceNeverStale
CHECK_DEADLOCK FALSE
