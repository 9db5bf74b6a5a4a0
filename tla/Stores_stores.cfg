SPECIFICATION Spec
CONSTANTS
    MaxOrdinal = 20
    MaxDepth = 4
    Writes <- MCWrites
    Reads <- MCReads
    MaxCalls = 3
    SuiteAfter = 1
INVARIANTS
    TypeOK
    AdaptersAgree
    SuitePasses
    PostCountIsRight
PROPERTY
    PageTurnsOver
