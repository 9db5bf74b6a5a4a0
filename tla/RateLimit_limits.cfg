\* Every kind of request from one address, two at a time with every statement
\* interleaved, three in all, one of which may be cut off.
SPECIFICATION Spec
CONSTANTS
    h1 = h1
    h2 = h2
    Members = {"ann"}
    Clients = {"home"}
    Typed <- MCTyped
    Limits <- MCLimits
    Second = 2
    Webs = {h1, h2}
    MaxTime = 4
    MaxRequests = 3
    MaxFailures = 1
SYMMETRY MCSymmetry
INVARIANTS
    TypeOK
    RefusalsAreCounted
    OneAtATimeIsHeld
    WaitIsExact
CHECK_DEADLOCK FALSE
