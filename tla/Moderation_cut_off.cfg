\* One post, held when it is written and judged; one handler stops half way.
SPECIFICATION Spec
CONSTANTS
    ann = ann
    bob = bob
    mod = mod
    w1 = w1
    w2 = w2
    Posts = {1}
    Users = {ann, bob, mod}
    Moderators = {mod}
    Author <- MCAuthor
    Webs = {w1}
    Consumers = {"consumer"}
    Sweepers = {}
    ReportThreshold = 1
    SweepLimit = 1
    Yielding = TRUE
    PolicyReads = {TRUE}
    Answers = {"publish", "hide"}
    Ops = {"write"}
    MaxRequests = 3
    MaxFailures = 1
INVARIANTS
    EveryChangeLogged
CHECK_DEADLOCK FALSE
