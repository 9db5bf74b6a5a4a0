\* Two posts, one sweep at a time that takes one post, no queue consumer (a
\* message is never delivered), one request at a time, one handler that fails.
SPECIFICATION FairSpec
CONSTANTS
    ann = ann
    bob = bob
    mod = mod
    w1 = w1
    w2 = w2
    Posts = {1, 2}
    Users = {ann, mod}
    Moderators = {mod}
    Author <- MCAuthor
    Webs = {w1}
    Consumers = {}
    Sweepers = {"sweep"}
    ReportThreshold = 1
    SweepLimit = 1
    Yielding = TRUE
    PolicyReads = {TRUE}
    Answers = {"publish", "hide", "hold", "fail"}
    Ops = {"write", "edit", "review"}
    MaxRequests = 3
    MaxFailures = 1
INVARIANTS
    EveryChangeLogged
PROPERTIES
    NothingStranded
CHECK_DEADLOCK FALSE
