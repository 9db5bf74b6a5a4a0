\* One post, every kind of request, two requests at once beside a queue
\* consumer, every store call interleaved, no failure.
SPECIFICATION Spec
CONSTANTS
    ann = ann
    bob = bob
    mod = mod
    w1 = w1
    w2 = w2
    Posts = {1}
    Users = {ann, bob, mod}
    Moderators = {mod}
    Author <- MCAuthor
    Webs = {w1, w2}
    Consumers = {"consumer"}
    Sweepers = {}
    ReportThreshold = 2
    SweepLimit = 1
    Yielding = TRUE
    PolicyReads = {TRUE, FALSE}
    Answers = {"publish", "hide", "hold", "fail"}
    Ops = {"write", "edit", "delete", "report", "review", "appeal", "moderate", "account"}
    MaxRequests = 3
    MaxFailures = 0
SYMMETRY MCSymmetry
INVARIANTS
    TypeOK
    ModelLoggedFirst
    EveryChangeLogged
    OneDecisionPerOpening
    ModelHideIsQueued
    ThresholdNeverMissed
    CaughtTextIsRead
CHECK_DEADLOCK FALSE
