\* One thread, as natively: a moderator decides while the model is being asked.
SPECIFICATION Spec
CONSTANTS
    ann = ann
    bob = bob
    mod = mod
    w1 = w1
    w2 = w2
    Posts = {1}
    Users = {ann, bob, mod}
    Moderators = {mod}
    Author <- MCAuthor
    Webs = {w1, w2}
    Consumers = {"consumer"}
    Sweepers = {}
    ReportThreshold = 1
    SweepLimit = 1
    Yielding = FALSE
    PolicyReads = {TRUE}
    Answers = {"publish", "hide"}
    Ops = {"write", "report", "review"}
    MaxRequests = 3
    MaxFailures = 0
SYMMETRY MCSymmetry
INVARIANTS
    HumanDecisionFinal
CHECK_DEADLOCK FALSE
