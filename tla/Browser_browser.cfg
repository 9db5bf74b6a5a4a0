\* Two tabs of one browser, three requests in all, each of which may be slow or
\* lost; time runs out for handshakes, tokens and cookies in turn.
SPECIFICATION Spec
CONSTANTS
    ann = ann
    bob = bob
    t1 = t1
    t2 = t2
    Users = {ann, bob}
    Founder = ann
    NoOne = "no one"
    Identities = {1, 2}
    Linked = 1
    Tabs = {t1, t2}
    TokenLife = 1
    AnonLife = 2
    HandshakeLife = 1
    PendingLife = 1
    SessionLife = 2
    MaxRequests = 3
SYMMETRY MCSymmetry
INVARIANTS
    TypeOK
    ActsForItsReader
    AnonCookieOutlivesItsForms
    GoneIsForgotten
CHECK_DEADLOCK FALSE
