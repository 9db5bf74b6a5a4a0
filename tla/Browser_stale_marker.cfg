\* A script asks who is signed in while the reader signs in, in another tab or
\* before an answer that says nobody; the answer clears the new session.
SPECIFICATION Spec
CONSTANTS
    ann = ann
    bob = bob
    t1 = t1
    t2 = t2
    Users = {ann, bob}
    Founder = ann
    NoOne = "no one"
    Identities = {1, 2}
    Linked = 1
    Tabs = {t1, t2}
    TokenLife = 1
    AnonLife = 2
    HandshakeLife = 1
    PendingLife = 1
    SessionLife = 2
    MaxRequests = 3
PROPERTIES
    OnlyStaleIsCleared
CHECK_DEADLOCK FALSE
