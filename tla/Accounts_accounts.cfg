\* A member and a newcomer, every kind of request, two at a time with every
\* statement interleaved, four in all, one of which may fail.
SPECIFICATION Spec
CONSTANTS
    ann = ann
    bob = bob
    home = home
    work = work
    h1 = h1
    h2 = h2
    Names = {ann, bob}
    Founders = {ann}
    Addresses = {home, work}
    FirstAddress <- MCFirstAddress
    NoAddress = "no address"
    Identities = {"subject"}
    NoName = "nobody"
    Webs = {h1, h2}
    MaxRequests = 4
    MaxFailures = 1
SYMMETRY MCSymmetry
INVARIANTS
    TypeOK
    OneAccountPerAddress
    VerifiedIsProven
    ResetsGoToProven
    ResetOnce
    NoLinkOutlivesItsPassword
    SignedInCanReturn
CHECK_DEADLOCK FALSE
