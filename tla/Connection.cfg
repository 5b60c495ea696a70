SPECIFICATION FairSpec
CONSTANTS
    Racy = {"shutdown"}
    Senders = {}
    Pingers = {c1}
    Closers = {c2}
    Roles = {"client", "server"}
    MaxFrames = 2
INVARIANTS
    TypeOK
    HandlersMatch
    NoLostWakeup
PROPERTIES
    StateOnlyAdvances
    HandshakeEnds
    ClosingEnds
CHECK_DEADLOCK FALSE
