SPECIFICATION Spec
CONSTANTS
    Racy = {}
    Senders = {}
    Pingers = {}
    Closers = {c2}
    Roles = {"client", "server"}
    MaxFrames = 1
INVARIANTS CloseHandlerOnce
CHECK_DEADLOCK FALSE
