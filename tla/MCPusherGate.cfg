SPECIFICATION FairSpec
CONSTANTS
  Songs = {s1}
  Channels = {c1}
  Tasks = {t1}
  Pushers = {p1}
  None = None
  Commands = {"play", "admin"}
  IdleLimit = 2
  MaxQueue = 1
  MaxConns = 1
  MaxDisconnects = 1
PROPERTY LockedUntilNextStart
\* A crash, or a pusher that left with its lock, may stop everything.
CHECK_DEADLOCK FALSE
