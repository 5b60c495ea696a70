SPECIFICATION Spec
CONSTANTS
  Songs = {s1, s2}
  Channels = {c1}
  Tasks = {t1, t2}
  Pushers = {p1, p2}
  None = None
  Commands = {"play", "join", "leave", "admin"}
  IdleLimit = 1
  MaxQueue = 2
  MaxConns = 1
  MaxDisconnects = 0
SYMMETRY Symmetry
INVARIANT TypeOK
INVARIANT AloneOnlyTheGateStops
INVARIANT EmptyOnlyByLeave
 
PROPERTY ExitIsFinal
\* A crash, or a pusher that left with its lock, may stop everything.
CHECK_DEADLOCK FALSE
