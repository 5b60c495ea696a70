SPECIFICATION FairSpec
CONSTANT MaxConns = 2
CONSTANT MaxTasks = 2
INVARIANT TypeOK
INVARIANT NeverOlderCredentials
INVARIANT WaitsOnATask
INVARIANT SocketLostToAClose
PROPERTY CloseFinishes
PROPERTY ClosedHeartEnds
\* Discord may say nothing more.
CHECK_DEADLOCK FALSE
