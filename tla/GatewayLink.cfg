SPECIFICATION FairSpec
CONSTANTS
  MaxConns = 2
  MaxRestarts = 2
  MaxAgain = 1
INVARIANT TypeOK
INVARIANT SourceAndTokenAgree
INVARIANT CanceledByRestart
INVARIANT OneConnection
PROPERTY RestartIsNotStuck
\* Discord may say nothing more.
CHECK_DEADLOCK FALSE
