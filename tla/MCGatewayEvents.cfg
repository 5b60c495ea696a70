SPECIFICATION Spec
CONSTANTS
  Tasks = {t1, t2}
  Channels = {c1}
  Sessions = {s1}
  None = None
  MaxPolls = 2
  MaxMessages = 5
SYMMETRY Symmetry
INVARIANT TypeOK
 
INVARIANT GuildHasOneClient
PROPERTY StartsWithASession
\* The messages end.
CHECK_DEADLOCK FALSE
