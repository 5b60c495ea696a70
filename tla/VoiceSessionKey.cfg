SPECIFICATION Spec
CONSTANT MaxConns = 2
CONSTANT MaxTasks = 2
INVARIANT StateMeansKey
\* Discord may say nothing more.
CHECK_DEADLOCK FALSE
