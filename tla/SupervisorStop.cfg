SPECIFICATION Spec
CONSTANTS
  NumPids = 8
  MaxCommands = 3
  MaxCrashes = 2
  NoPid = NoPid
INVARIANT
  StoppedMeansStopped
\* With no command left to give and the service stopped, nothing has to happen.
CHECK_DEADLOCK FALSE
