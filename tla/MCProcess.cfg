SPECIFICATION FairSpec
CONSTANTS
  Runners <- AllRunners
  Timed <- TimedLocks
  Locks <- JointLocks
  c1 = c1
  Calls = {c1}
  g1 = g1
  g2 = g2
  Goroutines = {g1, g2}
  MaxAgentFaults = 2
INVARIANTS QuietExitDeregisters ServedWhileRegistered CallsDrained JointReady LeftBehindOnlyOnTimeout
PROPERTIES EventuallyRegisters Reregistered UnrecoverableExits StopExits
CHECK_DEADLOCK FALSE
