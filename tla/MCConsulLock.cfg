SPECIFICATION LockFairSpec
CONSTANTS
  MaxSessions = 3
  Nobody = Nobody
  Other = Other
  MaxFaults = 2
INVARIANT LockTypeOK
INVARIANT OneSession
INVARIANT OneAcquirer
INVARIANT HeldMetricFollows
PROPERTY KeyGivenUp
PROPERTY EventuallyReady
PROPERTY LaterLossExits
