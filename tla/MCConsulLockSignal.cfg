SPECIFICATION LockFairSpec
CONSTANTS
  MaxSessions = 3
  Nobody = Nobody
  Other = Other
  MaxFaults = 2
PROPERTY SignalExits
