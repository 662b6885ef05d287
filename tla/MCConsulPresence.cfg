SPECIFICATION PresenceFairSpec
CONSTANTS
  MaxSessions = 2
  Nobody = Nobody
  Other = Other
  NoSession = NoSession
  MaxFaults = 2
PROPERTY KeyGivenUp
PROPERTY EventuallyReady
PROPERTY LossNoticed
