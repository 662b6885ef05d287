CONSTANTS
  k1 = k1
  o1 = o1
  o2 = o2
  g1 = g1
  g2 = g2
  s1 = s1
  s2 = s2
  Keys <- MCKeys
  Owners <- TwoOwners
  Guids <- TwoGuids
  Servers <- OneServer
  Chans = {1, 2, 3}
  Types = {"lock"}
  NoOwner = NoOwner
  NoGuid = NoGuid
  NoRow = NoRow
  NoEntry = NoEntry
  NoJob = NoJob
  MaxTTL = 1
  MaxIndex = 2
  LegacyIndexes = {}
  MaxFaults = 1
  MaxInFlight = 1
SPECIFICATION Spec
INVARIANTS TypeOK NewestRegistered NoEarlyExpiry
PROPERTIES OnlyLapsedOwnersExpire
