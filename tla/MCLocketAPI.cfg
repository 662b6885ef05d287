SPECIFICATION APISpec
CONSTANTS
  g1 = g1
  g2 = g2
  Keys <- MCKeys
  Owners <- MCOwners
  Guids <- MCGuids
  Types <- MCTypes
  NoOwner <- MCEmpty
  NoGuid = NoGuid
  NoRow = NoRow
  Nil = Nil
  NoCall = NoCall
  MaxTTL = 300
  MaxIndex = 2
  LegacyIndexes = {0}
  LockType <- MCLockType
  PresenceType <- MCPresenceType
  WordBits = 15
  EnumBits = 11
  InitialTables <- LegacyTables
  Requests <- MCRequests
INVARIANTS SizeExact RoundTrip FetchReturnsLocked FetchAllByType SentCountsListed
SYMMETRY GuidSymmetry
