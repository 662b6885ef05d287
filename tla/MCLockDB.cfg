SPECIFICATION DBFairSpec
CONSTANTS
  k1 = k1
  o1 = o1
  o2 = o2
  g1 = g1
  g2 = g2
  t1 = t1
  t2 = t2
  t3 = t3
  Keys <- MCKeys
  Owners <- MCOwners
  Guids <- MCGuids
  Txns <- MCTxns
  Types = {"lock"}
  NoOwner = NoOwner
  NoGuid = NoGuid
  NoRow = NoRow
  NoTxn = NoTxn
  MaxTTL = 1
  MaxIndex = 3
  LegacyIndexes = {0, 1}
INVARIANTS DBTypeOK FetchedRowStable
PROPERTIES ImplementsTable ImplementsService EveryCallAnswered
