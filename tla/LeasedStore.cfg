CONSTANTS
  k1 = k1
  k2 = k2
  t1 = t1
  t2 = t2
  Key = {k1, k2}
  Thread = {t1, t2}
  TtlThread = ttlThread
  Ttl = {0,1}
  DeleteScope <- MCDeleteScope
  MaxExpiredKeysPerCheck = 1
  MaxRevision = 4
  MaxGeneration = 2
  MaxTime = 1
SPECIFICATION FairLeasedSpec
INVARIANTS LeasedTypeOK NoLeaseForgotten NoEarlyRecord
PROPERTIES KeepsLeases DueLeaseEnds
CHECK_DEADLOCK FALSE
