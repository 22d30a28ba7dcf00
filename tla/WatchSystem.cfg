CONSTANTS
  a1 = a1
  k1 = k1
  k2 = k2
  Key = {k1, k2}
  ViewKey = {k1, k2}
  Client = {a1}
  MemberKey <- MCMemberKey
  Thread = {t1}
  TtlThread = ttlThread
  Ttl = {0}
  DeleteScope <- MCDeleteOther
  MaxExpiredKeysPerCheck = 1
  MaxRevision = 4
  MaxGeneration = 2
  MaxTime = 0
  Worker = {w1}
  WatchId = {1, 2}
  MaxPendingEvents = 4
  MaxFanOut = 1
  BackpressureLimit = 1
  BatchLimit = 1
  MaxAttempts = 1
  MaxRegistrations = 1
SPECIFICATION FairSpec
  
PROPERTY DepartedForgotten
CHECK_DEADLOCK FALSE
