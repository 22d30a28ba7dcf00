CONSTANTS
  a1 = a1
  k1 = k1
  k2 = k2
  Key = {k1}
  ViewKey = {k1}
  Client = {a1}
  MemberKey <- MCMemberKey
  Thread = {t1}
  TtlThread = ttlThread
  Ttl = {0}
  DeleteScope = {}
  MaxExpiredKeysPerCheck = 1
  MaxRevision = 5
  MaxGeneration = 2
  MaxTime = 0
  Worker = {w1}
  WatchId = {1, 2}
  MaxPendingEvents = 1
  MaxFanOut = 4
  BackpressureLimit = 2
  BatchLimit = 2
  MaxAttempts = 1
  MaxRegistrations = 1
SPECIFICATION WatchSpec
INVARIANT RewatchQueued
CHECK_DEADLOCK FALSE
