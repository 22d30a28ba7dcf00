CONSTANTS
  a1 = a1
  k1 = k1
  k2 = k2
  Key = {k1}
  ViewKey = {k1}
  Client = {a1}
  MemberKey <- MCMemberKey
  Thread = {t1}
  TtlThread = ttlThread
  Ttl = {1}
  DeleteScope <- MCDeleteMember
  MaxExpiredKeysPerCheck = 1
  MaxRevision = 4
  MaxGeneration = 1
  MaxTime = 1
  Worker = {}
  WatchId = {1, 2}
  MaxPendingEvents = 4
  MaxFanOut = 4
  BackpressureLimit = 2
  BatchLimit = 2
  MaxAttempts = 1
  MaxRegistrations = 2
SPECIFICATION WatchSpec
INVARIANT DepartedWatchesRemoved
PROPERTY ObserverSparesLiveMembers
CHECK_DEADLOCK FALSE
