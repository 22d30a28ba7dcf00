CONSTANTS
  k1 = k1
  a1 = a1
  w1 = w1
  w2 = w2
  EventKey = {k1}
  Addr = {a1}
  Scope <- MCScope
  Worker = {w1, w2}
  WatchId = {1, 2}
  MaxPendingEvents = 1
  MaxFanOut = 2
  BackpressureLimit = 2
  BatchLimit = 2
  MaxCommitted = 3
SPECIFICATION ChannelsSpec
INVARIANTS ChannelsTypeOK OneDispatcher NoLostWakeup BatchIsPrefix QueuesBounded
SYMMETRY MCSymmetry
CHECK_DEADLOCK FALSE
