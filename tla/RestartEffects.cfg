SPECIFICATION RestartSpec
CONSTANTS
  Peer = {p1, p2}
  MaxTime = 2
  MaxFaults = 2
INVARIANTS
  CompletedWereApplied
PROPERTIES
  RestartsHandled
