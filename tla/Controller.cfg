SPECIFICATION Spec
CONSTANTS
  Address = {1, 2, 3}
  MaxToken = 3
  TokensOf <- MCTokens
  MaxMembers = 2
  Deployments <- MCSafety
INVARIANTS ControllerTypeOK PlansAreValid
PROPERTIES EpochsFixParticipants Lossless
