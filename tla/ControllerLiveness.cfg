SPECIFICATION FairSpec
CONSTANTS
  Address = {1, 2, 3}
  MaxToken = 2
  TokensOf <- MCOneToken
  MaxMembers = 2
  Deployments <- MCLiveness
PROPERTIES BatchesEnd ExitingLeave ReadyJoin MissingFail
