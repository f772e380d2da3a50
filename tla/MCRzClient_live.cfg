SPECIFICATION FairSpec
CONSTANTS
  MaxReq = 3
  Budget <- MCBudget
  MaxRuns = 2
  MaxKills = 1
  NBuf = 2
  Retry = 2
  MaxFail = 2
  MaxMagic = 1
  Rounds = 2
  ReleaseWait = 3
  FirstCalls <- MCLiveCalls
  LaterCalls <- MCLaterCalls
PROPERTIES
  SignalEnds
  BusyWaitEnds
  FlagEndsPoll
  BindEnds
CHECK_DEADLOCK FALSE
