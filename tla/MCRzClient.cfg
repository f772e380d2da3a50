SPECIFICATION Spec
CONSTANTS
  MaxReq = 3
  Budget <- MCBudget
  MaxRuns = 3
  MaxKills = 1
  NBuf = 1
  Retry = 2
  MaxFail = 2
  MaxMagic = 1
  Rounds = 2
  ReleaseWait = 3
  FirstCalls <- MCFirstCalls
  LaterCalls <- MCLaterCalls
INVARIANTS
  TypeOK
  DevicesBalanced
  AnswerSkewBounded
  CleanExitLeavesNoTrace
  NoRequestForgotten
PROPERTIES
  CrashOnlyAfterKill
  RefinesSession
CHECK_DEADLOCK FALSE
