SPECIFICATION MCSpec
CONSTANTS
  p1 = p1
  p2 = p2
  p3 = p3
  t1 = t1
  t2 = t2
  t3 = t3
  Process = {p1, p2, p3}
  MaxObjects = 2
  MaxDepth = 2
  Thread = {t1, t2, t3}
  Resetter = {t1}
  Manual = TRUE
  MaxNotifies = 2
  MaxCalls = 2
  InitCount = 1
  MaxCount = 2
INVARIANTS
  OneHolder
  MutualExclusion
  ToldMeansOwned
  SignalSticks
  TokensConserved
  WinTokensConserved
PROPERTIES
  UnlockNeverRefused
  ImplementsEvent
  WaitersReleased
  ResetReturns
CHECK_DEADLOCK FALSE
