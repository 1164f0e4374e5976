CONSTANTS
  a1 = a1
  a2 = a2
  a3 = a3
  home = home
  cafe = cafe
  Aps = {a1, a2, a3}
  Nets = {home, cafe}
  Net <- MCNet
  MayHide = {a3}
  None = None
  MaxCalls = 1
  MaxActive = 1
  MaxTasks = 2
SPECIFICATION FairSpec
INVARIANTS IdleAgrees ListedStaysExported
PROPERTIES TableMovesForward ListsEnd
CHECK_DEADLOCK FALSE
