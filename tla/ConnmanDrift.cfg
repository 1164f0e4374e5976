CONSTANTS
  a1 = a1
  a2 = a2
  a3 = a3
  home = home
  cafe = cafe
  Aps = {a1, a2, a3}
  Nets = {home, cafe}
  Net <- MCNet
  MayHide = {}
  None = None
  MaxCalls = 1
  MaxActive = 1
  MaxTasks = 2
SPECIFICATION Spec
INVARIANTS NoDrift
CHECK_DEADLOCK FALSE
