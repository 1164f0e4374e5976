SPECIFICATION Spec
CONSTANTS
  Address = 2411712
  Off = 2346176
  Sizes = {726784, 2280640}
  NoFile = NoFile
  Torn = Torn
  MaxLeftovers = 2
INVARIANT
  PatchTakes
CHECK_DEADLOCK FALSE
