CONSTANTS
  Updaters = {u1}
  Clients = {c1}
  Quitters = {c1}
  Marks = {95}
  Resets = FALSE
  MaxCrashes = 0
  OneAtATime = TRUE
SPECIFICATION Spec
INVARIANTS SuccessRestarts
CHECK_DEADLOCK FALSE
