CONSTANTS
  Updaters = {u1, u2}
  Clients = {c1, c2}
  Quitters = {c1}
  Marks = {95}
  Resets = TRUE
  MaxCrashes = 1
  OneAtATime = TRUE
SPECIFICATION Spec
SYMMETRY UpdaterSymmetry
INVARIANTS VerdictIsOwn ShownIsLive ListExact FollowersServed
CHECK_DEADLOCK FALSE
