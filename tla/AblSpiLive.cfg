SPECIFICATION DrivenSpec
CONSTANTS
  Tasks = {t1, t2}
  NoTask = NoTask
  t1 = t1
  t2 = t2
  Commands <- MCLiveCommands
  SizeArgs = {1, 2}
  SpeedArgs <- MCSpeedArgs
  Data = {d1}
  Half = 2
  DefaultFrame = 1
  MinHz = 2
  MaxHz = 2
  ProbeSpeeds = {1}
  U32 = 8
  Mappers = {}
  SignalledWaits = {"irq", "xfer"}
  FreeRunning = FALSE
  MaxEvents = 2
  MaxFailedSends = 0
  MaxXferErrors = 0
  MaxQueued = 2
INVARIANTS
  TypeOK
PROPERTIES
  EveryCallReturns
  LinkKeepsMoving
  PacedSpec
