SPECIFICATION Spec
CONSTANTS
  Tasks = {t1, t2}
  NoTask = NoTask
  t1 = t1
  t2 = t2
  Commands <- SendCmds
  SizeArgs = {0, 1}
  SpeedArgs <- MCSpeedArgs
  Data = {d1}
  Half = 2
  DefaultFrame = 1
  MinHz = 1
  MaxHz = 2
  ProbeSpeeds = {1}
  U32 = 8
  Mappers = {}
  SignalledWaits = {"irq", "xfer"}
  FreeRunning = FALSE
  MaxEvents = 2
  MaxFailedSends = 0
  MaxXferErrors = 0
  MaxQueued = 2
INVARIANTS
  WaitCoversOwnFrame
