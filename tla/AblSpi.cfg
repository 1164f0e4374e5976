SYMMETRY Symmetry
SPECIFICATION Spec
CONSTANTS
  Tasks = {t1, t2}
  NoTask = NoTask
  t1 = t1
  t2 = t2
  Commands <- MCCommands
  SizeArgs <- MCSizeArgs
  SpeedArgs <- MCSpeedArgs
  Data = {d1, d2}
  Half = 2
  DefaultFrame = 1
  MinHz = 2
  MaxHz = 2
  ProbeSpeeds = {1}
  U32 = 8
  Mappers = {t1}
  SignalledWaits = {"irq"}
  FreeRunning = TRUE
  MaxEvents = 1
  MaxFailedSends = 1
  MaxXferErrors = 1
  MaxQueued = 2
INVARIANTS
  OneFrameAtATime
  WaitCoversOwnFrame
  LinkAlive
  InTransferOwned
  FrameAsSubmitted
  ReplyIsOwn
  SizedFrame
