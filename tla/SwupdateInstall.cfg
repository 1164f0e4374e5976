CONSTANTS
  Payloads <- MCPayloads
  MaxFiles = 3
  MaxScripts = 1
SPECIFICATION Spec
INVARIANTS SuccessIsComplete NothingUnverified RoomForImage NothingLeftBehind
PROPERTIES PromiseKept
CHECK_DEADLOCK FALSE
