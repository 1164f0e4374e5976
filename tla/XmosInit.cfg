CONSTANTS
  Batches <- MCBatches
  Slots = 3
  Tries = 3
  AccumCap = 2
SPECIFICATION FairToolsSpec
INVARIANTS PacketsDecode NoOverrun OkMeansReply ReplyNotMissed
PROPERTIES EndsOrHangs
CHECK_DEADLOCK FALSE
