--------------------------- MODULE AblSpi_proofs ---------------------------
(***************************************************************************)
(* Proofs about AblSpi for every value of its constants.                   *)
(***************************************************************************)
EXTENDS AblSpi, TLAPS

-----------------------------------------------------------------------------
(* Types.  One lemma for each group of variables. *)

LEMMA TaskTypesStep == TypeOK /\ [Next]_vars => TaskTypes'
<1> SUFFICES ASSUME TypeOK, [Next]_vars PROVE TaskTypes'
  OBVIOUS
<1> USE DEF TypeOK, TaskTypes, Places, Results, taskVars, Go, Finish
<1>1. ASSUME NEW t \in Tasks, Call(t) PROVE TaskTypes'
  <2>1. \A c \in Commands : c \in AllCommands /\ ArgsOf(c) \subseteq Nat
    BY CommandAssumption, ArgAssumption DEF CommandAssumption, ArgAssumption, ArgsOf
  <2>2. cmd' \in [Tasks -> AllCommands] /\ arg' \in [Tasks -> Nat]
    BY <1>1, <2>1 DEF Call
  <2> QED BY <1>1, <2>2 DEF Call
<1>2. ASSUME NEW t \in Tasks, Enter(t) PROVE TaskTypes'
  BY <1>2 DEF Enter, Handler
<1>3. ASSUME NEW t \in Tasks, FillHalf(t) \/ CopyOut(t) \/ CanSend(t) \/ UnknownCommand(t)
      PROVE TaskTypes'
  BY <1>3 DEF FillHalf, CopyOut, CanSend, UnknownCommand
<1>4. ASSUME NEW t \in Tasks, SetMessageSize(t) \/ SetSpeed(t) \/ StoreSize(t)
      PROVE TaskTypes'
  BY <1>4 DEF SetMessageSize, SetSpeed, StoreSize
<1>5. ASSUME NEW t \in Tasks, CheckWait(t) \/ TakeEvent(t) \/ ReinitEvent(t)
      PROVE TaskTypes'
  BY <1>5 DEF CheckWait, TakeEvent, ReinitEvent
<1>6. ASSUME NEW t \in Tasks, ClaimTransfer(t) \/ PrepareTransfer(t) \/ StartTransfer(t)
      PROVE TaskTypes'
  BY <1>6 DEF ClaimTransfer, PrepareTransfer, StartTransfer
<1>7. ASSUME NEW t \in Tasks, TakeDone(t) PROVE TaskTypes'
  BY <1>7 DEF TakeDone, TransferTypes
<1>8. ASSUME NEW t \in Tasks, Leave(t) PROVE TaskTypes'
  BY <1>8 DEF Leave, AllCommands
<1>9. ASSUME NEW t \in Tasks, Signalled(t) \/ StoreTx(t) PROVE TaskTypes'
  BY <1>9 DEF Signalled, SignalIrqWait, SignalXferWait, StoreTx
<1>10. CASE Environment
  BY <1>10 DEF Environment, SetupGpio, PreArm, GpioIsr, XferComplete, XmosFire
<1>11. CASE UNCHANGED vars
  BY <1>11 DEF vars
<1> QED
  BY <1>1, <1>2, <1>3, <1>4, <1>5, <1>6, <1>7, <1>8, <1>9, <1>10, <1>11
  DEF Next, TaskStep, HandlerStep

\* A store into the transmit half changes what frames under way carry, and
\* nothing else about them.
LEMMA TornKeeps ==
  ASSUME core \in Seq(Frames)
  PROVE  \A c \in Torn :
           /\ c \in Seq(Frames) /\ Len(c) = Len(core)
           /\ c = <<>> <=> core = <<>>
           /\ \A i \in DOMAIN core :
                c[i].task = core[i].task /\ c[i].len = core[i].len /\ c[i].data \in Data
<1> SUFFICES ASSUME NEW mix \in [DOMAIN core -> Data], NEW c,
                    c = [i \in DOMAIN core |-> [core[i] EXCEPT !.data = mix[i]]]
             PROVE  /\ c \in Seq(Frames) /\ Len(c) = Len(core)
                    /\ c = <<>> <=> core = <<>>
                    /\ \A i \in DOMAIN core :
                         /\ c[i].task = core[i].task /\ c[i].len = core[i].len
                         /\ c[i].data \in Data
  BY DEF Torn
<1>1. \A i \in DOMAIN core : core[i] \in Frames
  OBVIOUS
<1>2. \A i \in DOMAIN core :
        /\ c[i] \in Frames /\ c[i].task = core[i].task /\ c[i].len = core[i].len
        /\ c[i].data \in Data
  BY <1>1 DEF Frames
<1>3. DOMAIN core = 1..Len(core) /\ Len(core) \in Nat /\ DOMAIN c = 1..Len(core)
  OBVIOUS
<1>4. c \in Seq(Frames) /\ Len(c) = Len(core)
  BY <1>2, <1>3
<1> QED BY <1>2, <1>4

LEMMA StoresKeepFrames ==
  ASSUME TypeOK, NEW t \in Tasks, FillHalf(t) \/ StoreTx(t)
  PROVE  /\ core' \in Seq(Frames) /\ Len(core') = Len(core)
         /\ core' = <<>> <=> core = <<>>
         /\ \A i \in DOMAIN core :
              core'[i].task = core[i].task /\ core'[i].len = core[i].len
         /\ UNCHANGED <<xmos, xfer_errors>>
<1>1. core \in Seq(Frames)
  BY DEF TypeOK, TransferTypes
<1>2. UNCHANGED <<xmos, xfer_errors>> /\ (core' = core \/ core' \in Torn)
  BY DEF FillHalf, StoreTx, envVars
<1> QED BY <1>1, <1>2, TornKeeps

LEMMA TransferTypesStep == TypeOK /\ [Next]_vars => TransferTypes'
<1> SUFFICES ASSUME TypeOK, [Next]_vars PROVE TransferTypes'
  OBVIOUS
<1> USE DEF TypeOK, TransferTypes, xferVars, envVars, devVars
<1>1. ASSUME NEW t \in Tasks, StartTransfer(t) PROVE TransferTypes'
  <2>1. [task |-> t, len |-> message_size, data |-> tx] \in Frames
    BY SizeAssumption DEF Frames, ConfigTypes, SizeAssumption
  <2>2. core' \in Seq(Frames)
    BY <1>1, <2>1 DEF StartTransfer
  <2> QED BY <1>1, <2>2, BoundAssumption DEF StartTransfer, BoundAssumption
<1>2. ASSUME NEW t \in Tasks, ClaimTransfer(t) \/ PrepareTransfer(t) PROVE TransferTypes'
  BY <1>2, BoundAssumption DEF ClaimTransfer, PrepareTransfer, BoundAssumption
<1>3. ASSUME NEW t \in Tasks, TakeDone(t) \/ Signalled(t) PROVE TransferTypes'
  BY <1>3, BoundAssumption
  DEF TakeDone, Signalled, SignalIrqWait, SignalXferWait, BoundAssumption
<1>4. CASE XferComplete
  <2>1. Tail(core) \in Seq(Frames)
    BY <1>4 DEF XferComplete
  <2> QED BY <1>4, <2>1, BoundAssumption DEF XferComplete, Complete, BoundAssumption
<1>5. ASSUME NEW t \in Tasks,
             \/ Call(t) \/ Enter(t) \/ CopyOut(t) \/ CanSend(t)
             \/ SetMessageSize(t) \/ SetSpeed(t) \/ UnknownCommand(t) \/ StoreSize(t)
             \/ CheckWait(t) \/ TakeEvent(t) \/ ReinitEvent(t) \/ Leave(t)
      PROVE TransferTypes'
  BY <1>5 DEF Call, Enter, CopyOut, CanSend, SetMessageSize, SetSpeed,
              UnknownCommand, StoreSize, CheckWait, TakeEvent, ReinitEvent, Leave
<1>8. ASSUME NEW t \in Tasks, FillHalf(t) \/ StoreTx(t) PROVE TransferTypes'
  BY <1>8, StoresKeepFrames DEF FillHalf, StoreTx
<1>6. CASE SetupGpio \/ PreArm \/ GpioIsr \/ XmosFire
  BY <1>6 DEF SetupGpio, PreArm, GpioIsr, XmosFire
<1>7. CASE UNCHANGED vars
  BY <1>7 DEF vars
<1> QED
  BY <1>1, <1>2, <1>3, <1>4, <1>5, <1>6, <1>7, <1>8
  DEF Next, Environment, TaskStep, HandlerStep

LEMMA EventTypesStep == TypeOK /\ [Next]_vars => EventTypes'
<1> SUFFICES ASSUME TypeOK, [Next]_vars PROVE EventTypes'
  OBVIOUS
<1> USE BoundAssumption DEF TypeOK, EventTypes, irqVars, envVars, devVars, BoundAssumption
<1>1. ASSUME NEW t \in Tasks, TakeEvent(t) \/ ReinitEvent(t) PROVE EventTypes'
  BY <1>1 DEF TakeEvent, ReinitEvent
<1>2. ASSUME NEW t \in Tasks,
             \/ Call(t) \/ Enter(t) \/ FillHalf(t) \/ CopyOut(t) \/ CanSend(t)
             \/ SetMessageSize(t) \/ SetSpeed(t) \/ UnknownCommand(t) \/ StoreSize(t)
             \/ CheckWait(t) \/ ClaimTransfer(t) \/ PrepareTransfer(t) \/ StartTransfer(t)
             \/ TakeDone(t) \/ Leave(t) \/ Signalled(t) \/ StoreTx(t)
      PROVE EventTypes'
  BY <1>2 DEF Call, Enter, FillHalf, CopyOut, CanSend, SetMessageSize, SetSpeed,
              UnknownCommand, StoreSize, CheckWait, ClaimTransfer, PrepareTransfer,
              StartTransfer, TakeDone, Leave, Signalled, SignalIrqWait, SignalXferWait,
              StoreTx
<1>3. CASE SetupGpio \/ PreArm \/ GpioIsr
  <2>1. irq_event' \in 0..MaxEvents
    BY <1>3 DEF SetupGpio, PreArm, GpioIsr, Complete
  <2>2. /\ line' \in BOOLEAN /\ gpio_setup' \in BOOLEAN
        /\ probe' \in {"gpio", "arm", "done"} /\ xmos' \in {"silent", "owes", "idle"}
    BY <1>3, Zenon DEF SetupGpio, PreArm, GpioIsr
  <2> QED BY <2>1, <2>2
<1>4. CASE XferComplete \/ XmosFire
  BY <1>4 DEF XferComplete, XmosFire
<1>5. CASE UNCHANGED vars
  BY <1>5 DEF vars
<1> QED
  BY <1>1, <1>2, <1>3, <1>4, <1>5 DEF Next, Environment, TaskStep, HandlerStep

LEMMA ConfigTypesStep == TypeOK /\ [Next]_vars => ConfigTypes'
<1> SUFFICES ASSUME TypeOK, [Next]_vars PROVE ConfigTypes'
  OBVIOUS
<1> USE DEF TypeOK, ConfigTypes, cfgVars, bufVars
<1>1. ASSUME NEW t \in Tasks, SetMessageSize(t) \/ StoreSize(t) PROVE ConfigTypes'
  <2>1. arg[t] \in Nat
    BY DEF TaskTypes
  <2> QED BY <1>1, <2>1, SizeAssumption
          DEF SetMessageSize, StoreSize, SizeInRange, SizeAssumption
<1>2. ASSUME NEW t \in Tasks, SetSpeed(t) PROVE ConfigTypes'
  <2>1. arg[t] % U32 \in Int
    BY SpeedAssumption DEF TaskTypes, SpeedAssumption
  <2> QED BY <1>2, <2>1, SpeedAssumption DEF SetSpeed, SpeedAssumption
<1>3. ASSUME NEW t \in Tasks, FillHalf(t) \/ StoreTx(t) PROVE ConfigTypes'
  BY <1>3 DEF FillHalf, StoreTx
<1>4. ASSUME NEW t \in Tasks,
             \/ Call(t) \/ Enter(t) \/ CopyOut(t) \/ CanSend(t) \/ UnknownCommand(t)
             \/ CheckWait(t) \/ TakeEvent(t) \/ ReinitEvent(t) \/ ClaimTransfer(t)
             \/ PrepareTransfer(t) \/ StartTransfer(t) \/ TakeDone(t) \/ Leave(t)
             \/ Signalled(t)
      PROVE ConfigTypes'
  BY <1>4 DEF Call, Enter, CopyOut, CanSend, UnknownCommand, CheckWait, TakeEvent,
              ReinitEvent, ClaimTransfer, PrepareTransfer, StartTransfer, TakeDone, Leave,
              Signalled, SignalIrqWait, SignalXferWait
<1>5. CASE XferComplete
  <2>1. Head(core).data \in Data
    <3>1. core \in Seq(Frames) /\ core # <<>>
      BY <1>5 DEF XferComplete, TransferTypes
    <3>2. Head(core) \in Frames
      BY <3>1
    <3> QED BY <3>2 DEF Frames
  <2> QED BY <1>5, <2>1 DEF XferComplete
<1>6. CASE SetupGpio \/ PreArm \/ GpioIsr \/ XmosFire
  BY <1>6 DEF SetupGpio, PreArm, GpioIsr, XmosFire
<1>7. CASE UNCHANGED vars
  BY <1>7 DEF vars
<1> QED
  BY <1>1, <1>2, <1>3, <1>4, <1>5, <1>6, <1>7
  DEF Next, Environment, TaskStep, HandlerStep

LEMMA TypeInit == Init => TypeOK
<1> SUFFICES ASSUME Init PROVE TypeOK
  OBVIOUS
<1>1. TaskTypes
  BY DEF Init, TaskTypes, Places, AllCommands, Results
<1>2. TransferTypes
  BY BoundAssumption DEF Init, TransferTypes, BoundAssumption
<1>3. EventTypes
  <2>1. irq_event \in 0..MaxEvents
    BY BoundAssumption DEF Init, BoundAssumption
  <2>2. /\ line \in BOOLEAN /\ gpio_setup \in BOOLEAN
        /\ probe \in {"gpio", "arm", "done"} /\ xmos \in {"silent", "owes", "idle"}
    BY DEF Init
  <2> QED BY <2>1, <2>2 DEF EventTypes
<1>4. ConfigTypes
  BY SizeAssumption, SpeedAssumption
  DEF Init, ConfigTypes, SizeAssumption, SpeedAssumption
<1> QED BY <1>1, <1>2, <1>3, <1>4 DEF TypeOK

\* No step of a handler, of the interrupt thread, of the SPI core or of the
\* XMOS takes a variable out of its range.  In particular message_size is
\* always a size ablspi_submit accepts, and the clock is the one probe took from
\* the device tree or one that set_speed accepted, for the driver and the SPI core.
THEOREM TypeCorrect == Spec => []TypeOK
<1>1. TypeOK /\ [Next]_vars => TypeOK'
  BY TaskTypesStep, TransferTypesStep, EventTypesStep, ConfigTypesStep DEF TypeOK
<1> QED BY TypeInit, <1>1, PTL DEF Spec

-----------------------------------------------------------------------------
(* Control: who holds the mutex, and what a place in a handler implies. *)

\* The command a place belongs to.
PlaceOfCommand ==
  \A t \in Tasks :
    /\ pc[t] \in {"check", "irq_wait", "reinit"} => cmd[t] \in WaitCmds
    /\ pc[t] \in {"submit", "prepare", "async"} => cmd[t] \in SendCmds
    /\ pc[t] = "xfer_wait" => cmd[t] \in SyncCmds

\* A task past the check of ablspi_wait_for_irq that has not claimed the
\* transfer yet.
PastCheck(t) ==
  pc[t] \in {"irq_wait", "reinit"} \/ (pc[t] = "submit" /\ cmd[t] \in WaitCmds)

\* The check of in_transfer still holds when its result is used.
CheckStaysTrue == \A t \in Tasks : PastCheck(t) => in_transfer = 0

\* Probe pre-arms the wait after it has requested the interrupt.
ProbeOrder == probe \in {"arm", "done"} => gpio_setup

ControlInv == MutualExclusion /\ PlaceOfCommand /\ CheckStaysTrue /\ ProbeOrder

LEMMA ControlInit == Init => ControlInv
  BY TasksAssumption
  DEF Init, ControlInv, MutualExclusion, InHandler, PlaceOfCommand, CheckStaysTrue, PastCheck,
      ProbeOrder, TasksAssumption

LEMMA MutexStep == TypeOK /\ MutualExclusion /\ [Next]_vars => MutualExclusion'
<1> SUFFICES ASSUME TypeOK, MutualExclusion, [Next]_vars PROVE MutualExclusion'
  OBVIOUS
<1> USE TasksAssumption
    DEF TypeOK, TaskTypes, MutualExclusion, InHandler, taskVars, Go, Finish, TasksAssumption
<1>1. ASSUME NEW t \in Tasks, Call(t) \/ Leave(t) PROVE MutualExclusion'
  BY <1>1 DEF Call, Leave
<1>2. ASSUME NEW t \in Tasks, Enter(t) PROVE MutualExclusion'
  BY <1>2 DEF Enter, Handler
<1>3. ASSUME NEW t \in Tasks,
             FillHalf(t) \/ CopyOut(t) \/ CanSend(t) \/ UnknownCommand(t)
      PROVE MutualExclusion'
  BY <1>3 DEF FillHalf, CopyOut, CanSend, UnknownCommand
<1>4. ASSUME NEW t \in Tasks, SetMessageSize(t) \/ SetSpeed(t) \/ StoreSize(t)
      PROVE MutualExclusion'
  BY <1>4 DEF SetMessageSize, SetSpeed, StoreSize
<1>5. ASSUME NEW t \in Tasks, CheckWait(t) \/ TakeEvent(t) \/ ReinitEvent(t)
      PROVE MutualExclusion'
  BY <1>5 DEF CheckWait, TakeEvent, ReinitEvent
<1>6. ASSUME NEW t \in Tasks, ClaimTransfer(t) \/ PrepareTransfer(t) \/ StartTransfer(t)
      PROVE MutualExclusion'
  BY <1>6 DEF ClaimTransfer, PrepareTransfer, StartTransfer
<1>7. ASSUME NEW t \in Tasks, TakeDone(t) \/ Signalled(t) \/ StoreTx(t)
      PROVE MutualExclusion'
  BY <1>7 DEF TakeDone, Signalled, SignalIrqWait, SignalXferWait, StoreTx
<1>8. CASE Environment
  BY <1>8 DEF Environment, SetupGpio, PreArm, GpioIsr, XferComplete, XmosFire
<1>9. CASE UNCHANGED vars
  BY <1>9 DEF vars
<1> QED
  BY <1>1, <1>2, <1>3, <1>4, <1>5, <1>6, <1>7, <1>8, <1>9 DEF Next, TaskStep, HandlerStep

LEMMA PlaceStep == TypeOK /\ PlaceOfCommand /\ [Next]_vars => PlaceOfCommand'
<1> SUFFICES ASSUME TypeOK, PlaceOfCommand, [Next]_vars PROVE PlaceOfCommand'
  OBVIOUS
<1> USE DEF TypeOK, TaskTypes, PlaceOfCommand, WaitCmds, SendCmds, SyncCmds, taskVars, Go, Finish
<1>1. ASSUME NEW t \in Tasks, Call(t) \/ Leave(t) PROVE PlaceOfCommand'
  BY <1>1 DEF Call, Leave
<1>2. ASSUME NEW t \in Tasks, Enter(t) PROVE PlaceOfCommand'
  BY <1>2 DEF Enter, Handler
<1>3. ASSUME NEW t \in Tasks,
             FillHalf(t) \/ CopyOut(t) \/ CanSend(t) \/ UnknownCommand(t)
      PROVE PlaceOfCommand'
  BY <1>3 DEF FillHalf, CopyOut, CanSend, UnknownCommand
<1>4. ASSUME NEW t \in Tasks, SetMessageSize(t) \/ SetSpeed(t) \/ StoreSize(t)
      PROVE PlaceOfCommand'
  BY <1>4 DEF SetMessageSize, SetSpeed, StoreSize
<1>5. ASSUME NEW t \in Tasks, CheckWait(t) \/ TakeEvent(t) \/ ReinitEvent(t)
      PROVE PlaceOfCommand'
  BY <1>5 DEF CheckWait, TakeEvent, ReinitEvent
<1>6. ASSUME NEW t \in Tasks, ClaimTransfer(t) \/ PrepareTransfer(t) \/ StartTransfer(t)
      PROVE PlaceOfCommand'
  BY <1>6 DEF ClaimTransfer, PrepareTransfer, StartTransfer
<1>7. ASSUME NEW t \in Tasks, TakeDone(t) \/ Signalled(t) \/ StoreTx(t)
      PROVE PlaceOfCommand'
  BY <1>7 DEF TakeDone, Signalled, SignalIrqWait, SignalXferWait, StoreTx
<1>8. CASE Environment
  BY <1>8 DEF Environment, SetupGpio, PreArm, GpioIsr, XferComplete, XmosFire
<1>9. CASE UNCHANGED vars
  BY <1>9 DEF vars
<1> QED
  BY <1>1, <1>2, <1>3, <1>4, <1>5, <1>6, <1>7, <1>8, <1>9 DEF Next, TaskStep, HandlerStep

LEMMA CheckStep ==
  TypeOK /\ MutualExclusion /\ CheckStaysTrue /\ [Next]_vars => CheckStaysTrue'
<1> SUFFICES ASSUME TypeOK, MutualExclusion, CheckStaysTrue, [Next]_vars PROVE CheckStaysTrue'
  OBVIOUS
<1> USE DEF TypeOK, TaskTypes, MutualExclusion, InHandler, CheckStaysTrue, PastCheck,
            WaitCmds, taskVars, xferVars, Go, Finish
<1>1. ASSUME NEW t \in Tasks, Call(t) \/ Leave(t) PROVE CheckStaysTrue'
  BY <1>1 DEF Call, Leave
<1>2. ASSUME NEW t \in Tasks, Enter(t) PROVE CheckStaysTrue'
  BY <1>2 DEF Enter, Handler
<1>3. ASSUME NEW t \in Tasks,
             FillHalf(t) \/ CopyOut(t) \/ CanSend(t) \/ UnknownCommand(t)
      PROVE CheckStaysTrue'
  BY <1>3 DEF FillHalf, CopyOut, CanSend, UnknownCommand
<1>4. ASSUME NEW t \in Tasks, SetMessageSize(t) \/ SetSpeed(t) \/ StoreSize(t)
      PROVE CheckStaysTrue'
  BY <1>4 DEF SetMessageSize, SetSpeed, StoreSize
<1>5. ASSUME NEW t \in Tasks, CheckWait(t) \/ TakeEvent(t) \/ ReinitEvent(t)
      PROVE CheckStaysTrue'
  BY <1>5 DEF CheckWait, TakeEvent, ReinitEvent
<1>6. ASSUME NEW t \in Tasks, ClaimTransfer(t) PROVE CheckStaysTrue'
  <2>1. \A s \in Tasks : s # t => ~InHandler(s)
    BY <1>6 DEF ClaimTransfer
  <2> QED BY <1>6, <2>1 DEF ClaimTransfer
<1>7. ASSUME NEW t \in Tasks, PrepareTransfer(t) \/ StartTransfer(t) PROVE CheckStaysTrue'
  BY <1>7 DEF PrepareTransfer, StartTransfer
<1>8. ASSUME NEW t \in Tasks, TakeDone(t) \/ Signalled(t) \/ StoreTx(t)
      PROVE CheckStaysTrue'
  BY <1>8 DEF TakeDone, Signalled, SignalIrqWait, SignalXferWait, StoreTx
<1>9. CASE Environment
  BY <1>9 DEF Environment, SetupGpio, PreArm, GpioIsr, XferComplete, XmosFire
<1>10. CASE UNCHANGED vars
  BY <1>10 DEF vars
<1> QED
  BY <1>1, <1>2, <1>3, <1>4, <1>5, <1>6, <1>7, <1>8, <1>9, <1>10
  DEF Next, TaskStep, HandlerStep

LEMMA ProbeStep == TypeOK /\ ProbeOrder /\ [Next]_vars => ProbeOrder'
<1> SUFFICES ASSUME TypeOK, ProbeOrder, [Next]_vars PROVE ProbeOrder'
  OBVIOUS
<1> USE DEF ProbeOrder, devVars
<1>1. ASSUME NEW t \in Tasks, TaskStep(t) PROVE ProbeOrder'
  BY <1>1 DEF TaskStep, HandlerStep, Call, Enter, FillHalf, CopyOut, CanSend,
              SetMessageSize, SetSpeed, UnknownCommand, StoreSize, CheckWait, TakeEvent,
              ReinitEvent, ClaimTransfer, PrepareTransfer, StartTransfer, TakeDone, Leave,
              Signalled, SignalIrqWait, SignalXferWait, StoreTx
<1>2. CASE Environment
  BY <1>2 DEF Environment, SetupGpio, PreArm, GpioIsr, XferComplete, XmosFire
<1>3. CASE UNCHANGED vars
  BY <1>3 DEF vars
<1> QED BY <1>1, <1>2, <1>3 DEF Next

LEMMA ControlStep == TypeOK /\ ControlInv /\ [Next]_vars => ControlInv'
  BY MutexStep, PlaceStep, CheckStep, ProbeStep DEF ControlInv

LEMMA ControlCorrect == Spec => [](TypeOK /\ ControlInv)
<1>1. Init => TypeOK /\ ControlInv
  BY TypeInit, ControlInit
<1>2. TypeOK /\ ControlInv /\ [Next]_vars => (TypeOK /\ ControlInv)'
  BY ControlStep, TaskTypesStep, TransferTypesStep, EventTypesStep, ConfigTypesStep DEF TypeOK
<1> QED BY <1>1, <1>2, PTL DEF Spec

\* At every moment at most one task is inside a handler, and it is the one
\* that holds the mutex.
THEOREM OneHandlerAtATime == Spec => []MutualExclusion
  BY ControlCorrect, PTL DEF ControlInv

-----------------------------------------------------------------------------
(* The link.  A step that spends one reason for the next interrupt leaves    *)
(* another one behind, unless a frame is refused or lost.                    *)

\* A task that has taken an event gets as far as spi_async: neither of the
\* early returns of ablspi_submit is open to it.
LEMMA HolderGetsThrough ==
  ASSUME TypeOK, ControlInv, NEW t \in Tasks, ClaimTransfer(t), cmd[t] \in WaitCmds
  PROVE  pc'[t] = "prepare" /\ cmd'[t] \in WaitCmds
<1>1. in_transfer = 0
  BY DEF ControlInv, CheckStaysTrue, PastCheck, ClaimTransfer
<1>2. SizeInRange(message_size)
  BY SizeAssumption DEF TypeOK, ConfigTypes, SizeInRange, SizeAssumption
<1> QED BY <1>1, <1>2 DEF ClaimTransfer, Go, Finish, TypeOK, TaskTypes

LEMMA LinkStep == TypeOK /\ ControlInv /\ LinkAlive /\ [Next]_vars => LinkAlive'
<1> SUFFICES ASSUME TypeOK, ControlInv, LinkAlive, [Next]_vars,
                    (failed_send_count = 0 /\ xfer_errors = 0)'
             PROVE  LinkNeverSilent'
  BY DEF LinkAlive
<1>a. failed_send_count \in Nat /\ xfer_errors \in Nat /\ irq_event \in Nat
  BY BoundAssumption DEF TypeOK, TransferTypes, EventTypes, BoundAssumption
<1>1. ASSUME NEW t \in Tasks,
             \/ Call(t) \/ Enter(t) \/ FillHalf(t) \/ CopyOut(t) \/ CanSend(t)
             \/ SetMessageSize(t) \/ SetSpeed(t) \/ UnknownCommand(t) \/ StoreSize(t)
             \/ CheckWait(t) \/ TakeDone(t) \/ Leave(t) \/ Signalled(t) \/ StoreTx(t)
      PROVE LinkNeverSilent'
  <2>1. UNCHANGED <<irqVars, xmos, xfer_errors, devVars>> /\ (core' = <<>> <=> core = <<>>)
    <3>1. CASE FillHalf(t) \/ StoreTx(t)
      BY <3>1, StoresKeepFrames DEF FillHalf, StoreTx
    <3>2. CASE ~(FillHalf(t) \/ StoreTx(t))
      BY <1>1, <3>2
      DEF Call, Enter, CopyOut, CanSend, SetMessageSize, SetSpeed, UnknownCommand, StoreSize,
          CheckWait, TakeDone, Leave, Signalled, SignalIrqWait, SignalXferWait, envVars
    <3> QED BY <3>1, <3>2
  <2>2. ASSUME NEW s \in Tasks, HoldsEvent(s) PROVE HoldsEvent(s)'
    <3>1. pc[t] \notin {"reinit", "submit", "prepare", "async"}
      BY <1>1 DEF Call, Enter, FillHalf, CopyOut, CanSend, SetMessageSize, SetSpeed,
                  UnknownCommand, StoreSize, CheckWait, TakeDone, Leave, Signalled,
                  SignalIrqWait, SignalXferWait, StoreTx
    <3>2. pc'[s] = pc[s] /\ cmd'[s] = cmd[s]
      BY <1>1, <2>2, <3>1
      DEF Call, Enter, FillHalf, CopyOut, CanSend, SetMessageSize, SetSpeed,
          UnknownCommand, StoreSize, CheckWait, TakeDone, Leave, Signalled, SignalIrqWait,
          SignalXferWait, StoreTx, Go, Finish, HoldsEvent, TypeOK, TaskTypes, taskVars
    <3> QED BY <2>2, <3>2 DEF HoldsEvent
  <2> QED BY <2>1, <2>2 DEF LinkAlive, LinkNeverSilent, irqVars, devVars
<1>2. ASSUME NEW t \in Tasks, TakeEvent(t) \/ ReinitEvent(t) PROVE LinkNeverSilent'
  BY <1>2 DEF TakeEvent, ReinitEvent, LinkNeverSilent, HoldsEvent, ControlInv,
              PlaceOfCommand, Go, TypeOK, TaskTypes
<1>3. ASSUME NEW t \in Tasks, ClaimTransfer(t) \/ PrepareTransfer(t) PROVE LinkNeverSilent'
  <2>1. UNCHANGED <<irqVars, envVars, devVars>>
    BY <1>3 DEF ClaimTransfer, PrepareTransfer
  <2>2. ASSUME NEW s \in Tasks, HoldsEvent(s) PROVE HoldsEvent(s)'
    BY <1>3, <2>2, HolderGetsThrough
    DEF ClaimTransfer, PrepareTransfer, HoldsEvent, Go, Finish, TypeOK, TaskTypes
  <2> QED BY <2>1, <2>2 DEF LinkAlive, LinkNeverSilent, irqVars, envVars, devVars
<1>4. ASSUME NEW t \in Tasks, StartTransfer(t) PROVE LinkNeverSilent'
  <2>1. core' # <<>>
    BY <1>4, <1>a DEF StartTransfer, TypeOK, TransferTypes
  <2> QED BY <2>1 DEF LinkNeverSilent
<1>5. CASE SetupGpio \/ PreArm \/ GpioIsr
  BY <1>5, <1>a, BoundAssumption
  DEF SetupGpio, PreArm, GpioIsr, Complete, LinkAlive, LinkNeverSilent, HoldsEvent,
      taskVars, irqVars, envVars, devVars, BoundAssumption
<1>6. CASE XferComplete
  BY <1>6, <1>a DEF XferComplete, LinkNeverSilent
<1>7. CASE XmosFire
  BY <1>7 DEF XmosFire, LinkNeverSilent, ControlInv, ProbeOrder, devVars, TypeOK, EventTypes
<1>8. CASE UNCHANGED vars
  BY <1>8 DEF vars, taskVars, irqVars, envVars, devVars, LinkAlive, LinkNeverSilent, HoldsEvent
<1> QED
  BY <1>1, <1>2, <1>3, <1>4, <1>5, <1>6, <1>7, <1>8
  DEF Next, Environment, TaskStep, HandlerStep

\* The link never falls silent, whatever the tasks call and however their
\* waits are interrupted, as long as spi_async accepts the frames and the
\* frames get through.
THEOREM LinkStaysAlive == Spec => []LinkAlive
<1>1. Init => LinkAlive
  BY DEF Init, LinkAlive, LinkNeverSilent
<1> QED BY <1>1, LinkStep, ControlCorrect, PTL DEF Spec

-----------------------------------------------------------------------------
(* Ownership of the message, for systems in which no signal interrupts the   *)
(* wait for a transfer.                                                      *)

\* A frame in the SPI core keeps in_transfer set and has not completed; a task
\* that prepares one finds the core empty; a call that succeeded leaves it so.
FrameInv ==
  /\ core # <<>> => Len(core) = 1 /\ in_transfer = 1 /\ xfer_done = 0
  /\ \A t \in Tasks :
       /\ pc[t] \in {"prepare", "async"} => core = <<>> /\ in_transfer = 1
       /\ pc[t] = "async" => xfer_done = 0
       /\ pc[t] = "xfer_wait" => in_transfer = 1
       /\ pc[t] = "unlock" /\ cmd[t] \in SyncCmds /\ ret[t] = "OK" => core = <<>>

LEMMA FrameStep ==
  ASSUME "xfer" \notin SignalledWaits
  PROVE  TypeOK /\ ControlInv /\ FrameInv /\ [Next]_vars => FrameInv'
<1> SUFFICES ASSUME TypeOK, ControlInv, FrameInv, [Next]_vars PROVE FrameInv'
  OBVIOUS
<1>a. /\ \A t, s \in Tasks : InHandler(t) /\ InHandler(s) => s = t
      /\ \A t \in Tasks : pc[t] = "lock" /\ lock = NoTask => \A s \in Tasks : ~InHandler(s)
  BY TasksAssumption DEF ControlInv, MutualExclusion, TasksAssumption
<1>b. core \in Seq(Frames) /\ xfer_done \in Nat
  BY BoundAssumption DEF TypeOK, TransferTypes, BoundAssumption
<1>c. pc \in [Tasks -> Places] /\ cmd \in [Tasks -> AllCommands] /\ ret \in [Tasks -> Results]
  BY DEF TypeOK, TaskTypes
<1> USE DEF InHandler, FrameInv, taskVars, xferVars, envVars, Go, Finish
<1>1. ASSUME NEW t \in Tasks, Call(t) \/ Leave(t) PROVE FrameInv'
  BY <1>1, <1>c DEF Call, Leave
<1>2. ASSUME NEW t \in Tasks, Enter(t) PROVE FrameInv'
  BY <1>2, <1>c DEF Enter, Handler
<1>3. ASSUME NEW t \in Tasks,
             CopyOut(t) \/ CanSend(t) \/ UnknownCommand(t)
      PROVE FrameInv'
  BY <1>3, <1>c DEF CopyOut, CanSend, UnknownCommand, SyncCmds, SendCmds, WaitCmds
<1>4. ASSUME NEW t \in Tasks, SetMessageSize(t) \/ SetSpeed(t) \/ StoreSize(t)
      PROVE FrameInv'
  BY <1>4, <1>c DEF SetMessageSize, SetSpeed, StoreSize, SyncCmds, SendCmds, WaitCmds
<1>5. ASSUME NEW t \in Tasks, CheckWait(t) \/ TakeEvent(t) \/ ReinitEvent(t)
      PROVE FrameInv'
  BY <1>5, <1>c DEF CheckWait, TakeEvent, ReinitEvent
<1>6. ASSUME NEW t \in Tasks, ClaimTransfer(t) PROVE FrameInv'
  BY <1>6, <1>a, <1>c DEF ClaimTransfer
<1>7. ASSUME NEW t \in Tasks, PrepareTransfer(t) PROVE FrameInv'
  BY <1>7, <1>a, <1>c DEF PrepareTransfer
<1>8. ASSUME NEW t \in Tasks, StartTransfer(t) PROVE FrameInv'
  <2>1. core = <<>> /\ in_transfer = 1 /\ xfer_done = 0
    BY <1>8 DEF StartTransfer
  <2>2. \A s \in Tasks : s # t => ~InHandler(s) /\ pc'[s] = pc[s]
    BY <1>8, <1>a, <1>c DEF StartTransfer
  <2>3. CASE in_transfer' = 0
    BY <1>8, <2>1, <2>2, <2>3, <1>c DEF StartTransfer
  <2>4. CASE in_transfer' # 0
    <3>1. Len(core') = 1 /\ in_transfer' = 1 /\ xfer_done' = 0
      BY <1>8, <2>1, <2>4 DEF StartTransfer
    <3>2. pc'[t] = "unlock" => cmd'[t] \notin SyncCmds
      BY <1>8, <2>4, <1>c DEF StartTransfer, SyncCmds, SendCmds, WaitCmds
    <3>3. pc'[t] \in {"unlock", "xfer_wait"}
      BY <1>8, <2>4, <1>c DEF StartTransfer
    <3> QED BY <2>2, <3>1, <3>2, <3>3
  <2> QED BY <2>3, <2>4
<1>9. ASSUME NEW t \in Tasks, TakeDone(t) PROVE FrameInv'
  BY <1>9, <1>a, <1>b, <1>c DEF TakeDone
<1>10. ASSUME NEW t \in Tasks, Signalled(t) PROVE FrameInv'
  BY <1>10, <1>a, <1>c DEF Signalled, SignalIrqWait, SignalXferWait
<1>14. ASSUME NEW t \in Tasks, FillHalf(t) \/ StoreTx(t) PROVE FrameInv'
  <2>1. Len(core') = Len(core) /\ (core' = <<>> <=> core = <<>>)
    BY <1>14, StoresKeepFrames
  <2>2. UNCHANGED <<xferVars, cmd>>
    BY <1>14 DEF FillHalf, StoreTx
  <2>3. \A s \in Tasks : \/ pc'[s] = pc[s] /\ ret'[s] = ret[s]
                         \/ pc'[s] = "unlock" /\ cmd[s] \notin SyncCmds
    BY <1>14, <1>c DEF FillHalf, StoreTx, SyncCmds, SendCmds, WaitCmds
  <2> QED BY <2>1, <2>2, <2>3
<1>11. CASE XferComplete
  <2>1. core' = <<>>
    BY <1>11, <1>b DEF XferComplete
  <2>2. \A t \in Tasks : pc[t] # "async"
    BY <1>11 DEF XferComplete
  <2> QED BY <1>11, <2>1, <2>2 DEF XferComplete
<1>12. CASE SetupGpio \/ PreArm \/ GpioIsr \/ XmosFire
  BY <1>12 DEF SetupGpio, PreArm, GpioIsr, XmosFire
<1>13. CASE UNCHANGED vars
  BY <1>13 DEF vars
<1> QED
  BY <1>1, <1>2, <1>3, <1>4, <1>5, <1>6, <1>7, <1>8, <1>9, <1>10, <1>11, <1>12, <1>13, <1>14
  DEF Next, Environment, TaskStep, HandlerStep

LEMMA FrameCorrect ==
  ASSUME "xfer" \notin SignalledWaits
  PROVE  Spec => []FrameInv
<1>1. Init => FrameInv
  BY DEF Init, FrameInv
<1>2. TypeOK /\ ControlInv /\ FrameInv /\ [Next]_vars => FrameInv'
  BY FrameStep
<1> QED BY <1>1, <1>2, ControlCorrect, PTL DEF Spec

\* The device's one spi_message is given to the SPI core only when the core
\* does not have it.
THEOREM MessageHasOneOwner ==
  ASSUME "xfer" \notin SignalledWaits
  PROVE  Spec => []OneFrameAtATime
<1>1. FrameInv => OneFrameAtATime
  <2> SUFFICES ASSUME FrameInv PROVE Len(core) <= 1
    BY DEF OneFrameAtATime
  <2>1. CASE core = <<>>
    <3>1. Len(core) = 0
      BY <2>1
    <3> QED BY <3>1
  <2>2. CASE core # <<>>
    <3>1. Len(core) = 1
      BY <2>2 DEF FrameInv
    <3> QED BY <3>1
  <2> QED BY <2>1, <2>2
<1> QED BY <1>1, FrameCorrect, PTL

\* A call that waits for its transfer and succeeds has had its own frame
\* exchanged.
THEOREM SuccessMeansExchanged ==
  ASSUME "xfer" \notin SignalledWaits
  PROVE  Spec => []WaitCoversOwnFrame
<1>1. FrameInv => WaitCoversOwnFrame
  BY DEF FrameInv, WaitCoversOwnFrame
<1> QED BY <1>1, FrameCorrect, PTL

-----------------------------------------------------------------------------
(* The transfer flag. *)

LEMMA FlagStep == TypeOK /\ InTransferOwned /\ [Next]_vars => InTransferOwned'
<1> SUFFICES ASSUME TypeOK, InTransferOwned, [Next]_vars PROVE InTransferOwned'
  OBVIOUS
<1>a. pc \in [Tasks -> Places] /\ xfer_done \in Nat /\ core \in Seq(Frames)
  BY BoundAssumption DEF TypeOK, TaskTypes, TransferTypes, BoundAssumption
<1> USE <1>a DEF InTransferOwned, taskVars, xferVars, envVars, Go, Finish
<1>1. ASSUME NEW t \in Tasks, Call(t) \/ Enter(t) \/ Leave(t) PROVE InTransferOwned'
  BY <1>1 DEF Call, Enter, Handler, Leave
<1>2. ASSUME NEW t \in Tasks,
             CopyOut(t) \/ CanSend(t) \/ UnknownCommand(t)
      PROVE InTransferOwned'
  BY <1>2 DEF CopyOut, CanSend, UnknownCommand
<1>3. ASSUME NEW t \in Tasks, SetMessageSize(t) \/ SetSpeed(t) \/ StoreSize(t)
      PROVE InTransferOwned'
  BY <1>3 DEF SetMessageSize, SetSpeed, StoreSize
<1>4. ASSUME NEW t \in Tasks, CheckWait(t) \/ TakeEvent(t) \/ ReinitEvent(t)
      PROVE InTransferOwned'
  BY <1>4 DEF CheckWait, TakeEvent, ReinitEvent
<1>5. ASSUME NEW t \in Tasks, ClaimTransfer(t) \/ PrepareTransfer(t) PROVE InTransferOwned'
  BY <1>5 DEF ClaimTransfer, PrepareTransfer
<1>6. ASSUME NEW t \in Tasks, StartTransfer(t) PROVE InTransferOwned'
  BY <1>6 DEF StartTransfer
<1>7. ASSUME NEW t \in Tasks, TakeDone(t) \/ Signalled(t) PROVE InTransferOwned'
  BY <1>7 DEF TakeDone, Signalled, SignalIrqWait, SignalXferWait
<1>11. ASSUME NEW t \in Tasks, FillHalf(t) \/ StoreTx(t) PROVE InTransferOwned'
  <2>1. core' = <<>> <=> core = <<>>
    BY <1>11, StoresKeepFrames
  <2>2. UNCHANGED xferVars /\ \A s \in Tasks : pc'[s] = pc[s] \/ pc[s] = "run"
    BY <1>11 DEF FillHalf, StoreTx
  <2> QED BY <2>1, <2>2
<1>8. CASE XferComplete
  BY <1>8, BoundAssumption DEF XferComplete, Complete, BoundAssumption
<1>9. CASE SetupGpio \/ PreArm \/ GpioIsr \/ XmosFire
  BY <1>9 DEF SetupGpio, PreArm, GpioIsr, XmosFire
<1>10. CASE UNCHANGED vars
  BY <1>10 DEF vars
<1> QED
  BY <1>1, <1>2, <1>3, <1>4, <1>5, <1>6, <1>7, <1>8, <1>9, <1>10, <1>11
  DEF Next, Environment, TaskStep, HandlerStep

\* Whatever the tasks call and however their waits end, the transfer flag is set
\* only for a call under way, a frame on its way, or a completion not yet taken:
\* a refused frame and an interrupted wait give it back.
THEOREM FlagAccountedFor == Spec => []InTransferOwned
<1>1. Init => InTransferOwned
  BY DEF Init, InTransferOwned
<1> QED BY <1>1, FlagStep, TypeCorrect, PTL DEF Spec

-----------------------------------------------------------------------------
(* Systems that never use the asynchronous SEND_MESSAGE. *)

\* A call under way is one of the commands the tasks use, and in_transfer is
\* set by a task that is still there to clear it.
HeldByACall ==
  in_transfer = 1 => \E t \in Tasks : pc[t] \in {"prepare", "async", "xfer_wait"}
OwnedInv ==
  /\ \A t \in Tasks : pc[t] # "idle" => cmd[t] \in Commands
  /\ HeldByACall

LEMMA OwnedStep ==
  ASSUME "SEND_MESSAGE" \notin Commands
  PROVE  TypeOK /\ OwnedInv /\ [Next]_vars => OwnedInv'
<1> SUFFICES ASSUME TypeOK, OwnedInv, [Next]_vars PROVE OwnedInv'
  OBVIOUS
<1>a. pc \in [Tasks -> Places] /\ cmd \in [Tasks -> AllCommands]
  BY DEF TypeOK, TaskTypes
<1> USE <1>a DEF OwnedInv, HeldByACall, taskVars, xferVars, Go, Finish
<1>1. ASSUME NEW t \in Tasks, Call(t) \/ Leave(t) PROVE OwnedInv'
  BY <1>1 DEF Call, Leave
<1>2. ASSUME NEW t \in Tasks, Enter(t) PROVE OwnedInv'
  BY <1>2 DEF Enter, Handler
<1>3. ASSUME NEW t \in Tasks,
             FillHalf(t) \/ CopyOut(t) \/ CanSend(t) \/ UnknownCommand(t)
      PROVE OwnedInv'
  BY <1>3 DEF FillHalf, CopyOut, CanSend, UnknownCommand
<1>4. ASSUME NEW t \in Tasks, SetMessageSize(t) \/ SetSpeed(t) \/ StoreSize(t)
      PROVE OwnedInv'
  BY <1>4 DEF SetMessageSize, SetSpeed, StoreSize
<1>5. ASSUME NEW t \in Tasks, CheckWait(t) \/ TakeEvent(t) \/ ReinitEvent(t)
      PROVE OwnedInv'
  BY <1>5 DEF CheckWait, TakeEvent, ReinitEvent
<1>6. ASSUME NEW t \in Tasks, ClaimTransfer(t) \/ PrepareTransfer(t) PROVE OwnedInv'
  BY <1>6 DEF ClaimTransfer, PrepareTransfer
<1>7. ASSUME NEW t \in Tasks, StartTransfer(t) PROVE OwnedInv'
  BY <1>7 DEF StartTransfer
<1>8. ASSUME NEW t \in Tasks, TakeDone(t) \/ Signalled(t) \/ StoreTx(t) PROVE OwnedInv'
  BY <1>8 DEF TakeDone, Signalled, SignalIrqWait, SignalXferWait, StoreTx
<1>9. CASE Environment
  BY <1>9 DEF Environment, SetupGpio, PreArm, GpioIsr, XferComplete, XmosFire
<1>10. CASE UNCHANGED vars
  BY <1>10 DEF vars
<1> QED
  BY <1>1, <1>2, <1>3, <1>4, <1>5, <1>6, <1>7, <1>8, <1>9, <1>10
  DEF Next, TaskStep, HandlerStep

LEMMA OwnedCorrect ==
  ASSUME "SEND_MESSAGE" \notin Commands
  PROVE  Spec => []OwnedInv
<1>1. Init => OwnedInv
  BY DEF Init, OwnedInv, HeldByACall
<1>2. TypeOK /\ OwnedInv /\ [Next]_vars => OwnedInv'
  BY OwnedStep
<1> QED BY <1>1, <1>2, TypeCorrect, PTL DEF Spec

\* Without asynchronous sends the transfer flag is never left behind, however
\* the waits end.
THEOREM FlagNeverLeftSet ==
  ASSUME "SEND_MESSAGE" \notin Commands
  PROVE  Spec => []HeldByACall
<1>1. OwnedInv => HeldByACall
  BY DEF OwnedInv
<1> QED BY <1>1, OwnedCorrect, PTL

-----------------------------------------------------------------------------
(* The contents of a transfer, for systems in which no signal interrupts the *)
(* wait for one.                                                             *)

\* What the buffer, the size and the frame under way have to do with each other.
DataInv ==
  /\ FrameAsSubmitted
  /\ ReplyIsOwn
  /\ \A t \in Tasks :
       /\ cmd[t] = "WAIT_AND_SEND_SIZED"
             /\ pc[t] \in {"check", "irq_wait", "reinit", "submit", "prepare", "async", "xfer_wait"}
          => message_size = arg[t]
       /\ pc[t] = "xfer_wait" => \A i \in DOMAIN core : core[i].len = message_size
       /\ pc[t] = "xfer_wait" /\ Mappers \subseteq {t} /\ core = <<>> /\ xfer_status = "OK"
          => rx = tx

LEMMA DataStep ==
  ASSUME "xfer" \notin SignalledWaits
  PROVE  TypeOK /\ ControlInv /\ FrameInv /\ DataInv /\ [Next]_vars => DataInv'
<1> SUFFICES ASSUME TypeOK, ControlInv, FrameInv, DataInv, [Next]_vars
             PROVE  DataInv'
  OBVIOUS
<1>a. \A t, s \in Tasks : InHandler(t) /\ InHandler(s) => s = t
  BY DEF ControlInv, MutualExclusion
<1>b. core \in Seq(Frames)
  BY DEF TypeOK, TransferTypes
<1>c. /\ pc \in [Tasks -> Places] /\ cmd \in [Tasks -> AllCommands]
      /\ ret \in [Tasks -> Results] /\ arg \in [Tasks -> Nat]
  BY DEF TypeOK, TaskTypes
<1>e. ASSUME NEW t \in Tasks, pc[t] \in {"run", "check", "irq_wait", "reinit", "submit", "prepare",
                                     "async", "xfer_wait", "unlock"}
      PROVE  \A s \in Tasks : s # t => pc[s] \in {"idle", "lock"}
  BY <1>a, <1>e DEF InHandler
<1> USE DEF DataInv, FrameAsSubmitted, ReplyIsOwn, taskVars, xferVars, bufVars, envVars, Go, Finish
<1> USE DEF cfgVars, SyncCmds, SendCmds, WaitCmds
<1>1. ASSUME NEW t \in Tasks, Call(t) \/ Leave(t) PROVE DataInv'
  <2>1. /\ UNCHANGED <<core, message_size, bufVars, xferVars>>
        /\ pc'[t] \in {"idle", "lock"}
        /\ \A s \in Tasks : s # t =>
             pc'[s] = pc[s] /\ cmd'[s] = cmd[s] /\ arg'[s] = arg[s] /\ ret'[s] = ret[s]
    BY <1>1, <1>c DEF Call, Leave
  <2> QED BY <2>1
<1>2. ASSUME NEW t \in Tasks, Enter(t) PROVE DataInv'
  BY <1>2, <1>c DEF Enter, Handler
<1>3. ASSUME NEW t \in Tasks, CopyOut(t) \/ CanSend(t) \/ UnknownCommand(t)
      PROVE DataInv'
  <2>1. /\ UNCHANGED <<core, message_size, bufVars, xferVars, cmd, arg>>
        /\ pc'[t] = "unlock" /\ cmd[t] \notin SyncCmds
        /\ \A s \in Tasks : s # t => pc'[s] = pc[s] /\ ret'[s] = ret[s]
    BY <1>3, <1>c DEF CopyOut, CanSend, UnknownCommand
  <2> QED BY <2>1
<1>4. ASSUME NEW t \in Tasks, FillHalf(t) PROVE DataInv'
  <2>1. \A s \in Tasks : s # t => pc[s] \in {"idle", "lock"}
    BY <1>4, <1>e DEF FillHalf
  <2>2. /\ pc' = [pc EXCEPT ![t] = "unlock"] /\ cmd' = cmd /\ arg' = arg
        /\ cmd[t] \notin SyncCmds /\ cmd[t] # "WAIT_AND_SEND_SIZED"
    BY <1>4, <1>c DEF FillHalf
  <2>3. (\A s \in Tasks : s # t => pc'[s] \in {"idle", "lock"}) /\ pc'[t] = "unlock"
    BY <1>c, <2>1, <2>2
  <2> QED BY <2>2, <2>3
<1>5. ASSUME NEW t \in Tasks, SetMessageSize(t) \/ SetSpeed(t) \/ StoreSize(t)
      PROVE DataInv'
  <2>1. \A s \in Tasks : s # t => pc[s] \in {"idle", "lock"}
    BY <1>5, <1>e DEF SetMessageSize, SetSpeed, StoreSize
  <2> QED BY <1>5, <1>c, <2>1 DEF SetMessageSize, SetSpeed, StoreSize
<1>6. ASSUME NEW t \in Tasks, CheckWait(t) \/ TakeEvent(t) \/ ReinitEvent(t)
      PROVE DataInv'
  BY <1>6, <1>c DEF CheckWait, TakeEvent, ReinitEvent
<1>7. ASSUME NEW t \in Tasks, ClaimTransfer(t) \/ PrepareTransfer(t) PROVE DataInv'
  <2>1. \A s \in Tasks : s # t => pc[s] \in {"idle", "lock"}
    BY <1>7, <1>e DEF ClaimTransfer, PrepareTransfer
  <2> QED BY <1>7, <1>c, <2>1 DEF ClaimTransfer, PrepareTransfer
<1>8. ASSUME NEW t \in Tasks, StartTransfer(t) PROVE DataInv'
  <2>1. core = <<>> /\ \A s \in Tasks : s # t => pc[s] \in {"idle", "lock"}
    BY <1>8, <1>e DEF StartTransfer, FrameInv
  <2>2. /\ cmd' = cmd /\ arg' = arg /\ message_size' = message_size /\ tx' = tx
        /\ \A s \in Tasks : s # t => pc'[s] \in {"idle", "lock"}
    BY <1>8, <2>1, <1>c DEF StartTransfer
  <2>3. CASE core' = core
    <3>1. pc'[t] = "unlock" /\ ret'[t] = "EIO"
      BY <1>8, <2>1, <2>3, <1>c DEF StartTransfer
    <3> QED BY <2>1, <2>2, <2>3, <3>1
  <2>4. CASE core' = <<[task |-> t, len |-> message_size, data |-> tx]>>
    <3>1. pc'[t] = "xfer_wait" \/ (pc'[t] = "unlock" /\ cmd[t] \notin SyncCmds)
      BY <1>8, <2>1, <2>4, <1>c DEF StartTransfer
    <3>2. FrameAsSubmitted'
      BY <2>2, <2>4
    <3>3. cmd[t] = "WAIT_AND_SEND_SIZED" => message_size = arg[t]
      BY <1>8 DEF StartTransfer
    <3> QED BY <2>2, <2>4, <3>1, <3>2, <3>3
  <2> QED BY <1>8, <2>1, <2>3, <2>4 DEF StartTransfer
<1>9. ASSUME NEW t \in Tasks, TakeDone(t) PROVE DataInv'
  <2>1. core = <<>> /\ \A s \in Tasks : s # t => pc[s] \in {"idle", "lock"}
    BY <1>9, <1>e DEF TakeDone, FrameInv
  <2> QED BY <1>9, <1>c, <2>1 DEF TakeDone
<1>14. ASSUME NEW t \in Tasks, StoreTx(t) PROVE DataInv'
  <2>1. t \in Mappers /\ pc[t] = "idle"
    BY <1>14 DEF StoreTx
  <2>2. \A s \in Tasks : pc[s] # "idle" => ~(Mappers \subseteq {s})
    BY <2>1
  <2>3. UNCHANGED <<pc, cmd, arg, ret, message_size>>
    BY <1>14 DEF StoreTx
  <2>4. DOMAIN core' = DOMAIN core /\ \A i \in DOMAIN core : core'[i].len = core[i].len
    <3>1. core' \in Seq(Frames) /\ Len(core') = Len(core)
      BY <1>14, StoresKeepFrames
    <3> QED BY <3>1, <1>14, <1>b, StoresKeepFrames
  <2> QED BY <2>2, <2>3, <2>4
<1>10. ASSUME NEW t \in Tasks, Signalled(t) PROVE DataInv'
  <2>1. SignalIrqWait(t)
    BY <1>10 DEF Signalled, SignalXferWait
  <2>2. /\ UNCHANGED <<core, message_size, bufVars, xferVars, cmd, arg>>
        /\ pc'[t] = "unlock" /\ ret'[t] = "ERESTARTSYS"
        /\ \A s \in Tasks : s # t => pc'[s] = pc[s] /\ ret'[s] = ret[s]
    BY <2>1, <1>c DEF SignalIrqWait
  <2> QED BY <2>2
<1>11. CASE XferComplete
  <2>1. core # <<>> /\ core' = <<>> /\ Head(core) = core[1] /\ 1 \in DOMAIN core
    BY <1>11, <1>b DEF XferComplete, FrameInv
  <2>2. \A t \in Tasks :
          pc[t] = "xfer_wait" /\ Mappers \subseteq {t} => Head(core).data = tx
    BY <2>1
  <2>3. \A t \in Tasks : ~(pc[t] = "unlock" /\ cmd[t] \in SyncCmds /\ ret[t] = "OK")
    BY <2>1 DEF FrameInv
  <2>4. UNCHANGED <<pc, cmd, arg, ret, message_size, tx>>
    BY <1>11 DEF XferComplete
  <2>5. xfer_status' = "OK" => rx' = Head(core).data
    BY <1>11 DEF XferComplete
  <2> QED BY <2>1, <2>2, <2>3, <2>4, <2>5
<1>12. CASE SetupGpio \/ PreArm \/ GpioIsr \/ XmosFire
  BY <1>12 DEF SetupGpio, PreArm, GpioIsr, XmosFire
<1>13. CASE UNCHANGED vars
  BY <1>13 DEF vars
<1> QED
  BY <1>1, <1>2, <1>3, <1>4, <1>5, <1>6, <1>7, <1>8, <1>9, <1>10, <1>11, <1>12, <1>13, <1>14
  DEF Next, Environment, TaskStep, HandlerStep

LEMMA DataCorrect ==
  ASSUME "xfer" \notin SignalledWaits
  PROVE  Spec => []DataInv
<1>1. Init => DataInv
  BY DEF Init, DataInv, FrameAsSubmitted, ReplyIsOwn
<1>2. TypeOK /\ ControlInv /\ FrameInv /\ DataInv /\ [Next]_vars => DataInv'
  BY DataStep
<1> QED BY <1>1, <1>2, ControlCorrect, FrameCorrect, PTL DEF Spec

\* While a call waits for its transfer, its frame is as its task set it up, if no
\* other task stores into the mapped page.
THEOREM FramesAreWhole ==
  ASSUME "xfer" \notin SignalledWaits
  PROVE  Spec => []FrameAsSubmitted
<1>1. DataInv => FrameAsSubmitted
  BY DEF DataInv
<1> QED BY <1>1, DataCorrect, PTL

\* A caller that succeeds finds its own exchange in the receive half, if no other
\* task stores into the mapped page.
THEOREM RepliesAreOwn ==
  ASSUME "xfer" \notin SignalledWaits
  PROVE  Spec => []ReplyIsOwn
<1>1. DataInv => ReplyIsOwn
  BY DEF DataInv
<1> QED BY <1>1, DataCorrect, PTL

\* A sized send goes out at the size its caller asked for, whoever stores into
\* the page or sets another size meanwhile.
THEOREM SizesAreOwn ==
  ASSUME "xfer" \notin SignalledWaits
  PROVE  Spec => []SizedFrame
<1>1. DataInv => SizedFrame
  BY DEF DataInv, SizedFrame
<1> QED BY <1>1, DataCorrect, PTL

-----------------------------------------------------------------------------
(* Pacing: tasks that send by the waiting sends only, an XMOS that answers   *)
(* each frame with one edge, and a link without errors implement PacedLink.  *)

PacingAssumption ==
  /\ Commands \cap SendCmds \subseteq WaitCmds /\ "xfer" \notin SignalledWaits
  /\ FreeRunning = FALSE /\ MaxFailedSends = 0 /\ MaxXferErrors = 0

\* There is never more than one reason for a next frame.
SomeTaskHolds == \E t \in Tasks : HoldsEvent(t)
OneToken ==
  /\ probe # "done"
       => irq_event = 0 /\ ~line /\ xmos # "owes" /\ core = <<>> /\ ~SomeTaskHolds
  /\ irq_event # 0
       => irq_event = 1 /\ ~line /\ xmos # "owes" /\ core = <<>> /\ ~SomeTaskHolds
  /\ line => xmos # "owes" /\ core = <<>> /\ ~SomeTaskHolds
  /\ xmos = "owes" => core = <<>> /\ ~SomeTaskHolds
  /\ core # <<>> => ~SomeTaskHolds

PacingInv == TypeOK /\ ControlInv /\ FrameInv /\ OwnedInv /\ OneToken

\* Every step keeps the token single, and moves it the way PacedLink does or
\* not at all.
LEMMA PacingStep ==
  ASSUME PacingAssumption
  PROVE  PacingInv /\ [Next]_vars => OneToken' /\ [Paced!Next]_LinkTurn
<1> SUFFICES ASSUME PacingInv, [Next]_vars PROVE OneToken' /\ [Paced!Next]_LinkTurn
  OBVIOUS
<1>a. /\ \A t, s \in Tasks : InHandler(t) /\ InHandler(s) => s = t
      /\ \A t \in Tasks :
           pc[t] \in {"check", "irq_wait", "reinit", "submit", "prepare", "async"}
             => cmd[t] \in WaitCmds
  BY DEF PacingInv, ControlInv, MutualExclusion, PlaceOfCommand, InHandler, OwnedInv,
         PacingAssumption
<1>b. core \in Seq(Frames) /\ irq_event \in Nat /\ (core # <<>> => Len(core) = 1)
  BY BoundAssumption
  DEF PacingInv, TypeOK, TransferTypes, EventTypes, FrameInv, BoundAssumption
<1>c. pc \in [Tasks -> Places] /\ cmd \in [Tasks -> AllCommands]
  BY DEF PacingInv, TypeOK, TaskTypes
<1>d. OneToken
  BY DEF PacingInv
<1>1. ASSUME UNCHANGED <<irqVars, xmos, probe>>, core' = <<>> <=> core = <<>>,
             SomeTaskHolds' => SomeTaskHolds
      PROVE  OneToken' /\ UNCHANGED LinkTurn
  BY <1>1, <1>d DEF OneToken, irqVars, LinkTurn
<1>2. ASSUME NEW t \in Tasks,
             \/ Call(t) \/ Enter(t) \/ FillHalf(t) \/ CopyOut(t) \/ CanSend(t)
             \/ SetMessageSize(t) \/ SetSpeed(t) \/ UnknownCommand(t) \/ StoreSize(t)
             \/ CheckWait(t) \/ ClaimTransfer(t) \/ PrepareTransfer(t) \/ TakeDone(t)
             \/ Leave(t) \/ Signalled(t) \/ StoreTx(t)
      PROVE OneToken' /\ UNCHANGED LinkTurn
  <2>1. UNCHANGED <<irqVars, xmos, probe>> /\ (core' = <<>> <=> core = <<>>)
    <3>1. CASE FillHalf(t) \/ StoreTx(t)
      BY <3>1, StoresKeepFrames DEF FillHalf, StoreTx, devVars, PacingInv
    <3>2. CASE ~(FillHalf(t) \/ StoreTx(t))
      BY <1>2, <3>2
      DEF Call, Enter, CopyOut, CanSend, SetMessageSize, SetSpeed, UnknownCommand, StoreSize,
          CheckWait, ClaimTransfer, PrepareTransfer, TakeDone, Leave, Signalled,
          SignalIrqWait, SignalXferWait, devVars, envVars
    <3> QED BY <3>1, <3>2
  <2>2. ASSUME NEW s \in Tasks, HoldsEvent(s)' PROVE SomeTaskHolds
    <3>1. CASE s # t
      <4>1. pc'[s] = pc[s] /\ cmd'[s] = cmd[s]
        BY <1>2, <3>1, <1>c
        DEF Call, Enter, FillHalf, CopyOut, CanSend, SetMessageSize, SetSpeed,
            UnknownCommand, StoreSize, CheckWait, ClaimTransfer, PrepareTransfer, TakeDone,
            Leave, Signalled, SignalIrqWait, SignalXferWait, StoreTx, Go, Finish, taskVars
      <4> QED BY <2>2, <4>1 DEF HoldsEvent, SomeTaskHolds
    <3>2. CASE s = t
      <4>1. ClaimTransfer(t) \/ PrepareTransfer(t) \/ Enter(t)
        BY <1>2, <2>2, <3>2, <1>c
        DEF Call, FillHalf, CopyOut, CanSend, SetMessageSize, SetSpeed, UnknownCommand,
            StoreSize, CheckWait, TakeDone, Leave, Signalled, SignalIrqWait, SignalXferWait,
            StoreTx, Go, Finish, HoldsEvent, taskVars
      <4>2. ~Enter(t)
        BY <2>2, <3>2, <1>c DEF Enter, Handler, Go, HoldsEvent, WaitCmds
      <4>3. pc[t] \in {"submit", "prepare"} /\ cmd'[t] = cmd[t]
        BY <4>1, <4>2 DEF ClaimTransfer, PrepareTransfer
      <4> QED BY <2>2, <3>2, <4>3 DEF HoldsEvent, SomeTaskHolds
    <3> QED BY <3>1, <3>2
  <2> QED BY <1>1, <2>1, <2>2 DEF SomeTaskHolds
<1>3. ASSUME NEW t \in Tasks, TakeEvent(t) \/ ReinitEvent(t)
      PROVE OneToken' /\ UNCHANGED LinkTurn
  <2>1. irq_event' = 0 /\ UNCHANGED <<line, envVars, probe>>
    BY <1>3, <1>b, <1>d DEF TakeEvent, ReinitEvent, OneToken, devVars
  <2>2. probe = "done" /\ ~line /\ xmos # "owes" /\ core = <<>>
    BY <1>3, <1>a, <1>d
    DEF TakeEvent, ReinitEvent, OneToken, SomeTaskHolds, HoldsEvent, InHandler
  <2> QED BY <2>1, <2>2 DEF OneToken, envVars, LinkTurn
<1>4. ASSUME NEW t \in Tasks, StartTransfer(t) PROVE OneToken' /\ [Paced!Next]_LinkTurn
  <2>1. /\ probe = "done" /\ irq_event = 0 /\ ~line /\ xmos # "owes" /\ core = <<>>
        /\ cmd[t] # "SEND_MESSAGE"
    BY <1>4, <1>a, <1>d
    DEF StartTransfer, OneToken, SomeTaskHolds, HoldsEvent, InHandler, WaitCmds
  <2>2. ~(failed_send_count < MaxFailedSends)
    BY DEF PacingInv, TypeOK, TransferTypes, PacingAssumption
  <2>3. /\ core' # <<>> /\ pc' = [pc EXCEPT ![t] = "xfer_wait"]
        /\ UNCHANGED <<irqVars, xmos, probe>>
    BY <1>4, <1>b, <2>1, <2>2 DEF StartTransfer, Go
  <2>4. ~SomeTaskHolds'
    BY <1>4, <2>3, <1>a, <1>c DEF StartTransfer, SomeTaskHolds, HoldsEvent, InHandler
  <2>5. LinkTurn = "host" /\ LinkTurn' = "wire"
    BY <2>1, <2>3 DEF LinkTurn
  <2>6. Paced!Next
    BY <2>5 DEF Paced!Next, Paced!Send, Paced!Pass
  <2> QED BY <2>1, <2>3, <2>4, <2>6 DEF OneToken, irqVars
<1>5. CASE XferComplete
  <2>1. /\ core # <<>> /\ core' = <<>> /\ UNCHANGED <<taskVars, irqVars, probe>>
    BY <1>5, <1>b DEF XferComplete, devVars
  <2>2. ~(xfer_errors < MaxXferErrors)
    BY DEF PacingInv, TypeOK, TransferTypes, PacingAssumption
  <2>3. xmos' = "owes"
    BY <1>5, <2>2 DEF XferComplete
  <2>4. ~SomeTaskHolds'
    BY <2>1, <1>d DEF OneToken, SomeTaskHolds, HoldsEvent, taskVars
  <2>5. LinkTurn = "wire" /\ LinkTurn' = "xmos"
    BY <2>1, <2>3 DEF LinkTurn
  <2>6. Paced!Next
    BY <2>5 DEF Paced!Next, Paced!Deliver, Paced!Pass
  <2> QED BY <1>d, <2>1, <2>3, <2>4, <2>6 DEF OneToken, irqVars
<1>6. CASE XmosFire
  <2>1. /\ xmos = "owes" /\ xmos' = "idle" /\ UNCHANGED <<taskVars, core, irq_event, probe>>
    BY <1>6 DEF XmosFire, PacingAssumption, devVars
  <2>2. ~SomeTaskHolds' /\ core' = <<>> /\ irq_event' = 0 /\ probe' = "done"
    BY <1>d, <2>1 DEF OneToken, SomeTaskHolds, HoldsEvent, taskVars
  <2>3. LinkTurn = "xmos" /\ LinkTurn' = "host"
    BY <1>d, <2>1, <2>2 DEF LinkTurn, OneToken
  <2>4. Paced!Next
    BY <2>3 DEF Paced!Next, Paced!Edge, Paced!Pass
  <2> QED BY <2>1, <2>2, <2>4 DEF OneToken
<1>7. CASE SetupGpio \/ PreArm \/ GpioIsr
  <2>1. UNCHANGED <<taskVars, envVars>>
    BY <1>7 DEF SetupGpio, PreArm, GpioIsr
  <2>2. SomeTaskHolds' = SomeTaskHolds
    BY <2>1 DEF SomeTaskHolds, HoldsEvent, taskVars
  <2>3. OneToken'
    <3>1. CASE SetupGpio
      BY <3>1, <1>d, <2>1, <2>2 DEF SetupGpio, OneToken, irqVars, envVars
    <3>2. CASE PreArm \/ GpioIsr
      <4>1. irq_event = 0 /\ irq_event' = Complete(irq_event)
        BY <3>2, <1>d DEF PreArm, GpioIsr, OneToken
      <4>2. irq_event' = 1
        BY <4>1, BoundAssumption DEF Complete, BoundAssumption
      <4>3. ~line' /\ probe' = "done" /\ xmos # "owes" /\ core = <<>> /\ ~SomeTaskHolds
        BY <3>2, <1>d DEF PreArm, GpioIsr, OneToken, devVars
      <4> QED BY <4>2, <4>3, <2>1, <2>2 DEF OneToken, envVars
    <3> QED BY <1>7, <3>1, <3>2
  <2> QED BY <2>1, <2>3 DEF LinkTurn, envVars
<1>8. CASE UNCHANGED vars
  BY <1>1, <1>8 DEF vars, taskVars, devVars, envVars, SomeTaskHolds, HoldsEvent
<1> QED
  BY <1>2, <1>3, <1>4, <1>5, <1>6, <1>7, <1>8
  DEF Next, Environment, TaskStep, HandlerStep

\* Paced by the interrupt, the frames of waiting callers alternate strictly
\* with the answers of the XMOS: no frame is sent before the last one was
\* answered.
THEOREM PacedFrames ==
  ASSUME PacingAssumption
  PROVE  Spec => Paced!Spec
<1>a. "SEND_MESSAGE" \notin Commands /\ "xfer" \notin SignalledWaits
  BY DEF PacingAssumption, SendCmds, WaitCmds
<1>1. Init => OneToken /\ Paced!Init
  BY DEF Init, OneToken, SomeTaskHolds, HoldsEvent, Paced!Init, LinkTurn
<1>2. PacingInv /\ [Next]_vars => OneToken' /\ [Paced!Next]_LinkTurn
  BY PacingStep
<1>3. Spec => [](TypeOK /\ ControlInv) /\ []FrameInv /\ []OwnedInv
  BY <1>a, ControlCorrect, FrameCorrect, OwnedCorrect
<1>4. Spec => []OneToken /\ [][Paced!Next]_LinkTurn
  BY <1>1, <1>2, <1>3, PTL DEF Spec, PacingInv
<1> QED BY <1>1, <1>4, PTL DEF Spec, Paced!Spec
=============================================================================
