------------------------------- MODULE AblSpi -------------------------------
(***************************************************************************)
(* The transfer path of the ablspi character driver (src/kernel/ablspi.c). *)
(*                                                                         *)
(* User tasks issue ioctls.  Every ioctl holds one mutex from entry to     *)
(* exit, also while it is blocked.  A frame goes through the SPI core,     *)
(* which calls back when it is done, and the XMOS controller answers       *)
(* frames with an edge on a GPIO line, which a threaded interrupt handler  *)
(* turns into a completion.  The model starts inside probe, at the point   *)
(* where the device node becomes visible: the interrupt is requested and   *)
(* pre-armed only after that.                                              *)
(***************************************************************************)
EXTENDS Integers, Sequences, FiniteSets

CONSTANTS
  Tasks,            \* user tasks that hold the device open
  NoTask,           \* "nobody", the owner of a free mutex
  Commands,         \* the ioctl commands the tasks use
  SizeArgs,         \* size arguments they pass
  SpeedArgs,        \* speed arguments they pass
  Data,             \* contents of half a page, told apart by identity only
  Half,             \* ABLSPI_HALF
  DefaultFrame,     \* ABLSPI_DEFAULT_FRAME
  MinHz, MaxHz,     \* ABLSPI_MIN_HZ and ABLSPI_MAX_HZ
  ProbeSpeeds,      \* clocks the device tree may give, or the default in place of one
  U32,              \* 2^32: the modulus of a cast to u32
  Mappers,          \* tasks that store into the mapped page without an ioctl
  SignalledWaits,   \* the waits a signal may interrupt, a subset of {"irq", "xfer"}
  FreeRunning,      \* may the XMOS raise its line without having got a frame?
  MaxEvents,        \* bound: where a completion counter saturates (UINT_MAX)
  MaxFailedSends,   \* bound: how often spi_async fails
  MaxXferErrors,    \* bound: how many frames fail on the wire
  MaxQueued         \* bound: frames queued after interrupted waits

PointerCmds == {"FILL_TX", "FILL_RX", "READ_BUFFER", "GET_STATE",
                "GET_MESSAGE_SIZE", "GET_SPEED"}
WaitCmds == {"WAIT_AND_SEND", "WAIT_AND_SEND_SIZED"}
SendCmds == WaitCmds \cup {"SEND_MESSAGE", "SEND_AND_WAIT"}
SyncCmds == SendCmds \ {"SEND_MESSAGE"}
\* The 13 numbers of the ABI, and any other number.
AllCommands == PointerCmds \cup SendCmds \cup
               {"CAN_SEND", "SET_MESSAGE_SIZE", "SET_SPEED", "UNKNOWN"}

Results == {"OK", "NO", "EINVAL", "EBUSY", "ENODEV", "EFAULT", "EIO",
            "ENOTTY", "ERESTARTSYS"}

ASSUME TasksAssumption == NoTask \notin Tasks /\ Mappers \subseteq Tasks
ASSUME CommandAssumption == Commands \subseteq AllCommands
ASSUME ArgAssumption == SizeArgs \subseteq Nat /\ SpeedArgs \subseteq Nat
ASSUME SizeAssumption == Half \in Nat /\ DefaultFrame \in 1..Half
ASSUME SpeedAssumption ==
  /\ MinHz \in Nat \ {0} /\ MaxHz \in Nat /\ U32 \in Nat
  /\ MinHz <= MaxHz /\ MaxHz < U32
  /\ ProbeSpeeds \subseteq 1..MaxHz
ASSUME EnvAssumption ==
  /\ SignalledWaits \subseteq {"irq", "xfer"}
  /\ FreeRunning \in BOOLEAN
ASSUME BoundAssumption ==
  /\ MaxEvents \in Nat \ {0}
  /\ MaxFailedSends \in Nat /\ MaxXferErrors \in Nat /\ MaxQueued \in Nat
ASSUME DataAssumption == Data # {}

VARIABLES
  pc, cmd, arg, ret,           \* each task's place in its ioctl, and its values
  lock,                        \* adev->lock: the holder
  in_transfer,                 \* adev->in_transfer
  xfer_done, xfer_status,      \* adev->xfer_done (its counter), adev->xfer_status
  irq_event,                   \* adev->irq_event (its counter)
  gpio_setup, probe,           \* adev->gpio_setup, and what probe still has to do
  message_size,                \* adev->message_size
  speed_hz, max_speed_hz,      \* adev->speed_hz, spi->max_speed_hz
  failed_send_count,           \* adev->failed_send_count
  tx, rx,                      \* the two halves of adev->buffer
  core,                        \* frames the SPI core owns, oldest first
  xmos,                        \* the controller: "silent" | "owes" (an edge) | "idle"
  line,                        \* an edge the interrupt thread has not handled
  xfer_errors                  \* frames that failed on the wire

taskVars == <<pc, cmd, arg, ret>>
xferVars == <<in_transfer, xfer_done, xfer_status>>
cfgVars  == <<message_size, speed_hz, max_speed_hz>>
bufVars  == <<tx, rx>>
irqVars  == <<irq_event, line>>
envVars  == <<core, xmos, xfer_errors>>
devVars  == <<gpio_setup, probe, failed_send_count>>
vars == <<taskVars, lock, xferVars, cfgVars, bufVars, irqVars, envVars, devVars>>

Frames == [task : Tasks, len : Nat, data : Data]

\* complete() adds one to the counter and saturates.
Complete(counter) == IF counter < MaxEvents THEN counter + 1 ELSE counter

\* The range check of a message size (ablspi_submit and the two setters).
SizeInRange(size) == size # 0 /\ size <= Half

ArgsOf(c) ==
  CASE c \in {"SET_MESSAGE_SIZE", "WAIT_AND_SEND_SIZED"} -> SizeArgs
    [] c = "SET_SPEED" -> SpeedArgs
    [] OTHER -> {0}

-----------------------------------------------------------------------------
\* The device as probe leaves it when device_create has made it visible.  Probe
\* puts the default in place of a clock that is zero or above the maximum, and
\* takes any other as it is, also one that set_speed would refuse as too slow.
Init ==
  /\ pc = [t \in Tasks |-> "idle"]
  /\ cmd = [t \in Tasks |-> "UNKNOWN"]
  /\ arg = [t \in Tasks |-> 0]
  /\ ret = [t \in Tasks |-> "OK"]
  /\ lock = NoTask
  /\ in_transfer = 0 /\ xfer_done = 0 /\ xfer_status = "OK"
  /\ irq_event = 0 /\ line = FALSE
  /\ gpio_setup = FALSE /\ probe = "gpio"
  /\ message_size = DefaultFrame
  /\ speed_hz \in ProbeSpeeds /\ max_speed_hz = speed_hz
  /\ failed_send_count = 0 /\ xfer_errors = 0
  /\ tx \in Data /\ rx = tx
  /\ core = <<>> /\ xmos = "silent"

-----------------------------------------------------------------------------
(* The rest of probe: request the interrupt, then pre-arm the wait. *)

SetupGpio ==
  /\ probe = "gpio"
  /\ gpio_setup' = TRUE
  /\ probe' = "arm"
  /\ UNCHANGED <<taskVars, lock, xferVars, cfgVars, bufVars, irqVars, envVars,
                 failed_send_count>>

\* Probe's tail without the pre-arm, a variant for the mutation checks.
NoPreArm ==
  /\ probe = "arm"
  /\ probe' = "done"
  /\ UNCHANGED <<taskVars, lock, xferVars, cfgVars, bufVars, irqVars, envVars,
                 gpio_setup, failed_send_count>>

PreArm ==
  /\ probe = "arm"
  /\ irq_event' = Complete(irq_event)
  /\ probe' = "done"
  /\ UNCHANGED <<taskVars, lock, xferVars, cfgVars, bufVars, line, envVars,
                 gpio_setup, failed_send_count>>

-----------------------------------------------------------------------------
(* A task's ioctl. *)

Go(t, place) == pc' = [pc EXCEPT ![t] = place]

\* The handler is over: r is what ablspi_ioctl will return.
Finish(t, r) == Go(t, "unlock") /\ ret' = [ret EXCEPT ![t] = r]

Call(t) ==
  /\ pc[t] = "idle"
  /\ \E c \in Commands : \E a \in ArgsOf(c) :
       /\ cmd' = [cmd EXCEPT ![t] = c]
       /\ arg' = [arg EXCEPT ![t] = a]
  /\ Go(t, "lock")
  /\ UNCHANGED <<ret, lock, xferVars, cfgVars, bufVars, irqVars, envVars, devVars>>

\* Where the switch on the command leads.
Handler(c) ==
  CASE c = "WAIT_AND_SEND" -> "check"
    [] c \in {"SEND_MESSAGE", "SEND_AND_WAIT"} -> "submit"
    [] OTHER -> "run"

\* Entering without the mutex, a variant for the mutation checks.
EnterUnlocked(t) ==
  /\ pc[t] = "lock"
  /\ lock' = t
  /\ Go(t, Handler(cmd[t]))
  /\ UNCHANGED <<cmd, arg, ret, xferVars, cfgVars, bufVars, irqVars, envVars, devVars>>

\* mutex_lock, which no signal interrupts, and the switch on the command.
Enter(t) ==
  /\ pc[t] = "lock"
  /\ lock = NoTask
  /\ lock' = t
  /\ Go(t, Handler(cmd[t]))
  /\ UNCHANGED <<cmd, arg, ret, xferVars, cfgVars, bufVars, irqVars, envVars, devVars>>

\* The transmit half changes while frames are under way: what goes over the wire
\* is the old, the new, or a mixture of both.
Torn == {[i \in DOMAIN core |-> [core[i] EXCEPT !.data = mix[i]]] :
          mix \in [DOMAIN core -> Data]}

\* A handler that copies from user memory into one half.  A null pointer or a
\* fault at the first byte leaves the half as it was, a later fault leaves it
\* partly written; any value of the half stands for each of them.
FillHalf(t) ==
  /\ pc[t] = "run"
  /\ \E r \in {"OK", "EFAULT"} : Finish(t, r)
  /\ \/ cmd[t] = "FILL_TX" /\ tx' \in Data /\ core' \in Torn /\ UNCHANGED rx
     \/ cmd[t] = "FILL_RX" /\ rx' \in Data /\ UNCHANGED <<tx, core>>
  /\ UNCHANGED <<cmd, arg, lock, xferVars, cfgVars, irqVars, xmos, xfer_errors, devVars>>

\* The handlers that only copy driver state out to the caller, or fail to.
CopyOut(t) ==
  /\ pc[t] = "run"
  /\ cmd[t] \in {"READ_BUFFER", "GET_STATE", "GET_MESSAGE_SIZE", "GET_SPEED"}
  /\ \E r \in {"OK", "EFAULT"} : Finish(t, r)
  /\ UNCHANGED <<cmd, arg, lock, xferVars, cfgVars, bufVars, irqVars, envVars, devVars>>

CanSend(t) ==
  /\ pc[t] = "run" /\ cmd[t] = "CAN_SEND"
  /\ Finish(t, IF in_transfer = 0 THEN "OK" ELSE "NO")
  /\ UNCHANGED <<cmd, arg, lock, xferVars, cfgVars, bufVars, irqVars, envVars, devVars>>

SetMessageSize(t) ==
  /\ pc[t] = "run" /\ cmd[t] = "SET_MESSAGE_SIZE"
  /\ \/ /\ ~SizeInRange(arg[t])
        /\ Finish(t, "EINVAL")
        /\ UNCHANGED message_size
     \/ /\ SizeInRange(arg[t])
        /\ message_size' = arg[t]
        /\ Finish(t, "OK")
  /\ UNCHANGED <<cmd, arg, lock, xferVars, speed_hz, max_speed_hz, bufVars, irqVars,
                 envVars, devVars>>

\* A failing spi_setup that leaves the new clock with the SPI core, a variant for
\* the mutation checks.
SetSpeedKeepsClock(t) ==
  LET hz == arg[t] % U32 IN
  /\ pc[t] = "run" /\ cmd[t] = "SET_SPEED"
  /\ \/ /\ hz < MinHz \/ hz > MaxHz
        /\ Finish(t, "EINVAL")
        /\ UNCHANGED <<speed_hz, max_speed_hz>>
     \/ /\ hz >= MinHz /\ hz <= MaxHz
        /\ max_speed_hz' = hz /\ speed_hz' \in {speed_hz, hz}
        /\ Finish(t, IF speed_hz' = hz THEN "OK" ELSE "EIO")
  /\ UNCHANGED <<cmd, arg, lock, xferVars, message_size, bufVars, irqVars, envVars, devVars>>

\* The argument is cast to u32 before the check.  spi_setup may fail, and the
\* old speed is then put back.
SetSpeed(t) ==
  LET hz == arg[t] % U32 IN
  /\ pc[t] = "run" /\ cmd[t] = "SET_SPEED"
  /\ \/ /\ hz < MinHz \/ hz > MaxHz
        /\ Finish(t, "EINVAL")
        /\ UNCHANGED <<speed_hz, max_speed_hz>>
     \/ /\ hz >= MinHz /\ hz <= MaxHz
        /\ max_speed_hz' = hz /\ speed_hz' = hz
        /\ Finish(t, "OK")
     \/ /\ hz >= MinHz /\ hz <= MaxHz
        /\ Finish(t, "EIO")
        /\ UNCHANGED <<speed_hz, max_speed_hz>>
  /\ UNCHANGED <<cmd, arg, lock, xferVars, message_size, bufVars, irqVars, envVars, devVars>>

UnknownCommand(t) ==
  /\ pc[t] = "run" /\ cmd[t] = "UNKNOWN"
  /\ Finish(t, "ENOTTY")
  /\ UNCHANGED <<cmd, arg, lock, xferVars, cfgVars, bufVars, irqVars, envVars, devVars>>

\* WAIT_AND_SEND_MESSAGE_WITH_SIZE stores the size first, whatever comes of
\* the wait.
StoreSize(t) ==
  /\ pc[t] = "run" /\ cmd[t] = "WAIT_AND_SEND_SIZED"
  /\ \/ /\ ~SizeInRange(arg[t])
        /\ Finish(t, "EINVAL")
        /\ UNCHANGED message_size
     \/ /\ SizeInRange(arg[t])
        /\ message_size' = arg[t]
        /\ Go(t, "check")
        /\ UNCHANGED ret
  /\ UNCHANGED <<cmd, arg, lock, xferVars, speed_hz, max_speed_hz, bufVars, irqVars,
                 envVars, devVars>>

-----------------------------------------------------------------------------
(* ablspi_wait_for_irq *)

\* The wait without its in_transfer check, a variant for the mutation checks.
CheckGpioOnly(t) ==
  /\ pc[t] = "check"
  /\ \/ ~gpio_setup /\ Finish(t, "ENODEV")
     \/ gpio_setup /\ Go(t, "irq_wait") /\ UNCHANGED ret
  /\ UNCHANGED <<cmd, arg, lock, xferVars, cfgVars, bufVars, irqVars, envVars, devVars>>

CheckWait(t) ==
  /\ pc[t] = "check"
  /\ \/ ~gpio_setup /\ Finish(t, "ENODEV")
     \/ gpio_setup /\ in_transfer # 0 /\ Finish(t, "EBUSY")
     \/ gpio_setup /\ in_transfer = 0 /\ Go(t, "irq_wait") /\ UNCHANGED ret
  /\ UNCHANGED <<cmd, arg, lock, xferVars, cfgVars, bufVars, irqVars, envVars, devVars>>

\* Going on without an event, a variant for the mutation checks.
TakeNoEvent(t) ==
  /\ pc[t] = "irq_wait"
  /\ Go(t, "reinit")
  /\ UNCHANGED <<cmd, arg, ret, lock, xferVars, cfgVars, bufVars, irqVars, envVars, devVars>>

TakeEvent(t) ==
  /\ pc[t] = "irq_wait"
  /\ irq_event > 0
  /\ irq_event' = irq_event - 1
  /\ Go(t, "reinit")
  /\ UNCHANGED <<cmd, arg, ret, lock, xferVars, cfgVars, bufVars, line, envVars, devVars>>

\* A signal ends the wait only while there is no event to take.
SignalIrqWait(t) ==
  /\ "irq" \in SignalledWaits
  /\ pc[t] = "irq_wait"
  /\ irq_event = 0
  /\ Finish(t, "ERESTARTSYS")
  /\ UNCHANGED <<cmd, arg, lock, xferVars, cfgVars, bufVars, irqVars, envVars, devVars>>

\* Every other event that has come in is dropped here.
ReinitEvent(t) ==
  /\ pc[t] = "reinit"
  /\ irq_event' = 0
  /\ Go(t, "submit")
  /\ UNCHANGED <<cmd, arg, ret, lock, xferVars, cfgVars, bufVars, line, envVars, devVars>>

-----------------------------------------------------------------------------
(* ablspi_submit *)

\* Claiming the transfer without the test of cmpxchg, a variant for the
\* mutation checks.
ClaimAlways(t) ==
  /\ pc[t] = "submit"
  /\ in_transfer' = 1
  /\ Go(t, "prepare") /\ UNCHANGED ret
  /\ UNCHANGED <<cmd, arg, lock, xfer_done, xfer_status, cfgVars, bufVars, irqVars,
                 envVars, devVars>>

ClaimTransfer(t) ==
  /\ pc[t] = "submit"
  /\ \/ ~SizeInRange(message_size) /\ Finish(t, "EINVAL") /\ UNCHANGED in_transfer
     \/ SizeInRange(message_size) /\ in_transfer # 0 /\ Finish(t, "EBUSY")
          /\ UNCHANGED in_transfer
     \/ SizeInRange(message_size) /\ in_transfer = 0 /\ in_transfer' = 1
          /\ Go(t, "prepare") /\ UNCHANGED ret
  /\ UNCHANGED <<cmd, arg, lock, xfer_done, xfer_status, cfgVars, bufVars, irqVars,
                 envVars, devVars>>

\* The message is initialised and the completion re-armed.
PrepareTransfer(t) ==
  /\ pc[t] = "prepare"
  /\ xfer_done' = 0
  /\ xfer_status' = "OK"
  /\ Go(t, "async")
  /\ UNCHANGED <<cmd, arg, ret, lock, in_transfer, cfgVars, bufVars, irqVars, envVars,
                 devVars>>

\* A failing spi_async that keeps the claim, a variant for the mutation checks.
StartKeepsClaim(t) ==
  /\ pc[t] = "async"
  /\ \/ /\ failed_send_count < MaxFailedSends
        /\ failed_send_count' = failed_send_count + 1
        /\ Finish(t, "EIO")
        /\ UNCHANGED <<in_transfer, core>>
     \/ /\ core' = Append(core, [task |-> t, len |-> message_size, data |-> tx])
        /\ IF cmd[t] = "SEND_MESSAGE" THEN Finish(t, "OK")
                                      ELSE Go(t, "xfer_wait") /\ UNCHANGED ret
        /\ UNCHANGED <<in_transfer, failed_send_count>>
  /\ UNCHANGED <<cmd, arg, lock, xfer_done, xfer_status, cfgVars, bufVars, irqVars, xmos,
                 xfer_errors, gpio_setup, probe>>

\* spi_async queues the frame or refuses it.
StartTransfer(t) ==
  /\ pc[t] = "async"
  /\ \/ /\ failed_send_count < MaxFailedSends
        /\ failed_send_count' = failed_send_count + 1
        /\ in_transfer' = 0
        /\ Finish(t, "EIO")
        /\ UNCHANGED core
     \/ /\ core' = Append(core, [task |-> t, len |-> message_size, data |-> tx])
        /\ IF cmd[t] = "SEND_MESSAGE" THEN Finish(t, "OK")
                                      ELSE Go(t, "xfer_wait") /\ UNCHANGED ret
        /\ UNCHANGED <<in_transfer, failed_send_count>>
  /\ UNCHANGED <<cmd, arg, lock, xfer_done, xfer_status, cfgVars, bufVars, irqVars, xmos,
                 xfer_errors, gpio_setup, probe>>

-----------------------------------------------------------------------------
(* ablspi_wait_for_xfer *)

\* Returning without waiting, a variant for the mutation checks.
TakeDoneEarly(t) ==
  /\ pc[t] = "xfer_wait"
  /\ in_transfer' = 0
  /\ Finish(t, xfer_status)
  /\ UNCHANGED <<cmd, arg, lock, xfer_done, xfer_status, cfgVars, bufVars, irqVars,
                 envVars, devVars>>

\* Leaving in_transfer set, a variant for the mutation checks.
TakeDoneKeepsClaim(t) ==
  /\ pc[t] = "xfer_wait"
  /\ xfer_done > 0
  /\ xfer_done' = xfer_done - 1
  /\ Finish(t, xfer_status)
  /\ UNCHANGED <<cmd, arg, lock, in_transfer, xfer_status, cfgVars, bufVars, irqVars,
                 envVars, devVars>>

TakeDone(t) ==
  /\ pc[t] = "xfer_wait"
  /\ xfer_done > 0
  /\ xfer_done' = xfer_done - 1
  /\ in_transfer' = 0
  /\ Finish(t, xfer_status)
  /\ UNCHANGED <<cmd, arg, lock, xfer_status, cfgVars, bufVars, irqVars, envVars, devVars>>

\* A signal ends the wait; the SPI core still owns the frame.
SignalXferWait(t) ==
  /\ "xfer" \in SignalledWaits
  /\ pc[t] = "xfer_wait"
  /\ xfer_done = 0
  /\ Len(core) < MaxQueued
  /\ in_transfer' = 0
  /\ Finish(t, "ERESTARTSYS")
  /\ UNCHANGED <<cmd, arg, lock, xfer_done, xfer_status, cfgVars, bufVars, irqVars,
                 envVars, devVars>>

\* mutex_unlock and the way back to user space; -ERESTARTSYS makes the kernel
\* issue the same ioctl again, or fail it with EINTR.  The locals of the call
\* are gone with it.
Leave(t) ==
  /\ pc[t] = "unlock"
  /\ lock' = NoTask
  /\ ret' = [ret EXCEPT ![t] = "OK"]
  /\ \/ /\ Go(t, "idle")
        /\ cmd' = [cmd EXCEPT ![t] = "UNKNOWN"]
        /\ arg' = [arg EXCEPT ![t] = 0]
     \/ /\ ret[t] = "ERESTARTSYS"
        /\ Go(t, "lock")
        /\ UNCHANGED <<cmd, arg>>
  /\ UNCHANGED <<xferVars, cfgVars, bufVars, irqVars, envVars, devVars>>

\* A store through the mapping: the transmit half changes with no lock taken.
StoreTx(t) ==
  /\ t \in Mappers
  /\ pc[t] = "idle"
  /\ tx' \in Data /\ core' \in Torn
  /\ UNCHANGED <<taskVars, lock, xferVars, cfgVars, rx, irqVars, xmos, xfer_errors, devVars>>

-----------------------------------------------------------------------------
(* The interrupt thread, the SPI core, and the XMOS. *)

GpioIsr ==
  /\ line
  /\ line' = FALSE
  /\ irq_event' = Complete(irq_event)
  /\ UNCHANGED <<taskVars, lock, xferVars, cfgVars, bufVars, envVars, devVars>>

\* The SPI core has exchanged the oldest frame and calls ablspi_xfer_complete.
\* The received half is filled; a failed exchange may leave it and the XMOS
\* as they were.
XferComplete ==
  /\ core # <<>>
  /\ core' = Tail(core)
  /\ xfer_done' = Complete(xfer_done)
  /\ \/ /\ xfer_status' = "OK"
        /\ rx' = Head(core).data
        /\ xmos' = "owes"
        /\ UNCHANGED xfer_errors
     \/ /\ xfer_errors < MaxXferErrors
        /\ xfer_errors' = xfer_errors + 1
        /\ xfer_status' = "EIO"
        /\ rx' \in {rx, Head(core).data}
        /\ xmos' \in {xmos, "owes"}
  /\ UNCHANGED <<taskVars, lock, in_transfer, cfgVars, tx, irqVars, devVars>>

\* The XMOS is silent until it has got a frame; then it raises its line once
\* per frame, or also on its own.  The edge is seen once the interrupt is
\* requested.
XmosFire ==
  /\ xmos = "owes" \/ (FreeRunning /\ xmos = "idle")
  /\ xmos' = "idle"
  /\ line' = (line \/ gpio_setup)
  /\ UNCHANGED <<taskVars, lock, xferVars, cfgVars, bufVars, irq_event, core, xfer_errors,
                 devVars>>

-----------------------------------------------------------------------------
Signalled(t) == SignalIrqWait(t) \/ SignalXferWait(t)

\* One step of the handler that a running task takes on its own.
HandlerStep(t) ==
  \/ FillHalf(t) \/ CopyOut(t) \/ CanSend(t) \/ SetMessageSize(t) \/ SetSpeed(t)
  \/ UnknownCommand(t) \/ StoreSize(t) \/ CheckWait(t) \/ TakeEvent(t) \/ ReinitEvent(t)
  \/ ClaimTransfer(t) \/ PrepareTransfer(t) \/ StartTransfer(t) \/ TakeDone(t) \/ Leave(t)

TaskStep(t) == Call(t) \/ Enter(t) \/ HandlerStep(t) \/ Signalled(t) \/ StoreTx(t)

Environment == SetupGpio \/ PreArm \/ GpioIsr \/ XferComplete \/ XmosFire

Next == (\E t \in Tasks : TaskStep(t)) \/ Environment

Spec == Init /\ [][Next]_vars

(* Probe, the interrupt thread and a runnable task are scheduled; the SPI    *)
(* core finishes what it was given; the XMOS answers a frame.  The kernel's  *)
(* mutex hands over to a waiter that has waited too long, so a waiter does   *)
(* not lose for ever.  Nothing obliges a task to make a call or to be        *)
(* signalled.                                                                *)
Fairness ==
  /\ WF_vars(SetupGpio) /\ WF_vars(PreArm) /\ WF_vars(GpioIsr)
  /\ WF_vars(XferComplete) /\ WF_vars(XmosFire)
  /\ \A t \in Tasks : SF_vars(Enter(t)) /\ WF_vars(HandlerStep(t))

FairSpec == Spec /\ Fairness

\* Tasks that send again and again, as the audio loop of MoveLauncher does, and
\* call what they like in between.
CallSend(t) == Call(t) /\ cmd'[t] \in WaitCmds
DrivenSpec == FairSpec /\ \A t \in Tasks : SF_vars(CallSend(t))

-----------------------------------------------------------------------------
(* Properties. *)

Places == {"idle", "lock", "run", "check", "irq_wait", "reinit", "submit",
           "prepare", "async", "xfer_wait", "unlock"}

TaskTypes ==
  /\ pc \in [Tasks -> Places] /\ cmd \in [Tasks -> AllCommands]
  /\ arg \in [Tasks -> Nat] /\ ret \in [Tasks -> Results]
  /\ lock \in Tasks \cup {NoTask}

TransferTypes ==
  /\ in_transfer \in 0..1 /\ xfer_done \in 0..MaxEvents
  /\ xfer_status \in {"OK", "EIO"}
  /\ failed_send_count \in 0..MaxFailedSends /\ xfer_errors \in 0..MaxXferErrors
  /\ core \in Seq(Frames)

EventTypes ==
  /\ irq_event \in 0..MaxEvents /\ line \in BOOLEAN
  /\ gpio_setup \in BOOLEAN /\ probe \in {"gpio", "arm", "done"}
  /\ xmos \in {"silent", "owes", "idle"}

ConfigTypes ==
  /\ message_size \in 1..Half
  /\ speed_hz \in ProbeSpeeds \cup (MinHz..MaxHz) /\ max_speed_hz = speed_hz
  /\ tx \in Data /\ rx \in Data

\* The values every variable ranges over; message_size is always a size a
\* transfer accepts; the clock is the one probe found or one in set_speed's range,
\* and the driver and the SPI core agree on it (also after a failed spi_setup).
TypeOK == TaskTypes /\ TransferTypes /\ EventTypes /\ ConfigTypes

\* A task inside its handler holds the mutex, and nobody else does
\* (ablspi_ioctl takes it around the whole switch).
InHandler(t) == pc[t] \notin {"idle", "lock"}
MutualExclusion == \A t \in Tasks : InHandler(t) <=> lock = t

\* Unless an interrupted wait abandons a frame, the one spi_message of the
\* device is never given to the SPI core a second time while the core has it.
OneFrameAtATime == "xfer" \notin SignalledWaits => Len(core) <= 1

\* A call that waits for its transfer succeeds after its own frame was
\* exchanged, not after an older one ("3. wait for the SPI completion and
\* return" in the header of ablspi.c).
WaitCoversOwnFrame ==
  \A t \in Tasks :
    pc[t] = "unlock" /\ cmd[t] \in SyncCmds /\ ret[t] = "OK"
      => \A i \in DOMAIN core : core[i].task # t

\* in_transfer is set only for a reason that is still there: a call between
\* claiming the transfer and returning, a frame in the SPI core, or a completion
\* that nobody has taken.  No error path and no signal leaves it behind.
InTransferOwned ==
  in_transfer = 1
    => \/ core # <<>> \/ xfer_done > 0
       \/ \E t \in Tasks : pc[t] \in {"prepare", "async", "xfer_wait"}

\* While a call waits for its transfer, what the SPI core has is its own frame,
\* whole, with the contents and the size that are still set: no handler of
\* another task writes under a transfer (the mutex is held to its end), and the
\* only one that stores into the mapped page is the one that waits.
FrameAsSubmitted ==
  \A t \in Tasks : pc[t] = "xfer_wait" /\ Mappers \subseteq {t} =>
    \A i \in DOMAIN core : core[i] = [task |-> t, len |-> message_size, data |-> tx]

\* A call that succeeds finds in the receive half the exchange of the frame it
\* sent (of the contents the transmit half still has), if nobody else stores into
\* the mapped page.
ReplyIsOwn ==
  \A t \in Tasks :
    /\ pc[t] = "unlock" /\ cmd[t] \in SyncCmds /\ ret[t] = "OK"
    /\ Mappers \subseteq {t}
    => rx = tx

\* A frame sent by WAIT_AND_SEND_MESSAGE_WITH_SIZE has the size its caller
\* asked for, although the size is stored before a wait of any length.
SizedFrame ==
  \A t \in Tasks :
    cmd[t] = "WAIT_AND_SEND_SIZED" /\ pc[t] = "xfer_wait"
      => \A i \in DOMAIN core : core[i].len = arg[t]

\* A task that has consumed an event and has not yet handed over the frame
\* that will bring the next one.
HoldsEvent(t) ==
  pc[t] \in {"reinit", "submit", "prepare", "async"} /\ cmd[t] \in WaitCmds

\* There is always something that leads to the next interrupt: the pre-arm of
\* probe, an event, an edge, a frame the XMOS will answer, or a task about to
\* send one.
LinkNeverSilent ==
  \/ probe # "done" \/ irq_event > 0 \/ line \/ xmos = "owes" \/ core # <<>>
  \/ \E t \in Tasks : HoldsEvent(t)

\* The same as long as no frame was refused or lost on the way.
LinkAlive == failed_send_count = 0 /\ xfer_errors = 0 => LinkNeverSilent

\* Every ioctl comes to an end (it returns, or restarts after a signal), whatever the other tasks do.
EveryCallReturns == \A t \in Tasks : pc[t] = "lock" ~> pc[t] = "unlock"

\* Driven by callers, the link never stops exchanging frames.
LinkKeepsMoving == []<>(core # <<>>)

\* The strict alternation of host, wire and XMOS that paces the frames.
LinkTurn ==
  IF core # <<>> THEN "wire" ELSE IF xmos = "owes" THEN "xmos" ELSE "host"
Paced == INSTANCE PacedLink WITH turn <- LinkTurn
PacedSpec == Paced!FairSpec
=============================================================================
