---------------------------- MODULE AblSpiDevice ----------------------------
(***************************************************************************)
(* The life of the ablspi driver and of the devices bound to it            *)
(* (src/kernel/ablspi.c): module init and exit, probe with its unwinding,  *)
(* remove, the bitmap of minor numbers, and the files users hold open.     *)
(* Devices on different controllers are probed and removed concurrently,   *)
(* and every acquisition may fail.                                         *)
(***************************************************************************)
EXTENDS Integers, FiniteSets

CONSTANTS
  Devices,      \* the SPI devices that match the driver
  MaxDevices,   \* ABLSPI_MAX_DEVICES
  MaxOpens,     \* bound: files open on a device, with those left by others
  Unbinds       \* may a device be unbound while the module stays?

ASSUME MaxAssumption == MaxDevices \in Nat /\ MaxOpens \in Nat
ASSUME UnbindAssumption == Unbinds \in BOOLEAN

NoDevice == "none"
NoMinor == -1
ASSUME DeviceAssumption == NoDevice \notin Devices

VARIABLES
  mod,          \* where module init or exit is
  globals,      \* what the module holds
  at,           \* where probe or remove of a device is
  held,         \* what probe has acquired for it
  minor,        \* adev->minor
  minorLock,    \* the device that holds ablspi_minor_lock
  minorMap,     \* ablspi_minor_map
  opens,        \* files open on the device
  orphans       \* open files whose device is gone

files == <<opens, orphans>>
minors == <<minor, minorLock, minorMap>>
vars == <<mod, globals, at, held, minors, files>>

Globals == {"chrdev", "class", "proc_parent", "proc_dir", "driver"}
Resources == {"page", "spi", "minor", "cdev", "node", "irq", "proc", "drvdata"}
Minors == 0..(MaxDevices - 1)

ModSteps == {"out", "init_chrdev", "init_class", "init_parent", "init_dir", "init_driver",
             "err_proc_dir", "err_proc_parent", "err_class", "err_chrdev",
             "in", "exit_driver", "exit_dir", "exit_parent", "exit_class", "exit_chrdev"}
ProbeSteps == {"page", "spi", "find", "set", "cdev", "node", "irq", "proc", "arm"}
ErrSteps == {"err_device_destroy", "err_cdev_del", "err_free_minor", "err_free_pages"}
RemoveSteps == {"rm_proc", "rm_irq", "rm_node", "rm_cdev", "rm_minor", "rm_page"}

Init ==
  /\ mod = "out" /\ globals = {}
  /\ at = [d \in Devices |-> "unbound"] /\ held = [d \in Devices |-> {}]
  /\ minor = [d \in Devices |-> NoMinor] /\ minorLock = NoDevice /\ minorMap = {}
  /\ opens = [d \in Devices |-> 0] /\ orphans = 0

----------------------------------------------------------------------------
\* Module init: every step acquires one thing or goes to its error label.

Acquire(step, thing, next, onError) ==
  /\ mod = step
  /\ \/ globals' = globals \cup {thing} /\ mod' = next
     \/ mod' = onError /\ UNCHANGED globals
  /\ UNCHANGED <<at, held, minors, files>>

Drop(step, thing, next) ==
  /\ mod = step /\ globals' = globals \ {thing} /\ mod' = next
  /\ UNCHANGED <<at, held, minors, files>>

Load == /\ mod = "out" /\ mod' = "init_chrdev"
        /\ UNCHANGED <<globals, at, held, minors, files>>

ModuleInit ==
  \/ Acquire("init_chrdev", "chrdev", "init_class", "out")
  \/ Acquire("init_class", "class", "init_parent", "err_chrdev")
  \/ Acquire("init_parent", "proc_parent", "init_dir", "err_class")
  \/ Acquire("init_dir", "proc_dir", "init_driver", "err_proc_parent")
  \/ Acquire("init_driver", "driver", "in", "err_proc_dir")
  \/ Drop("err_proc_dir", "proc_dir", "err_proc_parent")
  \/ Drop("err_proc_parent", "proc_parent", "err_class")
  \/ Drop("err_class", "class", "err_chrdev")
  \/ Drop("err_chrdev", "chrdev", "out")

\* cdev.owner: a file that is open keeps the module in, also when its device
\* has gone.
OwnerUnset == FALSE
ModuleInUse == orphans > 0 \/ \E d \in Devices : opens[d] > 0

Unload == /\ mod = "in" /\ ~ModuleInUse /\ mod' = "exit_driver"
          /\ UNCHANGED <<globals, at, held, minors, files>>

\* spi_unregister_driver removes every device, and waits for those in probe.
ModuleExit ==
  \/ (\A d \in Devices : at[d] = "unbound") /\ Drop("exit_driver", "driver", "exit_dir")
  \/ Drop("exit_dir", "proc_dir", "exit_parent")
  \/ Drop("exit_parent", "proc_parent", "exit_class")
  \/ Drop("exit_class", "class", "exit_chrdev")
  \/ Drop("exit_chrdev", "chrdev", "out")

----------------------------------------------------------------------------
\* Probe of one device.

Go(d, step) == at' = [at EXCEPT ![d] = step]
Take(d, thing) == held' = [held EXCEPT ![d] = @ \cup {thing}]
Release(d, thing) == held' = [held EXCEPT ![d] = @ \ {thing}]

Probe(d) ==
  /\ "driver" \in globals /\ mod = "in" /\ at[d] = "unbound" /\ Go(d, "page")
  /\ UNCHANGED <<mod, globals, held, minors, files>>

\* A step that acquires one thing for the device, or fails towards a label.
Step(d, step, thing, next, onError) ==
  /\ at[d] = step
  /\ \/ Take(d, thing) /\ Go(d, next)
     \/ Go(d, onError) /\ UNCHANGED held
  /\ UNCHANGED <<mod, globals, minors, files>>

AllocPage(d) == Step(d, "page", "page", "spi", "unbound")
SpiSetup(d) == Step(d, "spi", "spi", "find", "err_free_pages")

\* ablspi_minor_alloc: find_first_zero_bit and set_bit, under the lock.
LockNothing(d) == TRUE
LockMinors(d) == minorLock = NoDevice
\* The first bit that is zero, MaxDevices when there is none.
FirstFree == CHOOSE m \in 0..MaxDevices :
               m \notin minorMap /\ \A n \in 0..(m - 1) : n \in minorMap
NoneFree(m) == m >= MaxDevices
FindMinor(d) ==
  /\ at[d] = "find" /\ LockMinors(d)
  /\ \/ NoneFree(FirstFree) /\ Go(d, "err_free_pages") /\ UNCHANGED <<minor, minorLock>>
     \/ /\ ~NoneFree(FirstFree) /\ Go(d, "set") /\ minorLock' = d
        /\ minor' = [minor EXCEPT ![d] = FirstFree]
  /\ UNCHANGED <<mod, globals, held, minorMap, files>>
SetMinor(d) ==
  /\ at[d] = "set" /\ Go(d, "cdev") /\ Take(d, "minor")
  /\ minorMap' = minorMap \cup {minor[d]} /\ minorLock' = NoDevice
  /\ UNCHANGED <<mod, globals, minor, files>>

CdevAddKeepsMinor(d) == Step(d, "cdev", "cdev", "node", "err_free_pages")
CdevAdd(d) == Step(d, "cdev", "cdev", "node", "err_free_minor")
DeviceCreate(d) == Step(d, "node", "node", "irq", "err_cdev_del")
SetupGpioLeavesNode(d) == Step(d, "irq", "irq", "proc", "err_cdev_del")
SetupGpio(d) == Step(d, "irq", "irq", "proc", "err_device_destroy")
\* The entries in /proc are not vital.
ProcSetup(d) == Step(d, "proc", "proc", "arm", "arm")
SetDrvdata(d) ==
  /\ at[d] = "arm" /\ Take(d, "drvdata") /\ Go(d, "bound")
  /\ UNCHANGED <<mod, globals, minors, files>>

----------------------------------------------------------------------------
\* The error labels of probe, and remove.  A file that is still open when the
\* page and the device's memory go is orphaned.

Undo(d, step, thing, next) ==
  /\ at[d] = step /\ Release(d, thing) /\ Go(d, next)
  /\ UNCHANGED <<mod, globals, minors, files>>
FreeMinor(d, step, next) ==
  /\ at[d] = step /\ minorLock = NoDevice
  /\ minorMap' = minorMap \ {minor[d]} /\ Release(d, "minor") /\ Go(d, next)
  /\ UNCHANGED <<mod, globals, minor, minorLock, files>>
FreePages(d, step) ==
  /\ at[d] = step /\ Go(d, "unbound") /\ held' = [held EXCEPT ![d] = @ \ {"page", "spi", "drvdata"}]
  /\ minor' = [minor EXCEPT ![d] = NoMinor]
  /\ orphans' = orphans + opens[d] /\ opens' = [opens EXCEPT ![d] = 0]
  /\ UNCHANGED <<mod, globals, minorLock, minorMap>>

Unwind(d) ==
  \/ Undo(d, "err_device_destroy", "node", "err_cdev_del")
  \/ Undo(d, "err_cdev_del", "cdev", "err_free_minor")
  \/ FreeMinor(d, "err_free_minor", "err_free_pages")
  \/ FreePages(d, "err_free_pages")

Remove(d) ==
  \/ Undo(d, "rm_proc", "proc", "rm_irq")
  \/ Undo(d, "rm_irq", "irq", "rm_node")
  \/ Undo(d, "rm_node", "node", "rm_cdev")
  \/ Undo(d, "rm_cdev", "cdev", "rm_minor")
  \/ FreeMinor(d, "rm_minor", "rm_page")
  \/ FreePages(d, "rm_page")

\* By hand, or because the driver goes.
Unbind(d) ==
  /\ at[d] = "bound" /\ (mod = "exit_driver" \/ (mod = "in" /\ Unbinds))
  /\ Go(d, "rm_proc")
  /\ UNCHANGED <<mod, globals, held, minors, files>>

----------------------------------------------------------------------------
\* Users: the node is there as soon as device_create has returned.

Open(d) ==
  /\ mod = "in" /\ "node" \in held[d] /\ opens[d] + orphans < MaxOpens
  /\ opens' = [opens EXCEPT ![d] = @ + 1]
  /\ UNCHANGED <<mod, globals, at, held, minors, orphans>>
Close(d) ==
  /\ opens[d] > 0 /\ opens' = [opens EXCEPT ![d] = @ - 1]
  /\ UNCHANGED <<mod, globals, at, held, minors, orphans>>
CloseOrphan ==
  /\ orphans > 0 /\ orphans' = orphans - 1
  /\ UNCHANGED <<mod, globals, at, held, minors, opens>>

ProbeStep(d) ==
  \/ AllocPage(d) \/ SpiSetup(d) \/ FindMinor(d) \/ SetMinor(d) \/ CdevAdd(d)
  \/ DeviceCreate(d) \/ SetupGpio(d) \/ ProcSetup(d) \/ SetDrvdata(d)

DeviceStep(d) ==
  \/ Probe(d) \/ ProbeStep(d) \/ Unwind(d) \/ Unbind(d) \/ Remove(d)
  \/ Open(d) \/ Close(d)

Next == \/ Load \/ ModuleInit \/ Unload \/ ModuleExit \/ CloseOrphan
        \/ \E d \in Devices : DeviceStep(d)

Spec == Init /\ [][Next]_vars

----------------------------------------------------------------------------
\* Type correctness.
TypeOK ==
  /\ mod \in ModSteps /\ globals \subseteq Globals
  /\ at \in [Devices -> {"unbound", "bound"} \cup ProbeSteps \cup ErrSteps \cup RemoveSteps]
  /\ held \in [Devices -> SUBSET Resources]
  /\ minor \in [Devices -> Minors \cup {NoMinor}]
  /\ minorLock \in Devices \cup {NoDevice} /\ minorMap \subseteq Minors
  /\ opens \in [Devices -> Nat] /\ orphans \in Nat

\* The bitmap says exactly which minors are in use, none behind its end, and no two
\* devices have the same one, however their probes and removals interleave.
MinorsExact ==
  /\ minorMap \subseteq Minors
  /\ minorMap = {minor[d] : d \in {e \in Devices : "minor" \in held[e]}}
  /\ \A d, e \in Devices :
       "minor" \in held[d] /\ "minor" \in held[e] /\ minor[d] = minor[e] => d = e

\* Whatever can be reached from outside has what it works on: a node has its
\* character device, that has its number, an interrupt and a /proc file have
\* their memory, a number has its region and a node its class, and SPI is set up
\* before the character device can be used.
NothingDangles ==
  \A d \in Devices :
    /\ "node" \in held[d] => "cdev" \in held[d] /\ "class" \in globals
    /\ "cdev" \in held[d] => {"minor", "spi"} \subseteq held[d] /\ "chrdev" \in globals
    /\ "irq" \in held[d] \/ "minor" \in held[d] => "page" \in held[d]
    /\ "proc" \in held[d] => "page" \in held[d] /\ "proc_dir" \in globals

\* A probe that failed, at whatever step, and a device that was removed leave
\* nothing behind; nor does the module.
NothingLeaks ==
  /\ \A d \in Devices : at[d] = "unbound" => held[d] = {}
  /\ mod = "out" => globals = {} /\ minorMap = {} /\ \A d \in Devices : held[d] = {}

\* Unloading the module never takes a device from under an open file.
UnloadOrphansNobody == [][orphans' > orphans => mod = "in"]_vars
=============================================================================
