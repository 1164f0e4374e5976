------------------------ MODULE AblSpiDevice_proofs ------------------------
(***************************************************************************)
(* Proofs about AblSpiDevice for any number of devices and minors.         *)
(***************************************************************************)
EXTENDS AblSpiDevice, WellFoundedInduction, TLAPS

----------------------------------------------------------------------------
(* The inductive invariant. *)

\* What the module holds at each step of its init and exit.
Acquired(m) ==
  CASE m \in {"out", "init_chrdev"} -> {}
    [] m \in {"init_class", "err_chrdev", "exit_chrdev"} -> {"chrdev"}
    [] m \in {"init_parent", "err_class", "exit_class"} -> {"chrdev", "class"}
    [] m \in {"init_dir", "err_proc_parent", "exit_parent"} ->
         {"chrdev", "class", "proc_parent"}
    [] m \in {"init_driver", "err_proc_dir", "exit_dir"} ->
         {"chrdev", "class", "proc_parent", "proc_dir"}
    [] OTHER -> Globals

\* The steps of a device at which it has each of its resources.
IrqSteps   == {"proc", "arm", "bound", "rm_proc", "rm_irq"}
NodeSteps  == IrqSteps \cup {"irq", "err_device_destroy", "rm_node"}
CdevSteps  == NodeSteps \cup {"node", "err_cdev_del", "rm_cdev"}
MinorSteps == CdevSteps \cup {"cdev", "err_free_minor", "rm_minor"}
SpiSteps   == MinorSteps \cup {"find", "set", "rm_page"}
PageSteps  == SpiSteps \cup {"spi", "err_free_pages"}

ModuleInv ==
  /\ globals = Acquired(mod)
  /\ \A d \in Devices : at[d] # "unbound" => mod \in {"in", "exit_driver"}

HeldAt(d) ==
  /\ "page" \in held[d] <=> at[d] \in PageSteps
  /\ "minor" \in held[d] <=> at[d] \in MinorSteps
  /\ "cdev" \in held[d] <=> at[d] \in CdevSteps
  /\ "node" \in held[d] <=> at[d] \in NodeSteps
  /\ "irq" \in held[d] <=> at[d] \in IrqSteps
  /\ at[d] \in SpiSteps => "spi" \in held[d]
  /\ "spi" \in held[d] => at[d] \in PageSteps \ {"spi"}
  /\ "proc" \in held[d] => at[d] \in {"arm", "bound", "rm_proc"}
  /\ "drvdata" \in held[d] =>
       at[d] \in {"bound", "rm_proc", "rm_irq", "rm_node", "rm_cdev", "rm_minor", "rm_page"}
HeldInv == \A d \in Devices : HeldAt(d)

\* The lock is held by the device between its search and its store, and the
\* number it found is still free.
LockInv ==
  \A d \in Devices :
    /\ at[d] = "set" <=> minorLock = d
    /\ at[d] = "set" => minor[d] \in Minors \ minorMap
    /\ "minor" \in held[d] => minor[d] \in Minors

OpenInv == mod # "in" => orphans = 0 /\ \A d \in Devices : opens[d] = 0

IndInv == TypeOK /\ ModuleInv /\ HeldInv /\ LockInv /\ MinorsExact /\ OpenInv

----------------------------------------------------------------------------
(* ablspi_minor_alloc: the search. *)

\* The first zero bit of the map exists, so the search returns a number that is
\* free when it is below MaxDevices.
LEMMA FirstFreeIsFree ==
  ASSUME minorMap \subseteq Minors
  PROVE  FirstFree \in 0..MaxDevices /\ FirstFree \notin minorMap
<1> DEFINE Free == (0..MaxDevices) \ minorMap
<1>1. MaxDevices \in Nat
  BY MaxAssumption DEF MaxAssumption
<1>2. MaxDevices \in Free
  BY <1>1 DEF Minors
<1>3. Free \subseteq Nat
  BY <1>1
<1>4. PICK m \in Free : \A n \in Free : ~(<<n, m>> \in OpToRel(<, Nat))
  <2> HIDE DEF Free
  <2> QED BY <1>2, <1>3, NatLessThanWellFounded, WFMin
<1>5. \A n \in 0..(m - 1) : n \in minorMap
  <2> SUFFICES ASSUME NEW n \in 0..(m - 1), n \notin minorMap PROVE FALSE
    OBVIOUS
  <2>1. n \in Free /\ n \in Nat /\ m \in Nat /\ n < m
    BY <1>1
  <2>2. OpToRel(<, Nat) = {p \in Nat \X Nat : p[1] < p[2]}
    BY DEF OpToRel
  <2>3. <<n, m>> \in OpToRel(<, Nat)
    BY <2>1, <2>2
  <2> QED BY <1>4, <2>1, <2>3
<1>6. m \in 0..MaxDevices /\ m \notin minorMap
  OBVIOUS
<1> QED BY <1>5, <1>6 DEF FirstFree

----------------------------------------------------------------------------
(* Types. *)

LEMMA TypeStep == IndInv /\ [Next]_vars => TypeOK'
<1> SUFFICES ASSUME IndInv, [Next]_vars PROVE TypeOK'
  OBVIOUS
<1> USE DEF IndInv, TypeOK, files, minors
<1>1. CASE Load \/ ModuleInit \/ Unload \/ ModuleExit
  BY <1>1 DEF Load, ModuleInit, Unload, ModuleExit, Acquire, Drop, ModSteps, Globals
<1>2. CASE CloseOrphan
  BY <1>2 DEF CloseOrphan
<1>3. ASSUME NEW d \in Devices, Probe(d) \/ Unbind(d) PROVE TypeOK'
  BY <1>3 DEF Probe, Unbind, Go, ProbeSteps, RemoveSteps
<1>4. ASSUME NEW d \in Devices, ProbeStep(d) PROVE TypeOK'
  <2> USE DEF Go, Take, ProbeSteps, ErrSteps, Resources
  <2>1. CASE AllocPage(d) \/ SpiSetup(d) \/ CdevAdd(d) \/ DeviceCreate(d) \/ SetupGpio(d)
             \/ ProcSetup(d)
    BY <2>1 DEF AllocPage, SpiSetup, CdevAdd, DeviceCreate, SetupGpio, ProcSetup, Step
  <2>2. CASE FindMinor(d)
    <3>1. ~NoneFree(FirstFree) => FirstFree \in Minors
      BY FirstFreeIsFree, MaxAssumption DEF NoneFree, Minors, MaxAssumption
    <3> QED BY <2>2, <3>1 DEF FindMinor
  <2>3. CASE SetMinor(d)
    <3>1. minor[d] \in Minors
      BY <2>3 DEF SetMinor, LockInv
    <3> QED BY <2>3, <3>1 DEF SetMinor
  <2>4. CASE SetDrvdata(d)
    BY <2>4 DEF SetDrvdata
  <2> QED BY <1>4, <2>1, <2>2, <2>3, <2>4 DEF ProbeStep
<1>5. ASSUME NEW d \in Devices, Unwind(d) \/ Remove(d) PROVE TypeOK'
  BY <1>5
  DEF Unwind, Remove, Undo, FreeMinor, FreePages, Go, Release, ErrSteps, RemoveSteps
<1>6. ASSUME NEW d \in Devices, Open(d) \/ Close(d) PROVE TypeOK'
  BY <1>6 DEF Open, Close
<1>7. CASE UNCHANGED vars
  BY <1>7 DEF vars
<1> QED BY <1>1, <1>2, <1>3, <1>4, <1>5, <1>6, <1>7 DEF Next, DeviceStep

----------------------------------------------------------------------------
(* The module and its devices. *)

\* Init and exit hold what their step says, and no device is bound or on its
\* way outside the time the driver is registered.
LEMMA ModuleStep == IndInv /\ [Next]_vars => ModuleInv'
<1> SUFFICES ASSUME IndInv, [Next]_vars PROVE ModuleInv'
  OBVIOUS
<1> USE DEF IndInv, ModuleInv, files, minors
<1>1. CASE Load \/ Unload
  BY <1>1 DEF Load, Unload, Acquired
<1>2. CASE ModuleInit
  BY <1>2 DEF ModuleInit, Acquire, Drop, Acquired, Globals
<1>3. CASE ModuleExit
  BY <1>3 DEF ModuleExit, Drop, Acquired, Globals
<1>4. ASSUME NEW d \in Devices, Probe(d) \/ ProbeStep(d) \/ Unwind(d) \/ Unbind(d) \/ Remove(d)
      PROVE ModuleInv'
  <2>1. UNCHANGED <<mod, globals>>
    BY <1>4 DEF Probe, ProbeStep, AllocPage, SpiSetup, FindMinor, SetMinor, CdevAdd,
      DeviceCreate, SetupGpio, ProcSetup, SetDrvdata, Step, Unwind, Undo, FreeMinor, FreePages,
      Unbind, Remove
  <2>2. mod \in {"in", "exit_driver"}
    BY <1>4 DEF Probe, ProbeStep, AllocPage, SpiSetup, FindMinor, SetMinor, CdevAdd,
      DeviceCreate, SetupGpio, ProcSetup, SetDrvdata, Step, Unwind, Undo, FreeMinor, FreePages,
      Unbind, Remove
  <2> QED BY <2>1, <2>2
<1>5. ASSUME NEW d \in Devices, Open(d) \/ Close(d) PROVE ModuleInv'
  BY <1>5 DEF Open, Close
<1>6. CASE CloseOrphan \/ UNCHANGED vars
  BY <1>6 DEF CloseOrphan, vars
<1> QED BY <1>1, <1>2, <1>3, <1>4, <1>5, <1>6 DEF Next, DeviceStep

\* A step of one device leaves what the others hold alone, and moves between
\* places that differ by just what it acquires or releases.
LEMMA HeldStep == IndInv /\ [Next]_vars => HeldInv'
<1> SUFFICES ASSUME IndInv, [Next]_vars PROVE HeldInv'
  OBVIOUS
<1> USE DEF IndInv, TypeOK, HeldInv, HeldAt, PageSteps, SpiSteps, MinorSteps, CdevSteps,
            NodeSteps, IrqSteps, files, minors
<1>1. CASE Load \/ ModuleInit \/ Unload \/ ModuleExit \/ CloseOrphan
  <2>1. UNCHANGED <<at, held>>
    BY <1>1 DEF Load, ModuleInit, Unload, ModuleExit, CloseOrphan, Acquire, Drop
  <2> QED BY <2>1
<1>2. ASSUME NEW d \in Devices, Open(d) \/ Close(d) PROVE HeldInv'
  BY <1>2 DEF Open, Close
<1>3. ASSUME NEW d \in Devices, Probe(d) \/ Unbind(d) PROVE HeldInv'
  BY <1>3 DEF Probe, Unbind, Go
<1>4. ASSUME NEW d \in Devices, ProbeStep(d) PROVE HeldInv'
  <2> USE DEF Go, Take
  <2>1. CASE AllocPage(d) \/ SpiSetup(d) \/ CdevAdd(d)
    BY <2>1 DEF AllocPage, SpiSetup, CdevAdd, Step
  <2>2. CASE DeviceCreate(d) \/ SetupGpio(d) \/ ProcSetup(d)
    BY <2>2 DEF DeviceCreate, SetupGpio, ProcSetup, Step
  <2>3. CASE FindMinor(d) \/ SetMinor(d) \/ SetDrvdata(d)
    BY <2>3 DEF FindMinor, SetMinor, SetDrvdata
  <2> QED BY <1>4, <2>1, <2>2, <2>3 DEF ProbeStep
<1>5. ASSUME NEW d \in Devices, Unwind(d) PROVE HeldInv'
  BY <1>5 DEF Unwind, Undo, FreeMinor, FreePages, Go, Release
<1>6. ASSUME NEW d \in Devices, Remove(d) PROVE HeldInv'
  BY <1>6 DEF Remove, Undo, FreeMinor, FreePages, Go, Release
<1>7. CASE UNCHANGED vars
  BY <1>7 DEF vars
<1> QED BY <1>1, <1>2, <1>3, <1>4, <1>5, <1>6, <1>7 DEF Next, DeviceStep

----------------------------------------------------------------------------
(* The minor numbers. *)

\* The steps that move a device without touching the numbers: it neither enters
\* nor leaves the search, and it holds a number after the step if it did before.
LEMMA QuietSteps ==
  ASSUME IndInv, NEW d \in Devices,
         \/ Probe(d) \/ AllocPage(d) \/ SpiSetup(d) \/ CdevAdd(d) \/ DeviceCreate(d)
         \/ SetupGpio(d) \/ ProcSetup(d) \/ SetDrvdata(d) \/ Unbind(d)
         \/ Undo(d, "err_device_destroy", "node", "err_cdev_del")
         \/ Undo(d, "err_cdev_del", "cdev", "err_free_minor")
         \/ Undo(d, "rm_proc", "proc", "rm_irq") \/ Undo(d, "rm_irq", "irq", "rm_node")
         \/ Undo(d, "rm_node", "node", "rm_cdev") \/ Undo(d, "rm_cdev", "cdev", "rm_minor")
  PROVE  /\ UNCHANGED minors
         /\ \A e \in Devices : "minor" \in held'[e] <=> "minor" \in held[e]
         /\ \A e \in Devices : at'[e] = "set" <=> at[e] = "set"
BY DEF IndInv, TypeOK, Probe, AllocPage, SpiSetup, CdevAdd, DeviceCreate, SetupGpio, ProcSetup,
       SetDrvdata, Unbind, Undo, Step, Go, Take, Release, minors

LEMMA LockStep == IndInv /\ [Next]_vars => LockInv'
<1> SUFFICES ASSUME IndInv, [Next]_vars PROVE LockInv'
  OBVIOUS
<1> USE DEF IndInv, TypeOK, LockInv, minors
<1>1. CASE Load \/ ModuleInit \/ Unload \/ ModuleExit \/ CloseOrphan \/ UNCHANGED vars
  <2>1. UNCHANGED <<at, held, minors>>
    BY <1>1 DEF Load, ModuleInit, Unload, ModuleExit, CloseOrphan, Acquire, Drop, vars
  <2> QED BY <2>1
<1>2. ASSUME NEW d \in Devices, Open(d) \/ Close(d) PROVE LockInv'
  BY <1>2 DEF Open, Close
<1>3. ASSUME NEW d \in Devices, FindMinor(d) PROVE LockInv'
  <2>1. ~NoneFree(FirstFree) => FirstFree \in Minors \ minorMap
    BY FirstFreeIsFree, MaxAssumption DEF NoneFree, Minors, MaxAssumption
  <2>2. "minor" \notin held[d]
    BY <1>3 DEF FindMinor, HeldInv, HeldAt, MinorSteps, CdevSteps, NodeSteps, IrqSteps
  <2>3. \A e \in Devices : at[e] # "set"
    BY <1>3, DeviceAssumption DEF FindMinor, LockMinors, DeviceAssumption
  <2> QED BY <1>3, <2>1, <2>2, <2>3, DeviceAssumption DEF FindMinor, Go, LockMinors, DeviceAssumption
<1>4. ASSUME NEW d \in Devices, SetMinor(d) PROVE LockInv'
  BY <1>4, DeviceAssumption DEF SetMinor, Go, Take, DeviceAssumption
<1>5. ASSUME NEW d \in Devices, NEW step \in {"err_free_minor", "rm_minor"},
             NEW next \in {"err_free_pages", "rm_page"}, FreeMinor(d, step, next)
      PROVE LockInv'
  BY <1>5, DeviceAssumption DEF FreeMinor, Go, Release, DeviceAssumption
<1>6. ASSUME NEW d \in Devices, NEW step \in {"err_free_pages", "rm_page"}, FreePages(d, step)
      PROVE LockInv'
  <2>1. "minor" \notin held[d]
    BY <1>6 DEF FreePages, HeldInv, HeldAt, MinorSteps, CdevSteps, NodeSteps, IrqSteps
  <2> QED BY <1>6, <2>1 DEF FreePages, Go
<1>7. ASSUME NEW d \in Devices,
             UNCHANGED minors,
             \A e \in Devices : "minor" \in held'[e] <=> "minor" \in held[e],
             \A e \in Devices : at'[e] = "set" <=> at[e] = "set"
      PROVE LockInv'
  BY <1>7
<1> QED BY <1>1, <1>2, <1>3, <1>4, <1>5, <1>6, <1>7, QuietSteps
        DEF Next, DeviceStep, ProbeStep, Unwind, Remove

\* Only the store of a number that is free and the release of a number that is
\* nobody else's change the map.
LEMMA MapStep == IndInv /\ [Next]_vars => MinorsExact'
<1> SUFFICES ASSUME IndInv, [Next]_vars PROVE MinorsExact'
  OBVIOUS
<1> USE DEF IndInv, TypeOK, MinorsExact, minors
<1>1. CASE Load \/ ModuleInit \/ Unload \/ ModuleExit \/ CloseOrphan \/ UNCHANGED vars
  <2>1. UNCHANGED <<held, minors>>
    BY <1>1 DEF Load, ModuleInit, Unload, ModuleExit, CloseOrphan, Acquire, Drop, vars
  <2> QED BY <2>1
<1>2. ASSUME NEW d \in Devices, Open(d) \/ Close(d) PROVE MinorsExact'
  BY <1>2 DEF Open, Close
<1>3. ASSUME NEW d \in Devices, "minor" \notin held[d],
             \A e \in Devices : e # d => minor'[e] = minor[e],
             UNCHANGED minorMap,
             \A e \in Devices : "minor" \in held'[e] <=> "minor" \in held[e]
      PROVE MinorsExact'
  BY <1>3
<1>4. ASSUME NEW d \in Devices, FindMinor(d) PROVE MinorsExact'
  <2>1. "minor" \notin held[d]
    BY <1>4 DEF FindMinor, HeldInv, HeldAt, MinorSteps, CdevSteps, NodeSteps, IrqSteps
  <2> QED BY <1>3, <1>4, <2>1 DEF FindMinor
<1>5. ASSUME NEW d \in Devices, NEW step \in {"err_free_pages", "rm_page"}, FreePages(d, step)
      PROVE MinorsExact'
  <2>1. "minor" \notin held[d]
    BY <1>5 DEF FreePages, HeldInv, HeldAt, MinorSteps, CdevSteps, NodeSteps, IrqSteps
  <2> QED BY <1>3, <1>5, <2>1 DEF FreePages
<1>6. ASSUME NEW d \in Devices, SetMinor(d) PROVE MinorsExact'
  <2>1. minor[d] \in Minors \ minorMap
    BY <1>6 DEF SetMinor, LockInv
  <2>2. \A e \in Devices : "minor" \in held'[e] <=> e = d \/ "minor" \in held[e]
    BY <1>6 DEF SetMinor, Take
  <2>3. minorMap' \subseteq Minors
    BY <1>6, <2>1 DEF SetMinor
  <2> QED BY <1>6, <2>1, <2>2, <2>3 DEF SetMinor
<1>7. ASSUME NEW d \in Devices, NEW step \in {"err_free_minor", "rm_minor"},
             NEW next \in {"err_free_pages", "rm_page"}, FreeMinor(d, step, next)
      PROVE MinorsExact'
  <2>1. "minor" \in held[d]
    BY <1>7 DEF FreeMinor, HeldInv, HeldAt, MinorSteps
  <2>2. \A e \in Devices : "minor" \in held'[e] <=> e # d /\ "minor" \in held[e]
    BY <1>7 DEF FreeMinor, Release
  <2> QED BY <1>7, <2>1, <2>2 DEF FreeMinor
<1>8. ASSUME NEW d \in Devices,
             UNCHANGED minors,
             \A e \in Devices : "minor" \in held'[e] <=> "minor" \in held[e]
      PROVE MinorsExact'
  BY <1>8
<1> QED BY <1>1, <1>2, <1>4, <1>5, <1>6, <1>7, <1>8, QuietSteps
        DEF Next, DeviceStep, ProbeStep, Unwind, Remove

----------------------------------------------------------------------------
(* Open files. *)

LEMMA OpenStep == IndInv /\ [Next]_vars => OpenInv'
<1> SUFFICES ASSUME IndInv, [Next]_vars PROVE OpenInv'
  OBVIOUS
<1> USE DEF IndInv, TypeOK, OpenInv, files
<1>1. CASE Load \/ ModuleInit \/ ModuleExit
  <2>1. UNCHANGED files /\ mod # "in"
    BY <1>1 DEF Load, ModuleInit, ModuleExit, Acquire, Drop
  <2> QED BY <2>1
<1>2. CASE Unload
  BY <1>2 DEF Unload, ModuleInUse
<1>3. CASE CloseOrphan
  BY <1>3 DEF CloseOrphan
<1>4. ASSUME NEW d \in Devices, Open(d) \/ Close(d) PROVE OpenInv'
  BY <1>4 DEF Open, Close
<1>5. ASSUME NEW d \in Devices, NEW step \in {"err_free_pages", "rm_page"}, FreePages(d, step)
      PROVE OpenInv'
  BY <1>5 DEF FreePages
<1>6. CASE UNCHANGED <<mod, files>>
  BY <1>6
<1>7. ASSUME NEW d \in Devices, Probe(d) \/ ProbeStep(d) \/ Unbind(d)
      PROVE UNCHANGED <<mod, files>>
  BY <1>7 DEF Probe, ProbeStep, AllocPage, SpiSetup, FindMinor, SetMinor, CdevAdd,
              DeviceCreate, SetupGpio, ProcSetup, SetDrvdata, Step, Unbind
<1>8. ASSUME NEW d \in Devices, Unwind(d) \/ Remove(d)
      PROVE \/ UNCHANGED <<mod, files>>
            \/ \E step \in {"err_free_pages", "rm_page"} : FreePages(d, step)
  BY <1>8 DEF Unwind, Remove, Undo, FreeMinor
<1> QED BY <1>1, <1>2, <1>3, <1>4, <1>5, <1>6, <1>7, <1>8 DEF Next, DeviceStep, vars

----------------------------------------------------------------------------
(* Theorems of the specification. *)

LEMMA InitInv == Init => IndInv
<1> SUFFICES ASSUME Init PROVE IndInv
  OBVIOUS
<1> USE DEF Init
<1>1. TypeOK
  BY DEF TypeOK, ModSteps
<1>2. ModuleInv /\ OpenInv
  BY DEF ModuleInv, Acquired, OpenInv
<1>3. HeldInv
  BY DEF HeldInv, HeldAt, PageSteps, SpiSteps, MinorSteps, CdevSteps, NodeSteps, IrqSteps
<1>4. LockInv
  BY DeviceAssumption DEF LockInv, DeviceAssumption
<1>5. MinorsExact
  BY DEF MinorsExact
<1> QED BY <1>1, <1>2, <1>3, <1>4, <1>5 DEF IndInv

LEMMA Inductive == Spec => []IndInv
<1>1. IndInv /\ [Next]_vars => IndInv'
  BY TypeStep, ModuleStep, HeldStep, LockStep, MapStep, OpenStep DEF IndInv
<1> QED BY InitInv, <1>1, PTL DEF Spec

\* The values of every variable, for any number of devices and minors: in
\* particular the number a search stores is below ABLSPI_MAX_DEVICES.
THEOREM DeviceTypes == Spec => []TypeOK
BY Inductive, PTL DEF IndInv

\* ablspi_minor_alloc and ablspi_minor_free: the bitmap is the set of the numbers
\* in use and no two devices share one, for any number of devices that probe,
\* fail and go at the same time.
THEOREM MinorsAreExact == Spec => []MinorsExact
BY Inductive, PTL DEF IndInv

\* Probe, its labels and remove acquire and release in an order in which nothing
\* visible lacks what it works on.
THEOREM NothingEverDangles == Spec => []NothingDangles
<1>1. IndInv => NothingDangles
  BY DEF IndInv, TypeOK, ModuleInv, Acquired, Globals, HeldInv, HeldAt, NothingDangles,
         PageSteps, SpiSteps, MinorSteps, CdevSteps, NodeSteps, IrqSteps
<1> QED BY <1>1, Inductive, PTL

\* A probe that fails at any step, and remove, leave the device with nothing;
\* ablspi_init, when it fails, and ablspi_exit leave the module with nothing.
THEOREM NothingEverLeaks == Spec => []NothingLeaks
<1>1. ASSUME IndInv PROVE NothingLeaks
  <2> USE <1>1 DEF IndInv
  <2>1. ASSUME NEW d \in Devices, at[d] = "unbound" PROVE held[d] = {}
    BY <2>1 DEF TypeOK, Resources, HeldInv, HeldAt, PageSteps, SpiSteps, MinorSteps,
                CdevSteps, NodeSteps, IrqSteps
  <2>2. ASSUME mod = "out" PROVE globals = {} /\ \A d \in Devices : held[d] = {}
    BY <2>1, <2>2 DEF ModuleInv, Acquired
  <2>3. mod = "out" => minorMap = {}
    BY <2>2 DEF MinorsExact
  <2> QED BY <2>1, <2>2, <2>3 DEF NothingLeaks
<1> QED BY <1>1, Inductive, PTL

\* A file keeps the module in (cdev.owner), so that only an unbind by hand or a
\* failed probe takes a device from under one, never the unloading.
THEOREM UnloadIsSafe == Spec => UnloadOrphansNobody
<1>1. ASSUME IndInv, [Next]_vars PROVE orphans' > orphans => mod = "in"
  <2> USE <1>1 DEF IndInv, TypeOK, OpenInv, files
  <2>1. ASSUME NEW d \in Devices, NEW step \in {"err_free_pages", "rm_page"},
               FreePages(d, step), mod # "in"
        PROVE orphans' = orphans
    BY <2>1 DEF FreePages
  <2>2. ASSUME NEW d \in Devices, Unwind(d) \/ Remove(d)
        PROVE \/ UNCHANGED orphans
              \/ \E step \in {"err_free_pages", "rm_page"} : FreePages(d, step)
    BY <2>2 DEF Unwind, Remove, Undo, FreeMinor
  <2>3. ASSUME NEW d \in Devices, Probe(d) \/ ProbeStep(d) \/ Unbind(d) \/ Open(d) \/ Close(d)
        PROVE UNCHANGED orphans
    BY <2>3 DEF Probe, ProbeStep, AllocPage, SpiSetup, FindMinor, SetMinor, CdevAdd,
                DeviceCreate, SetupGpio, ProcSetup, SetDrvdata, Step, Unbind, Open, Close
  <2>4. CASE Load \/ ModuleInit \/ Unload \/ ModuleExit \/ UNCHANGED vars
    BY <2>4 DEF Load, ModuleInit, Unload, ModuleExit, Acquire, Drop, vars
  <2>5. CASE CloseOrphan
    BY <2>5 DEF CloseOrphan
  <2> QED BY <1>1, <2>1, <2>2, <2>3, <2>4, <2>5 DEF Next, DeviceStep
<1> QED BY <1>1, Inductive, PTL DEF Spec, UnloadOrphansNobody
=============================================================================
