--------------------------- MODULE FactoryReset ----------------------------
(***************************************************************************)
(* factoryReset of move-update-dbus.py, which stops the launcher, wipes    *)
(* what it is told to, makes UserData anew and starts the launcher, while  *)
(* move-swupdate-shim.py may restart the launcher after an update.         *)
(*                                                                         *)
(* systemd is external: a stop waits until the launcher is down and ends a *)
(* restart under way, and a restart by systemd itself ("waiting") too.     *)
(***************************************************************************)
EXTENDS Naturals

CONSTANT MaxFaults   \* bound: failing calls, killed services and power cuts

VARIABLES
  launcher,         \* "up" | "waiting" | "stopping" | "restarting" | "down"
  handler,          \* where factoryReset is
  wipes,            \* is UserData one of its categories?
  held,             \* did its systemctl stop do what it was asked?
  home, homeDisk,   \* UserData and its state on the disk: "ours" | "root" | "none"
  smooth,           \* nothing failed since the last reset of UserData began
  faults

resetVars == <<launcher, handler, wipes, held, home, homeDisk, smooth>>

Init ==
  /\ launcher = "up" /\ handler = "idle" /\ wipes = FALSE /\ held = FALSE
  /\ home = "ours" /\ homeDisk = "ours" /\ smooth = TRUE

Fault == faults < MaxFaults /\ faults' = faults + 1 /\ smooth' = FALSE
NoFault == UNCHANGED <<faults, smooth>>

-----------------------------------------------------------------------------
(* factoryReset. *)

Call ==
  /\ handler = "idle" /\ handler' = "stop"
  /\ wipes' \in BOOLEAN /\ smooth' = (smooth \/ wipes')
  /\ UNCHANGED <<launcher, held, home, homeDisk, faults>>

\* subprocess.run waits for systemctl stop, whose result nobody looks at.
Stop ==
  /\ handler = "stop"
  /\ \/ /\ NoFault
        /\ handler' = "stopping" /\ held' = TRUE
        /\ launcher' = IF launcher \in {"up", "restarting"} THEN "stopping"
                       ELSE IF launcher = "waiting" THEN "down" ELSE launcher
     \/ /\ Fault
        /\ handler' = (IF wipes THEN "wipe" ELSE "start") /\ held' = FALSE
        /\ UNCHANGED launcher
  /\ UNCHANGED <<wipes, home, homeDisk>>

Stopped ==
  /\ handler = "stopping" /\ launcher = "down" /\ NoFault
  /\ handler' = IF wipes THEN "wipe" ELSE "start"
  /\ UNCHANGED <<launcher, wipes, held, home, homeDisk>>

\* The directory is made inside the test that it exists, a variant for the
\* mutation checks.
WipeThenMake ==
  /\ handler = "wipe" /\ NoFault
  /\ \/ home # "none" /\ handler' = "make" /\ home' \in {home, "none"}
     \/ home = "none" /\ handler' = "start" /\ UNCHANGED home
  /\ UNCHANGED <<launcher, wipes, held, homeDisk>>

\* rmtree ignores errors, so it may leave the directory where it is.
Wipe ==
  /\ handler = "wipe" /\ NoFault
  /\ handler' = "make" /\ home' \in {home, "none"}
  /\ UNCHANGED <<launcher, wipes, held, homeDisk>>

\* What makedirs raises ends the call, with the launcher stopped.
MakeHome ==
  /\ handler = "make"
  /\ \/ NoFault /\ handler' = "own" /\ home' = IF home = "none" THEN "root" ELSE home
     \/ Fault /\ handler' = "idle" /\ UNCHANGED home
  /\ UNCHANGED <<launcher, wipes, held, homeDisk>>

\* What chown and chmod raise is logged.
OwnHome ==
  /\ handler = "own" /\ handler' = "start"
  /\ \/ NoFault /\ home' = "ours"
     \/ Fault /\ UNCHANGED home
  /\ UNCHANGED <<launcher, wipes, held, homeDisk>>

Start ==
  /\ handler = "start" /\ handler' = "idle"
  /\ \/ NoFault /\ launcher' = IF launcher = "down" THEN "up" ELSE launcher
     \/ Fault /\ UNCHANGED launcher
  /\ UNCHANGED <<wipes, held, home, homeDisk>>

\* The service is killed; started again, it knows nothing of the call.
Kill ==
  /\ handler # "idle" /\ Fault
  /\ handler' = "idle"
  /\ UNCHANGED <<launcher, wipes, held, home, homeDisk>>

-----------------------------------------------------------------------------
(* The launcher and its other user. *)

\* systemctl restart, a variant for the mutation checks.
RestartAlways ==
  /\ launcher \in {"up", "waiting", "down"} /\ NoFault
  /\ launcher' = IF launcher = "up" THEN "restarting" ELSE "up"
  /\ UNCHANGED <<handler, wipes, held, home, homeDisk>>

\* systemctl try-restart leaves alone a unit that is down or going down.
TryRestart ==
  /\ launcher \in {"up", "waiting"} /\ NoFault
  /\ launcher' = IF launcher = "up" THEN "restarting" ELSE "up"
  /\ UNCHANGED <<handler, wipes, held, home, homeDisk>>

\* The process is gone: it crashes and waits for RestartSec, or a stop or a restart
\* has had its way.
Exit ==
  /\ launcher \in {"up", "stopping", "restarting"} /\ NoFault
  /\ launcher' = CASE launcher = "up" -> "waiting"
                   [] launcher = "stopping" -> "down"
                   [] launcher = "restarting" -> "up"
  /\ UNCHANGED <<handler, wipes, held, home, homeDisk>>

AutoRestart ==
  /\ launcher = "waiting" /\ NoFault
  /\ launcher' = "up"
  /\ UNCHANGED <<handler, wipes, held, home, homeDisk>>

WriteBack ==
  /\ homeDisk' = home /\ NoFault
  /\ UNCHANGED <<launcher, handler, wipes, held, home>>

\* The next boot starts the launcher, whatever is left of UserData.
PowerCut ==
  /\ Fault
  /\ launcher' = "up" /\ handler' = "idle" /\ home' = homeDisk
  /\ UNCHANGED <<wipes, held, homeDisk>>

Next == \/ Call \/ Stop \/ Stopped \/ Wipe \/ MakeHome \/ OwnHome \/ Start \/ Kill
        \/ TryRestart \/ Exit \/ AutoRestart \/ WriteBack \/ PowerCut

Spec == Init /\ faults = 0 /\ [][Next]_<<resetVars, faults>>

-----------------------------------------------------------------------------
TypeOK ==
  /\ launcher \in {"up", "waiting", "stopping", "restarting", "down"}
  /\ handler \in {"idle", "stop", "stopping", "wipe", "make", "own", "start"}
  /\ wipes \in BOOLEAN /\ held \in BOOLEAN /\ smooth \in BOOLEAN
  /\ home \in {"ours", "root", "none"} /\ homeDisk \in {"ours", "root", "none"}

\* Nothing is wiped under a running launcher, unless the stop was refused: neither
\* its own restart nor that of an update brings it up in between.
QuietWipe ==
  held /\ handler \in {"wipe", "make", "own", "start"} => launcher = "down"

\* After a reset of UserData that nothing cut short, whatever was cut short before
\* it, UserData is there for the launcher and the launcher is not left down.
ResetRestores ==
  handler = "idle" /\ smooth => home = "ours" /\ launcher \notin {"down", "stopping"}
=============================================================================
