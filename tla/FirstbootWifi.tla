--------------------------- MODULE FirstbootWifi ---------------------------
(***************************************************************************)
(* firstboot-wifi.sh: the credentials file the operator put on the FAT     *)
(* partition becomes NetworkManager's key file and is wiped.               *)
(*                                                                         *)
(* A file has a copy the system reads and one on the disk.  Only shred     *)
(* waits for the disk; what else is written gets there some time later,    *)
(* and what is not there when the power fails is gone.                     *)
(***************************************************************************)
EXTENDS Naturals

CONSTANT MaxFaults   \* bound: failing commands, killed scripts and power cuts

VARIABLES
  cfg, cfgDisk,   \* move-wifi.txt: "none" | "full" | "blank" | "noise"
  key, keyDisk,   \* the key file:  "none" | "full" | "part"
  step,           \* where the script is
  faults

wifiVars == <<cfg, cfgDisk, key, keyDisk, step>>

Init ==
  /\ cfg \in {"none", "full", "blank"} /\ cfgDisk = cfg
  /\ key \in {"none", "full"} /\ keyDisk = key /\ step = "off"

Running == {"read", "create", "fill", "protect", "shred", "unlink", "rm"}

Fault == faults < MaxFaults /\ faults' = faults + 1
NoFault == UNCHANGED faults

-----------------------------------------------------------------------------
\* ConditionPathExists, and the first test of the script.
Boot ==
  /\ step = "off" /\ NoFault
  /\ step' = IF cfg = "none" THEN "done" ELSE "read"
  /\ UNCHANGED <<cfg, cfgDisk, key, keyDisk>>

\* The script in the order wipe, write, a variant for the mutation checks.
ReadWipesFirst ==
  /\ step = "read" /\ NoFault
  /\ step' = IF cfg = "full" THEN "create" ELSE "failed"
  /\ cfg' = "none"
  /\ UNCHANGED <<cfgDisk, key, keyDisk>>

\* An empty SSID or PSK, and what shred left of a file, give nothing to write.
Read ==
  /\ step = "read" /\ NoFault
  /\ step' = IF cfg = "full" THEN "create" ELSE "failed"
  /\ UNCHANGED <<cfg, cfgDisk, key, keyDisk>>

\* The redirection empties the key file before cat fills it.
Create ==
  /\ step = "create" /\ NoFault
  /\ key' = "part" /\ step' = "fill"
  /\ UNCHANGED <<cfg, cfgDisk, keyDisk>>

Fill ==
  /\ step = "fill" /\ NoFault
  /\ key' = "full" /\ step' = "protect"
  /\ UNCHANGED <<cfg, cfgDisk, keyDisk>>

\* chmod, chown, and the regulatory domain.
Protect ==
  /\ step = "protect" /\ NoFault
  /\ step' = "shred"
  /\ UNCHANGED <<cfg, cfgDisk, key, keyDisk>>

\* shred -u overwrites the file, on the disk too, and unlinks it.
Shred ==
  /\ step = "shred" /\ NoFault
  /\ cfg' = "noise" /\ cfgDisk' = "noise" /\ step' = "unlink"
  /\ UNCHANGED <<key, keyDisk>>

Unlink ==
  /\ step \in {"unlink", "rm"} /\ NoFault
  /\ cfg' = "none" /\ step' = "done"
  /\ UNCHANGED <<cfgDisk, key, keyDisk>>

\* shred || rm -f: when shred fails at either of its two steps, rm has its turn.
ShredFails ==
  /\ step \in {"shred", "unlink"} /\ Fault
  /\ step' = "rm"
  /\ UNCHANGED <<cfg, cfgDisk, key, keyDisk>>

\* set -e, or a signal; the unit is not started again before the next boot.
Fail ==
  /\ step \in Running /\ Fault
  /\ step' = "failed"
  /\ UNCHANGED <<cfg, cfgDisk, key, keyDisk>>

-----------------------------------------------------------------------------
WriteBack ==
  /\ \/ cfgDisk' = cfg /\ UNCHANGED keyDisk
     \/ keyDisk' = key /\ UNCHANGED cfgDisk
  /\ NoFault
  /\ UNCHANGED <<cfg, key, step>>

PowerCut ==
  /\ step # "off" /\ Fault
  /\ cfg' = cfgDisk /\ key' = keyDisk /\ step' = "off"
  /\ UNCHANGED <<cfgDisk, keyDisk>>

\* An orderly shutdown, and the operator, who may put new credentials on the card.
Shutdown ==
  /\ step \in {"done", "failed"} /\ NoFault
  /\ step' = "off" /\ cfg' \in {cfg, "full"}
  /\ cfgDisk' = cfg' /\ keyDisk' = key
  /\ UNCHANGED key

Next == \/ Boot \/ Read \/ Create \/ Fill \/ Protect \/ Shred \/ Unlink
        \/ ShredFails \/ Fail \/ WriteBack \/ PowerCut \/ Shutdown

Spec == Init /\ faults = 0 /\ [][Next]_<<wifiVars, faults>>

-----------------------------------------------------------------------------
TypeOK ==
  /\ {cfg, cfgDisk} \subseteq {"none", "full", "blank", "noise"}
  /\ {key, keyDisk} \subseteq {"none", "full", "part"}
  /\ step \in Running \cup {"off", "done", "failed"}

\* While the board runs, the credentials are lost in one way only: the power fails
\* when the key file was complete but had not reached the disk and the wipe had.  A
\* command that fails, or a script that is killed, leaves one complete copy.
CredentialsKept ==
  [][(cfg = "full" \/ key = "full") /\ ~(cfg' = "full" \/ key' = "full")
       => step' = "off" /\ key = "full" /\ keyDisk # "full"]_<<wifiVars, faults>>
=============================================================================
