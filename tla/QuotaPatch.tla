----------------------------- MODULE QuotaPatch -----------------------------
(***************************************************************************)
(* src/scripts/fix-move-manager-quota.sh: two edits to                     *)
(* /opt/move/MoveWebService, made on a copy that is verified and then put  *)
(* in place, a backup that is made once, and the way back.  Between two    *)
(* runs a firmware update may replace the binary.                          *)
(*                                                                         *)
(* The script runs under "set -euo pipefail": a command that fails, and a  *)
(* pipeline one of whose commands fails, ends it at once.                  *)
(***************************************************************************)
EXTENDS Integers

CONSTANTS
  Address, Off,   \* where .text of MoveWebService is loaded and where it is in the file
  Sizes,          \* how long .text may be
  NoFile, Torn,   \* no such file; a copy that was cut off
  MaxLeftovers    \* bound: copies that earlier runs left behind

Sites == {"A", "B"}

VARIABLES
  at,          \* where the script is: "idle", a stage, or its end "ok" | "failed"
  want,        \* "patch", "dry-run", "rollback", "rollback dry-run"
  binary,      \* $BINARY
  orig,        \* $BINARY.orig
  tmp,         \* $TMP of this run
  leftovers,   \* copies of earlier runs
  serving,     \* does the running service execute $BINARY as it is now?
  clean,       \* nothing around the script has failed in this run
  fit          \* this run started with a binary that has the expected bytes

files == <<binary, orig, tmp, leftovers>>
vars == <<at, want, files, serving, clean, fit>>

\* A version of the binary: has it the expected bytes at both sites, and how long
\* is its .text?
Firmware == [known : BOOLEAN, size : Sizes]
Image(f, edits) == [fw |-> f, edits |-> edits]

Whole(file) == file \notin {NoFile, Torn}

\* The bytes at both sites are those before, or those after the patch.
Unpatched(file) == Whole(file) /\ file.fw.known /\ file.edits = {}
Patched(file) == Whole(file) /\ file.fw.known /\ file.edits = Sites

\* The offsets of the sites are their addresses less DELTA, which should be
\* Address - Off.  awk prints the fifth and the sixth column of readelf's table:
\* those are Off and Size, for the name is the second column and the address the
\* fourth (from section 10 on; before that the number takes up two columns, the
\* name is not found, and read ends the script).
Delta(file) == Off - file.fw.size
ReadsSites(file) == Whole(file) /\ Delta(file) = Address - Off

Init ==
  /\ at = "idle" /\ want = "patch"
  /\ \E f \in Firmware : binary = Image(f, {})
  /\ orig = NoFile /\ tmp = NoFile /\ leftovers = 0
  /\ serving = TRUE /\ clean = TRUE /\ fit = FALSE

At(stage) == at = stage
Goto(stage) == at' = stage

\* The arguments, and the branch on --rollback.
Run ==
  /\ at \in {"idle", "ok", "failed"}
  /\ leftovers < MaxLeftovers
  /\ \E w \in {"patch", "dry-run", "rollback", "rollback dry-run"} :
       /\ want' = w
       /\ Goto(IF w \in {"patch", "dry-run"} THEN "check" ELSE "rollback")
  /\ clean' = TRUE /\ fit' = Unpatched(binary)
  /\ tmp' = NoFile /\ leftovers' = leftovers + (IF tmp = NoFile THEN 0 ELSE 1)
  /\ UNCHANGED <<binary, orig, serving>>

\* cp -a over the binary: refused while the service executes the file, and cut
\* off when the card is full.
CopyToBinary(file, next) ==
  \/ ~serving /\ binary' = file /\ Goto(next) /\ UNCHANGED clean
  \/ serving /\ Goto("failed") /\ clean' = FALSE /\ UNCHANGED binary
  \/ ~serving /\ binary' = Torn /\ Goto("failed") /\ clean' = FALSE

RollBack ==
  /\ At("rollback")
  /\ \/ orig = NoFile /\ Goto("failed") /\ UNCHANGED <<binary, clean>>
     \/ orig # NoFile /\ want = "rollback dry-run" /\ Goto("ok")
          /\ UNCHANGED <<binary, clean>>
     \/ orig # NoFile /\ want = "rollback" /\ CopyToBinary(orig, "restart")
  /\ UNCHANGED <<want, orig, tmp, leftovers, serving, fit>>

\* Already patched, or not the known bytes, or only a dry run.  At any other
\* offset the file has bytes of another kind.
CheckBytes ==
  /\ At("check")
  /\ \/ ReadsSites(binary) /\ Patched(binary) /\ Goto("ok")
     \/ /\ ReadsSites(binary) /\ Unpatched(binary)
        /\ Goto(IF want = "dry-run" THEN "ok" ELSE "back up")
     \/ ~(ReadsSites(binary) /\ (Patched(binary) \/ Unpatched(binary))) /\ Goto("failed")
  /\ UNCHANGED <<want, files, serving, clean, fit>>

\* The backup is made once and never looked at again.
BackUp ==
  /\ At("back up")
  /\ \/ orig # NoFile /\ Goto("copy") /\ UNCHANGED <<orig, clean>>
     \/ orig = NoFile /\ orig' = binary /\ Goto("copy") /\ UNCHANGED clean
     \/ orig = NoFile /\ orig' = Torn /\ Goto("failed") /\ clean' = FALSE
  /\ UNCHANGED <<want, binary, tmp, leftovers, serving, fit>>

\* The copy, and both edits.  A failing dd ends the script with the copy as it is.
CopyAndEdit ==
  /\ At("copy")
  /\ \/ tmp' = [binary EXCEPT !.edits = Sites] /\ Goto("compare") /\ UNCHANGED clean
     \/ /\ tmp' \in {Torn} \cup {[binary EXCEPT !.edits = e] : e \in {{}, {"A"}}}
        /\ Goto("failed") /\ clean' = FALSE
  /\ UNCHANGED <<want, binary, orig, leftovers, serving, fit>>

\* Both sites are read back, then the backup and the copy compared.  cmp ends
\* with status 1 when they differ, which is the status of the pipeline, and of
\* the assignment: the script ends here.  With no difference it goes on.
Compare ==
  /\ At("compare")
  /\ \/ orig # tmp /\ Goto("failed")
     \/ orig = tmp /\ Goto("stop")
  /\ UNCHANGED <<want, files, serving, clean, fit>>

\* The unit is found, or not: "grep -q" may end before systemctl has written
\* everything, and the pipeline then counts as failed.
StopService ==
  /\ At("stop")
  /\ serving' \in {serving, FALSE}
  /\ Goto("install")
  /\ UNCHANGED <<want, files, clean, fit>>

Install ==
  /\ At("install")
  /\ CopyToBinary(tmp, "restart")
  /\ tmp' = IF at' = "restart" THEN NoFile ELSE tmp
  /\ UNCHANGED <<want, orig, leftovers, serving, fit>>

\* restart_service: the unit is restarted and active, or not found, or fails.
Restart ==
  /\ At("restart")
  /\ \/ serving' = Whole(binary) /\ Goto("ok") /\ UNCHANGED clean
     \/ Goto("ok") /\ UNCHANGED <<serving, clean>>
     \/ serving' = FALSE /\ Goto("failed") /\ clean' = FALSE
  /\ UNCHANGED <<want, files, fit>>

\* The power is cut.  After the boot the service runs what is there.
PowerCut ==
  /\ at \notin {"idle", "ok", "failed"}
  /\ Goto("idle") /\ clean' = FALSE
  /\ serving' = Whole(binary)
  /\ UNCHANGED <<want, files, fit>>

\* The swupdate shim makes /opt/move what the image has (rsync --delete): the
\* backup and the copies go too.
FirmwareUpdate ==
  /\ at \in {"idle", "ok", "failed"}
  /\ Goto("idle")
  /\ \E f \in Firmware : binary' = Image(f, {})
  /\ orig' = NoFile /\ tmp' = NoFile /\ leftovers' = 0
  /\ serving' \in BOOLEAN
  /\ UNCHANGED <<want, clean, fit>>

Next ==
  \/ Run \/ RollBack \/ CheckBytes \/ BackUp \/ CopyAndEdit \/ Compare
  \/ StopService \/ Install \/ Restart \/ PowerCut \/ FirmwareUpdate

Spec == Init /\ [][Next]_vars

-----------------------------------------------------------------------------
\* A run that means to patch a binary with the expected bytes at both sites, and
\* in which no command fails for a reason outside the script, ends with the patch
\* in place, which is what the script is there for ("Patches
\* /opt/move/MoveWebService"), with offsets "derived from the ELF .text section".
PatchTakes ==
  at \in {"ok", "failed"} /\ want = "patch" /\ fit /\ clean => Patched(binary)
=============================================================================
