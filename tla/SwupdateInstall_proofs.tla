----------------------- MODULE SwupdateInstall_proofs -----------------------
(***************************************************************************)
(* Proofs about the installation of a .swu file, for any payloads, any     *)
(* number of them and any number of scripts.                               *)
(***************************************************************************)
EXTENDS SwupdateInstall, SequenceTheorems, TLAPS

Outcomes == {"success", "failure"}

\* What the steps need to know of the types; the percentages are left out.
Kinds ==
  /\ files \in Seq(Payloads) /\ scripts \in Nat
  /\ pc \in Stages /\ item \in Nat \ {0}
  /\ result \in Outcomes /\ synced \in Outcomes
  /\ verdict \in {"none", "raised"} \cup Outcomes /\ opt \in {"old", "mixed", "new"}

Before == pc \in {"begin", "extract", "describe", "verify", "parse", "hash"}
InPayload == pc \in {"unpack", "free", "mount", "mounting", "opt", "libs", "data", "unmount"}
WithImage == pc \in {"opt", "libs", "data", "unmount"}
PastHash == pc \in {"next", "script"} \/ InPayload

\* What each stage may count on.
StagesHold ==
  /\ InPayload => item \in 1..Len(files) /\ files[item].kind = "raw"
  /\ Before => opt = "old" /\ placed = {} /\ unpacked = {} /\ mntdirs = {} /\ mounted = {} /\ ~saved
  /\ pc = "begin" => ~workdir
  /\ pc = "next" \/ InPayload => placed \subseteq 1..(item - 1)
  /\ pc # "over" => verdict = "none"
  /\ pc = "over" => \/ verdict = result
                    \/ verdict = "raised" /\ mntdirs = {} /\ mounted = {} /\ ~workdir /\ ~saved

\* The upload is not needed once it has been extracted: what is unpacked finds it
\* gone.  A packed form that is still there next to the unpacked one is that of a
\* payload in hand, of one that failed before, or could not be deleted.
RoomHolds ==
  /\ pc \in {"verify", "parse", "hash"} \/ PastHash \/ unpacked # {}
       => ~swu \/ <<"upload", 0>> \in refused
  /\ \A i \in arrived \cap unpacked :
       \/ files[i].kind = "archive" \/ (i = item /\ pc = "free") \/ <<"packed", i>> \in refused
       \/ result = "failure" /\ i \notin placed /\ (pc = "next" \/ InPayload => i \in 1..(item - 1))

\* Who has a mount point to remove, a working directory, a copy of the upload.
TraceHolds ==
  /\ \A i \in mounted : <<"umount", i>> \in refused \/ (WithImage /\ i = item)
  /\ \A i \in mntdirs : \/ <<"umount", i>> \in refused \/ <<"rmdir", i>> \in refused
                        \/ (pc = "mounting" \/ WithImage) /\ i = item
                        \/ pc \in {"cleanup", "over"} /\ result = "failure" /\ i = item
  /\ pc = "over" /\ workdir => <<"workdir", 0>> \in refused
  /\ saved => pc \in {"cleanup", "over"} /\ result = "failure" /\ opt = "old" /\ placed = {}

\* A half-written /opt/move is known to the payload in hand or to the result.
MixtureKnown ==
  opt = "mixed" => \/ result = "failure"
                   \/ pc \in {"data", "unmount"} /\ synced = "failure"

Placed(n) == \A i \in 1..n : files[i].kind # "other" => i \in placed

\* As long as nothing failed, all the payloads before the one in hand are there.
PlacedSoFar ==
  result = "success" =>
    /\ pc = "next" => item <= Len(files) + 1
    /\ pc = "next" \/ InPayload => Placed(item - 1)
    /\ pc \in {"script", "cleanup", "over"} /\ verdict # "raised" => Placed(Len(files))

HashesHold ==
  PastHash \/ opt # "old" \/ placed # {} => \A i \in DOMAIN files : PayloadHashOk(files[i])

IInv == Kinds /\ StagesHold /\ RoomHolds /\ TraceHolds /\ MixtureKnown /\ PlacedSoFar /\ HashesHold

\* Stage and locals at the start.
LEMMA InitHolds == Init => IInv
<1> SUFFICES ASSUME Init PROVE IInv
    OBVIOUS
<1>1. PICK n \in 0..MaxFiles : files \in [1..n -> Payloads]
      BY DEF Init, FileLists
<1>2. files \in Seq(Payloads)
      BY <1>1, CountAssumption
<1>3. Kinds
      BY <1>2, CountAssumption DEF Init, Kinds, Stages, Outcomes
<1>4. StagesHold /\ RoomHolds /\ TraceHolds /\ MixtureKnown
      BY DEF Init, StagesHold, RoomHolds, TraceHolds, MixtureKnown, Before, InPayload, WithImage, PastHash
<1>5. PlacedSoFar /\ HashesHold
      BY DEF Init, PlacedSoFar, HashesHold, InPayload, PastHash
<1> QED BY <1>3, <1>4, <1>5 DEF IInv

USE DEF Before, InPayload, WithImage, PastHash, Goto, Return, Stages, Outcomes

\* What the end of a payload does to the locals.
LEMMA Concluded ==
  ASSUME NEW r \in Outcomes, Conclude(r), Kinds
  PROVE  /\ pc' = "next" /\ item' = item + 1 /\ result' \in Outcomes
         /\ r = "failure" => result' = "failure" /\ placed' = placed
         /\ result' = "success" => result = "success" /\ placed' = placed \cup {item}
         /\ result = "failure" => result' = "failure"
         /\ placed \subseteq 1..(item - 1) => placed' \subseteq 1..(item' - 1)
         /\ \A i \in 1..(item - 1) : i \in 1..(item' - 1) /\ (i \notin placed => i \notin placed')
<1>1. item' = item + 1 /\ placed' \in {placed, placed \cup {item}}
    BY DEF Conclude
<1>2. /\ placed \subseteq 1..(item - 1) => placed' \subseteq 1..(item' - 1)
      /\ \A i \in 1..(item - 1) : i \in 1..(item' - 1) /\ (i \notin placed => i \notin placed')
    BY <1>1 DEF Kinds
<1>3. /\ pc' = "next" /\ result' \in Outcomes
      /\ r = "failure" => result' = "failure" /\ placed' = placed
      /\ result' = "success" => result = "success" /\ placed' = placed \cup {item}
      /\ result = "failure" => result' = "failure"
    BY DEF Conclude, FailedSticks, Kinds
<1> QED BY <1>1, <1>2, <1>3

LEMMA KindsKept == IInv /\ [Next]_vars => Kinds'
<1> SUFFICES ASSUME Kinds, [Next]_vars PROVE Kinds'
    BY DEF IInv
<1> USE DEF Kinds, desc, disk, upload, work, mountpoints, RemoveMountPoint, Refused
<1>1. CASE Begin BY <1>1 DEF Begin
<1>2. CASE Extract BY <1>2 DEF Extract
<1>3. CASE Describe BY <1>3 DEF Describe
<1>4. CASE VerifySignature BY <1>4 DEF VerifySignature
<1>5. CASE Parse BY <1>5 DEF Parse
<1>6. CASE HashAll BY <1>6 DEF HashAll
<1>7. CASE SkipPayload BY <1>7 DEF SkipPayload, HasPayload
<1>8. CASE StartRaw BY <1>8, Concluded DEF StartRaw
<1>9. CASE Unpack BY <1>9, Concluded DEF Unpack
<1>10. CASE FreePacked BY <1>10 DEF FreePacked
<1>11. CASE MakeMountPoint BY <1>11 DEF MakeMountPoint
<1>12. CASE Mount BY <1>12, Concluded DEF Mount
<1>13. CASE SyncOpt BY <1>13 DEF SyncOpt
<1>14. CASE InstallMissingLibs BY <1>14 DEF InstallMissingLibs
<1>15. CASE SyncData BY <1>15 DEF SyncData
<1>16. CASE Unmount BY <1>16, Concluded DEF Unmount, Release
<1>17. CASE InstallArchive BY <1>17, Concluded DEF InstallArchive
<1>18. CASE Finalize BY <1>18 DEF Finalize
<1>19. CASE RunScript BY <1>19 DEF RunScript
<1>20. CASE Done BY <1>20 DEF Done
<1>21. CASE Raise BY <1>21 DEF Raise, Release
<1>22. CASE Cleanup BY <1>22 DEF Cleanup
<1>23. CASE UNCHANGED vars BY <1>23 DEF vars
<1> QED BY <1>1, <1>2, <1>3, <1>4, <1>5, <1>6, <1>7, <1>8, <1>9, <1>10, <1>11, <1>12, <1>13,
      <1>14, <1>15, <1>16, <1>17, <1>18, <1>19, <1>20, <1>21, <1>22, <1>23 DEF Next

LEMMA StagesKept == IInv /\ [Next]_vars => StagesHold'
<1> SUFFICES ASSUME Kinds, StagesHold, [Next]_vars PROVE StagesHold'
    BY DEF IInv
<1> USE DEF StagesHold, desc, disk, upload, work, mountpoints, RemoveMountPoint, Refused
<1>1. CASE Begin BY <1>1 DEF Begin
<1>2. CASE Extract BY <1>2 DEF Extract
<1>3. CASE Describe BY <1>3 DEF Describe
<1>4. CASE VerifySignature BY <1>4 DEF VerifySignature
<1>5. CASE Parse BY <1>5 DEF Parse
<1>6. CASE HashAll BY <1>6 DEF HashAll
<1>7. CASE SkipPayload
  <2>1. item' = item + 1 /\ placed' = placed /\ placed \subseteq 1..(item - 1)
        BY <1>7 DEF SkipPayload, HasPayload
  <2>2. placed' \subseteq 1..(item' - 1)
        BY <2>1 DEF Kinds
  <2> QED BY <1>7, <2>1, <2>2 DEF SkipPayload, HasPayload
<1>8. CASE StartRaw
  <2>1. CASE ~In.inside /\ Conclude("failure")
    <3>1. pc' = "next" /\ placed' \subseteq 1..(item' - 1)
          BY <1>8, <2>1, Concluded DEF StartRaw, HasPayload
    <3> QED BY <1>8, <3>1 DEF StartRaw, HasPayload
  <2>2. CASE In.inside /\ pc' = "unpack" /\ UNCHANGED <<result, item, placed>>
    <3>1. item \in 1..Len(files) /\ files[item].kind = "raw" /\ placed \subseteq 1..(item - 1)
          BY <1>8 DEF StartRaw, HasPayload, In, Kinds
    <3> QED BY <1>8, <2>2, <3>1 DEF StartRaw, HasPayload
  <2> QED BY <1>8, <2>1, <2>2 DEF StartRaw
<1>9. CASE Unpack BY <1>9, Concluded DEF Unpack, In
<1>10. CASE FreePacked BY <1>10 DEF FreePacked
<1>11. CASE MakeMountPoint BY <1>11 DEF MakeMountPoint
<1>12. CASE Mount BY <1>12, Concluded DEF Mount, In
<1>13. CASE SyncOpt BY <1>13 DEF SyncOpt, In
<1>14. CASE InstallMissingLibs BY <1>14 DEF InstallMissingLibs
<1>15. CASE SyncData BY <1>15 DEF SyncData, In
<1>16. CASE Unmount
  <2>1. pc' = "next" /\ placed' \subseteq 1..(item' - 1)
        BY <1>16, Concluded DEF Unmount, Kinds
  <2>2. verdict' = "none"
        BY <1>16 DEF Unmount
  <2> QED BY <2>1, <2>2
<1>17. CASE InstallArchive BY <1>17, Concluded DEF InstallArchive, HasPayload, In
<1>18. CASE Finalize BY <1>18 DEF Finalize
<1>19. CASE RunScript BY <1>19 DEF RunScript
<1>20. CASE Done BY <1>20 DEF Done
<1>21. CASE Raise BY <1>21 DEF Raise, Release
<1>22. CASE Cleanup BY <1>22 DEF Cleanup
<1>23. CASE UNCHANGED vars BY <1>23 DEF vars
<1> QED BY <1>1, <1>2, <1>3, <1>4, <1>5, <1>6, <1>7, <1>8, <1>9, <1>10, <1>11, <1>12, <1>13,
      <1>14, <1>15, <1>16, <1>17, <1>18, <1>19, <1>20, <1>21, <1>22, <1>23 DEF Next

LEMMA RoomKept == IInv /\ [Next]_vars => RoomHolds'
<1> SUFFICES ASSUME Kinds, StagesHold, RoomHolds, [Next]_vars PROVE RoomHolds'
    BY DEF IInv
<1> USE DEF RoomHolds, StagesHold, Kinds, desc, disk, upload, work, mountpoints, RemoveMountPoint, Refused
<1>1. CASE Begin BY <1>1 DEF Begin
<1>2. CASE Extract BY <1>2 DEF Extract
<1>3. CASE Describe BY <1>3 DEF Describe
<1>4. CASE VerifySignature BY <1>4 DEF VerifySignature
<1>5. CASE Parse BY <1>5 DEF Parse
<1>6. CASE HashAll BY <1>6 DEF HashAll
<1>7. CASE SkipPayload BY <1>7 DEF SkipPayload, HasPayload, In
<1>8. CASE StartRaw BY <1>8, Concluded DEF StartRaw, HasPayload, In
<1>9. CASE Unpack BY <1>9, Concluded DEF Unpack, In
<1>10. CASE FreePacked BY <1>10 DEF FreePacked
<1>11. CASE MakeMountPoint BY <1>11 DEF MakeMountPoint
<1>12. CASE Mount BY <1>12, Concluded DEF Mount
<1>13. CASE SyncOpt BY <1>13 DEF SyncOpt
<1>14. CASE InstallMissingLibs BY <1>14 DEF InstallMissingLibs
<1>15. CASE SyncData BY <1>15 DEF SyncData
<1>16. CASE Unmount BY <1>16, Concluded DEF Unmount, Release
<1>17. CASE InstallArchive BY <1>17, Concluded DEF InstallArchive, HasPayload, In
<1>18. CASE Finalize BY <1>18 DEF Finalize
<1>19. CASE RunScript BY <1>19 DEF RunScript
<1>20. CASE Done BY <1>20 DEF Done
<1>21. CASE Raise BY <1>21 DEF Raise, Release
<1>22. CASE Cleanup BY <1>22 DEF Cleanup
<1>23. CASE UNCHANGED vars BY <1>23 DEF vars
<1> QED BY <1>1, <1>2, <1>3, <1>4, <1>5, <1>6, <1>7, <1>8, <1>9, <1>10, <1>11, <1>12, <1>13,
      <1>14, <1>15, <1>16, <1>17, <1>18, <1>19, <1>20, <1>21, <1>22, <1>23 DEF Next

LEMMA TraceKept == IInv /\ [Next]_vars => TraceHolds'
<1> SUFFICES ASSUME Kinds, StagesHold, TraceHolds, [Next]_vars PROVE TraceHolds'
    BY DEF IInv
<1> USE DEF TraceHolds, StagesHold, Kinds, desc, disk, upload, work, mountpoints, RemoveMountPoint, Refused
<1>1. CASE Begin BY <1>1 DEF Begin
<1>2. CASE Extract BY <1>2 DEF Extract
<1>3. CASE Describe BY <1>3 DEF Describe
<1>4. CASE VerifySignature BY <1>4 DEF VerifySignature
<1>5. CASE Parse BY <1>5 DEF Parse
<1>6. CASE HashAll BY <1>6 DEF HashAll
<1>7. CASE SkipPayload BY <1>7 DEF SkipPayload, HasPayload, In
<1>8. CASE StartRaw BY <1>8, Concluded DEF StartRaw, HasPayload, In
<1>9. CASE Unpack BY <1>9, Concluded DEF Unpack, In
<1>10. CASE FreePacked BY <1>10 DEF FreePacked
<1>11. CASE MakeMountPoint BY <1>11 DEF MakeMountPoint
<1>12. CASE Mount BY <1>12, Concluded DEF Mount
<1>13. CASE SyncOpt BY <1>13 DEF SyncOpt
<1>14. CASE InstallMissingLibs BY <1>14 DEF InstallMissingLibs
<1>15. CASE SyncData BY <1>15 DEF SyncData
<1>16. CASE Unmount BY <1>16, Concluded DEF Unmount, Release
<1>17. CASE InstallArchive BY <1>17, Concluded DEF InstallArchive, HasPayload, In
<1>18. CASE Finalize BY <1>18 DEF Finalize
<1>19. CASE RunScript BY <1>19 DEF RunScript
<1>20. CASE Done BY <1>20 DEF Done
<1>21. CASE Raise BY <1>21 DEF Raise, Release
<1>22. CASE Cleanup BY <1>22 DEF Cleanup
<1>23. CASE UNCHANGED vars BY <1>23 DEF vars
<1> QED BY <1>1, <1>2, <1>3, <1>4, <1>5, <1>6, <1>7, <1>8, <1>9, <1>10, <1>11, <1>12, <1>13,
      <1>14, <1>15, <1>16, <1>17, <1>18, <1>19, <1>20, <1>21, <1>22, <1>23 DEF Next

LEMMA MixtureKept == IInv /\ [Next]_vars => MixtureKnown'
<1> SUFFICES ASSUME Kinds, StagesHold, MixtureKnown, [Next]_vars PROVE MixtureKnown'
    BY DEF IInv
<1> USE DEF MixtureKnown, desc, disk, upload, work, mountpoints, RemoveMountPoint, Refused
<1>1. CASE Begin BY <1>1 DEF Begin
<1>2. CASE Extract BY <1>2 DEF Extract
<1>3. CASE Describe BY <1>3 DEF Describe
<1>4. CASE VerifySignature BY <1>4 DEF VerifySignature
<1>5. CASE Parse BY <1>5 DEF Parse
<1>6. CASE HashAll BY <1>6 DEF HashAll
<1>7. CASE SkipPayload BY <1>7 DEF SkipPayload, HasPayload, In
<1>8. CASE StartRaw BY <1>8, Concluded DEF StartRaw, HasPayload, In
<1>9. CASE Unpack BY <1>9, Concluded DEF Unpack, In
<1>10. CASE FreePacked BY <1>10 DEF FreePacked
<1>11. CASE MakeMountPoint BY <1>11 DEF MakeMountPoint
<1>12. CASE Mount BY <1>12, Concluded DEF Mount, In
<1>13. CASE SyncOpt BY <1>13 DEF SyncOpt, In
<1>14. CASE InstallMissingLibs BY <1>14 DEF InstallMissingLibs
<1>15. CASE SyncData BY <1>15 DEF SyncData, In
<1>16. CASE Unmount
  <2>1. opt' = opt /\ (synced = "failure" \/ result = "failure" => result' = "failure")
        BY <1>16 DEF Unmount, Conclude, FailedSticks, Kinds
  <2> QED BY <1>16, <2>1 DEF Unmount
<1>17. CASE InstallArchive BY <1>17, Concluded DEF InstallArchive, HasPayload, In
<1>18. CASE Finalize BY <1>18 DEF Finalize
<1>19. CASE RunScript BY <1>19 DEF RunScript
<1>20. CASE Done BY <1>20 DEF Done
<1>21. CASE Raise BY <1>21 DEF Raise, Release
<1>22. CASE Cleanup BY <1>22 DEF Cleanup
<1>23. CASE UNCHANGED vars BY <1>23 DEF vars
<1> QED BY <1>1, <1>2, <1>3, <1>4, <1>5, <1>6, <1>7, <1>8, <1>9, <1>10, <1>11, <1>12, <1>13,
      <1>14, <1>15, <1>16, <1>17, <1>18, <1>19, <1>20, <1>21, <1>22, <1>23 DEF Next

\* The payload in hand is of no known type, or has just been put in place.
LEMMA OneMorePlaced ==
  ASSUME NEW n \in Nat \ {0}, Placed(n - 1), files' = files, placed \subseteq placed',
         files[n].kind = "other" \/ n \in placed'
  PROVE  \A i \in 1..n : files'[i].kind # "other" => i \in placed'
BY DEF Placed

LEMMA PlacedKept == IInv /\ [Next]_vars => PlacedSoFar'
<1> SUFFICES ASSUME Kinds, StagesHold, PlacedSoFar, [Next]_vars PROVE PlacedSoFar'
    BY DEF IInv
<1> USE DEF PlacedSoFar, Placed, desc, disk, upload, work, mountpoints, RemoveMountPoint, Refused
<1>1. CASE Begin BY <1>1 DEF Begin
<1>2. CASE Extract BY <1>2 DEF Extract
<1>3. CASE Describe BY <1>3 DEF Describe
<1>4. CASE VerifySignature BY <1>4 DEF VerifySignature
<1>5. CASE Parse BY <1>5 DEF Parse
<1>6. CASE HashAll BY <1>6 DEF HashAll
<1>7. CASE SkipPayload
  <2>1. /\ item <= Len(files) /\ item' = item + 1 /\ item' - 1 = item
        /\ files' = files /\ placed' = placed /\ pc' = "next" /\ result' = result
        /\ files[item].kind = "other" /\ verdict' = verdict
        BY <1>7 DEF SkipPayload, HasPayload, In, Kinds
  <2>2. CASE result = "success"
    <3>1. Placed(item - 1) BY <1>7, <2>2 DEF SkipPayload, HasPayload
    <3>2. \A i \in 1..item : files'[i].kind # "other" => i \in placed'
          BY <2>1, <3>1, OneMorePlaced DEF Kinds
    <3> QED BY <2>1, <2>2, <3>2 DEF Kinds
  <2> QED BY <2>1, <2>2
<1>8. CASE StartRaw BY <1>8, Concluded DEF StartRaw, HasPayload, In
<1>9. CASE Unpack BY <1>9, Concluded DEF Unpack, In
<1>10. CASE FreePacked BY <1>10 DEF FreePacked
<1>11. CASE MakeMountPoint BY <1>11 DEF MakeMountPoint
<1>12. CASE Mount BY <1>12, Concluded DEF Mount, In
<1>13. CASE SyncOpt BY <1>13 DEF SyncOpt, In
<1>14. CASE InstallMissingLibs BY <1>14 DEF InstallMissingLibs
<1>15. CASE SyncData BY <1>15 DEF SyncData, In
<1>16. CASE Unmount
  <2>1. /\ item \in 1..Len(files) /\ item' = item + 1 /\ item' - 1 = item
        /\ files' = files /\ pc' = "next" /\ verdict' = verdict
        BY <1>16 DEF Unmount, Conclude, Kinds, StagesHold
  <2>2. CASE result' = "success"
    <3>1. result = "success" /\ placed' = placed \cup {item}
          BY <1>16, <2>2 DEF Unmount, Conclude, FailedSticks, Kinds
    <3>2. Placed(item - 1) BY <1>16, <3>1 DEF Unmount
    <3>3. \A i \in 1..item : files'[i].kind # "other" => i \in placed'
          BY <2>1, <3>1, <3>2, OneMorePlaced DEF Kinds
    <3> QED BY <2>1, <2>2, <3>3 DEF Kinds
  <2> QED BY <2>1, <2>2
<1>17. CASE InstallArchive
  <2>1. /\ item \in 1..Len(files) /\ item' = item + 1 /\ item' - 1 = item
        /\ files' = files /\ pc' = "next" /\ verdict' = verdict
        BY <1>17 DEF InstallArchive, HasPayload, Conclude, Kinds
  <2>2. CASE result' = "success"
    <3>1. result = "success" /\ placed' = placed \cup {item}
          BY <1>17, <2>2 DEF InstallArchive, Conclude, FailedSticks, Kinds
    <3>2. Placed(item - 1) BY <1>17, <3>1 DEF InstallArchive, HasPayload
    <3>3. \A i \in 1..item : files'[i].kind # "other" => i \in placed'
          BY <2>1, <3>1, <3>2, OneMorePlaced DEF Kinds
    <3> QED BY <2>1, <2>2, <3>3 DEF Kinds
  <2> QED BY <2>1, <2>2
<1>18. CASE Finalize
  <2>1. /\ files' = files /\ placed' = placed /\ pc' = "script" /\ result' = result
        BY <1>18 DEF Finalize
  <2>2. CASE result = "success"
    <3>1. item - 1 = Len(files) /\ Placed(item - 1)
          BY <1>18, <2>2 DEF Finalize, Kinds
    <3> QED BY <2>1, <3>1
  <2> QED BY <2>1, <2>2
<1>19. CASE RunScript BY <1>19 DEF RunScript
<1>20. CASE Done BY <1>20 DEF Done
<1>21. CASE Raise BY <1>21 DEF Raise, Release
<1>22. CASE Cleanup
  <2>1. verdict = "none" BY <1>22 DEF Cleanup, StagesHold
  <2> QED BY <1>22, <2>1 DEF Cleanup
<1>23. CASE UNCHANGED vars BY <1>23 DEF vars
<1> QED BY <1>1, <1>2, <1>3, <1>4, <1>5, <1>6, <1>7, <1>8, <1>9, <1>10, <1>11, <1>12, <1>13,
      <1>14, <1>15, <1>16, <1>17, <1>18, <1>19, <1>20, <1>21, <1>22, <1>23 DEF Next

LEMMA HashesKept == IInv /\ [Next]_vars => HashesHold'
<1> SUFFICES ASSUME HashesHold, [Next]_vars PROVE HashesHold'
    BY DEF IInv
<1> USE DEF HashesHold, desc, disk, upload, work, mountpoints, RemoveMountPoint, Refused
<1>1. CASE Begin BY <1>1 DEF Begin
<1>2. CASE Extract BY <1>2 DEF Extract
<1>3. CASE Describe BY <1>3 DEF Describe
<1>4. CASE VerifySignature BY <1>4 DEF VerifySignature
<1>5. CASE Parse BY <1>5 DEF Parse
<1>6. CASE HashAll BY <1>6 DEF HashAll
<1>7. CASE SkipPayload BY <1>7 DEF SkipPayload, HasPayload, In
<1>8. CASE StartRaw BY <1>8, Concluded DEF StartRaw, HasPayload, In
<1>9. CASE Unpack BY <1>9, Concluded DEF Unpack, In
<1>10. CASE FreePacked BY <1>10 DEF FreePacked
<1>11. CASE MakeMountPoint BY <1>11 DEF MakeMountPoint
<1>12. CASE Mount BY <1>12, Concluded DEF Mount, In
<1>13. CASE SyncOpt BY <1>13 DEF SyncOpt, In
<1>14. CASE InstallMissingLibs BY <1>14 DEF InstallMissingLibs
<1>15. CASE SyncData BY <1>15 DEF SyncData, In
<1>16. CASE Unmount BY <1>16, Concluded DEF Unmount, Release
<1>17. CASE InstallArchive BY <1>17, Concluded DEF InstallArchive, HasPayload, In
<1>18. CASE Finalize BY <1>18 DEF Finalize
<1>19. CASE RunScript BY <1>19 DEF RunScript
<1>20. CASE Done BY <1>20 DEF Done
<1>21. CASE Raise BY <1>21 DEF Raise, Release
<1>22. CASE Cleanup BY <1>22 DEF Cleanup
<1>23. CASE UNCHANGED vars BY <1>23 DEF vars
<1> QED BY <1>1, <1>2, <1>3, <1>4, <1>5, <1>6, <1>7, <1>8, <1>9, <1>10, <1>11, <1>12, <1>13,
      <1>14, <1>15, <1>16, <1>17, <1>18, <1>19, <1>20, <1>21, <1>22, <1>23 DEF Next

-----------------------------------------------------------------------------
\* The parts of the invariant hold in every state, for any payloads and any number
\* of them.
LEMMA Inductive == Spec => []IInv
<1>1. IInv /\ [Next]_vars => IInv'
      BY KindsKept, StagesKept, RoomKept, TraceKept, MixtureKept, PlacedKept, HashesKept DEF IInv
<1> QED BY <1>1, InitHolds, PTL DEF Spec

\* "success" means that every payload of a known type is in place and /opt/move is
\* not half written.
THEOREM SuccessWasComplete == Spec => []SuccessIsComplete
<1>1. IInv => SuccessIsComplete
  <2> SUFFICES ASSUME IInv, verdict = "success" PROVE SuccessIsComplete
      BY DEF SuccessIsComplete
  <2>1. pc = "over" /\ result = "success" BY DEF IInv, StagesHold
  <2>2. Placed(Len(files)) BY <2>1 DEF IInv, PlacedSoFar
  <2>3. DOMAIN files = 1..Len(files) BY DEF IInv, Kinds
  <2>4. opt # "mixed" BY <2>1 DEF IInv, MixtureKnown
  <2> QED BY <2>2, <2>3, <2>4 DEF SuccessIsComplete, Placed
<1> QED BY <1>1, Inductive, PTL

\* Nothing is put in place from a .swu with a payload that fails its hash.
THEOREM OnlyVerified == Spec => []NothingUnverified
<1>1. IInv => NothingUnverified
      BY DEF IInv, HashesHold, NothingUnverified, PayloadHashOk
<1> QED BY <1>1, Inductive, PTL

\* What is unpacked never shares the disk with the upload, nor an image with its
\* packed form, but for what the system refused to delete and payloads that failed.
THEOREM AlwaysRoom == Spec => []RoomForImage
<1>1. IInv => RoomForImage
      BY DEF IInv, RoomHolds, RoomForImage
<1> QED BY <1>1, Inductive, PTL

\* However process_swu ends, what it mounted and made is gone, but for what the
\* system refused to remove, one mount point an exception met too early, and the copy
\* of an upload that could not be extracted.
THEOREM CleanedUp == Spec => []NothingLeftBehind
<1>1. IInv => NothingLeftBehind
      BY DEF IInv, Kinds, StagesHold, TraceHolds, NothingLeftBehind
<1> QED BY <1>1, Inductive, PTL

-----------------------------------------------------------------------------
(* The percentages, and what the event loop relies on. *)

LEMMA Quotient ==
  ASSUME NEW a \in Nat, NEW n \in Nat \ {0}
  PROVE  a \div n \in Nat /\ n * (a \div n) <= a /\ a < n * (a \div n) + n
OBVIOUS

LEMMA Cancel ==
  ASSUME NEW n \in Nat \ {0}, NEW x \in Int, NEW y \in Int, n * x < n * y
  PROVE  x < y
OBVIOUS

\* Rounding each part down does not take the sum past the rounded whole.
LEMMA QuotientsAdd ==
  ASSUME NEW n \in Nat \ {0}, NEW a \in Nat, NEW b \in Nat
  PROVE  (a \div n) + (b \div n) <= (a + b) \div n
<1> DEFINE q == a \div n
           w == b \div n
           r == (a + b) \div n
<1>1. q \in Nat /\ w \in Nat /\ r \in Nat
      BY Quotient
<1>2. n * q <= a /\ n * w <= b /\ a + b < n * r + n
      BY Quotient
<1> HIDE DEF q, w, r
<1>3. n * (q + w) < n * (r + 1)
      BY <1>1, <1>2
<1>4. q + w < r + 1
      BY <1>1, <1>3, Cancel
<1>5. q + w <= r
      BY <1>1, <1>4
<1> QED BY <1>5 DEF q, w, r

\* The reports of one payload, in the order in which they are made, lie between
\* its first one and that of the next.
LEMMA MarksOrdered ==
  ASSUME Kinds, NEW i \in 1..Len(files)
  PROVE  /\ PayloadMark(i) \in Int /\ MountMark(i) \in Int /\ OptMark(i) \in Int
         /\ LibsMark(i) \in Int /\ DataMark(i) \in Int /\ PayloadMark(i + 1) \in Int
         /\ 40 <= PayloadMark(i) /\ PayloadMark(i) <= MountMark(i)
         /\ MountMark(i) <= OptMark(i) /\ OptMark(i) <= LibsMark(i)
         /\ LibsMark(i) <= DataMark(i) /\ DataMark(i) <= PayloadMark(i + 1)
         /\ PayloadMark(i + 1) <= 90
<1> DEFINE n == Len(files)
           q == (50 * (i - 1)) \div n
           w == 50 \div n
           r == (50 * i) \div n
<1>1. n \in Nat \ {0} /\ i \in 1..n /\ Share = n
      BY DEF Kinds, Share
<1> HIDE DEF n
<1>2. q \in Nat /\ w \in Nat /\ r \in Nat /\ n * r <= 50 * i
      BY <1>1, Quotient
<1>3. q + w <= r
  <2>1. (50 * (i - 1)) + 50 = 50 * i /\ 50 * (i - 1) \in Nat
        BY <1>1
  <2> QED BY <1>1, <2>1, QuotientsAdd
<1>4. PayloadMark(i) = 40 + q /\ PayloadEnd(i) = 40 + q + w /\ PayloadMark(i + 1) = 40 + r
  <2>1. (i + 1) - 1 = i
        BY <1>1
  <2> QED BY <1>1, <2>1 DEF PayloadMark, PayloadEnd
<1> HIDE DEF q, w, r
<1>5. r <= 50
  <2>1. n * r < n * 51
        BY <1>1, <1>2
  <2>2. r < 51
        BY <1>1, <1>2, <2>1, Cancel
  <2> QED BY <1>2, <2>2
<1> QED BY <1>2, <1>3, <1>4, <1>5 DEF MountMark, OptMark, LibsMark, DataMark

\* A report of the payload in hand is a percentage of the middle part.
LEMMA JustReported ==
  ASSUME Kinds, NEW i \in 1..Len(files),
         NEW m \in {PayloadMark(i), MountMark(i), OptMark(i), LibsMark(i), DataMark(i)},
         mark' = m
  PROVE  mark' \in Int /\ 40 <= mark' /\ mark' <= 90 /\ mark' <= m
<1>1. m \in Int /\ 40 <= m /\ m <= 90 /\ m <= m
      BY MarksOrdered
<1> QED BY <1>1, Zenon

\* What has been reported when a stage begins is not above what it reports next.
Reported ==
  /\ mark \in 0..95
  /\ pc \in {"begin", "extract"} => mark <= 5
  /\ pc \in {"describe", "verify"} => mark <= 20
  /\ pc \in {"parse", "hash"} => mark <= 30
  /\ pc = "next" /\ item <= Len(files) => mark <= PayloadMark(item)
  /\ pc \in {"unpack", "free", "mount", "mounting"} => mark <= PayloadMark(item)
  /\ pc = "opt" => mark <= MountMark(item)
  /\ pc = "libs" => mark <= OptMark(item)
  /\ pc = "data" => mark <= LibsMark(item)
  /\ pc = "unmount" => mark <= DataMark(item)
  /\ pc = "script" => mark = 95
  /\ pc = "cleanup" /\ result = "success" => mark = 95

\* The percentages of the step to come are those of the payloads of this one.
LEMMA SameMarks ==
  ASSUME files' = files
  PROVE  /\ item' = item =>
              /\ PayloadMark(item)' = PayloadMark(item) /\ MountMark(item)' = MountMark(item)
              /\ OptMark(item)' = OptMark(item) /\ LibsMark(item)' = LibsMark(item)
              /\ DataMark(item)' = DataMark(item)
         /\ item' = item + 1 => PayloadMark(item)' = PayloadMark(item + 1)
         /\ item' = 1 => PayloadMark(item)' = PayloadMark(1)
<1>1. Share' = Share
      BY DEF Share
<1>2. ASSUME item' = item
      PROVE  /\ PayloadMark(item)' = PayloadMark(item) /\ PayloadEnd(item)' = PayloadEnd(item)
             /\ MountMark(item)' = MountMark(item) /\ OptMark(item)' = OptMark(item)
             /\ LibsMark(item)' = LibsMark(item) /\ DataMark(item)' = DataMark(item)
  <2>1. PayloadMark(item)' = PayloadMark(item)
        BY <1>1, <1>2, Zenon DEF PayloadMark
  <2>2. PayloadEnd(item)' = PayloadEnd(item)
        BY <1>1, <2>1, Zenon DEF PayloadEnd
  <2>3. MountMark(item)' = MountMark(item) /\ OptMark(item)' = OptMark(item)
        BY <2>1, <2>2, Zenon DEF MountMark, OptMark
  <2> QED BY <2>1, <2>2, <2>3, Zenon DEF LibsMark, DataMark
<1>3. item' = item + 1 => PayloadMark(item)' = PayloadMark(item + 1)
      BY <1>1, Zenon DEF PayloadMark
<1>4. item' = 1 => PayloadMark(item)' = PayloadMark(1)
      BY <1>1, Zenon DEF PayloadMark
<1> QED BY <1>2, <1>3, <1>4

LEMMA ReportedKept == IInv /\ Reported /\ [Next]_vars => Reported'
<1> SUFFICES ASSUME Kinds, StagesHold, Reported, [Next]_vars PROVE Reported'
    BY DEF IInv
<1> USE DEF Reported, Report, Silent, desc, disk, upload, work, mountpoints, RemoveMountPoint, Refused
<1>0. /\ files' = files /\ item \in Nat \ {0} /\ Len(files) \in Nat
      /\ mark \in Nat
  <2>1. files' = files
        BY DEF Next, vars, Begin, Extract, Describe, VerifySignature, Parse, HashAll,
           SkipPayload, StartRaw, Unpack, FreePacked, MakeMountPoint, Mount, SyncOpt, InstallMissingLibs, SyncData, Unmount,
           InstallArchive, Finalize, RunScript, Done, Raise, Cleanup
  <2> QED BY <2>1 DEF Kinds
<1>1. CASE Begin BY <1>1 DEF Begin
<1>2. CASE Extract BY <1>2 DEF Extract
<1>3. CASE Describe BY <1>3 DEF Describe
<1>4. CASE VerifySignature BY <1>4 DEF VerifySignature
<1>5. CASE Parse BY <1>5 DEF Parse
<1>6. CASE HashAll
  <2>1. 1 <= Len(files) => 40 <= PayloadMark(1) /\ PayloadMark(1) \in Int
        BY <1>0, MarksOrdered
  <2> QED BY <1>0, <1>6, <2>1, SameMarks DEF HashAll
<1>7. CASE SkipPayload
  <2>1. /\ item \in 1..Len(files) /\ item' = item + 1 /\ pc' = "next"
        /\ mark' = mark /\ mark <= PayloadMark(item)
        BY <1>0, <1>7 DEF SkipPayload, HasPayload
  <2> QED BY <1>0, <2>1, MarksOrdered, SameMarks
<1>8. CASE StartRaw
  <2>1. item \in 1..Len(files)
        BY <1>0, <1>8 DEF StartRaw, HasPayload, Report
  <2>2. mark' \in Int /\ 40 <= mark' /\ mark' <= 90 /\ mark' <= PayloadMark(item)
        BY <1>8, <2>1, JustReported DEF StartRaw, Report
  <2>3. CASE item' = item /\ pc' = "unpack"
        BY <1>0, MarksOrdered, <2>1, <2>2, <2>3, SameMarks
  <2>4. CASE item' = item + 1 /\ pc' = "next"
        BY <1>0, MarksOrdered, <2>1, <2>2, <2>4, SameMarks
  <2> QED BY <1>8, <2>3, <2>4 DEF StartRaw, Conclude
<1>9. CASE Unpack
  <2>1. item \in 1..Len(files) /\ mark' = mark /\ mark <= PayloadMark(item)
        BY <1>0, <1>9 DEF Unpack, StagesHold, Silent
  <2>2. CASE item' = item /\ pc' \in {"free", "mount"}
        BY <1>0, MarksOrdered, <2>1, <2>2, SameMarks
  <2>3. CASE item' = item + 1 /\ pc' = "next"
        BY <1>0, MarksOrdered, <2>1, <2>3, SameMarks
  <2> QED BY <1>9, <2>2, <2>3 DEF Unpack, Conclude
<1>10. CASE FreePacked
  <2>1. item \in 1..Len(files) /\ mark' = mark /\ item' = item /\ pc' = "mount"
        BY <1>0, <1>10 DEF FreePacked, StagesHold, Silent
  <2> QED BY <1>0, <1>10, <2>1, SameMarks DEF FreePacked
<1>11. CASE MakeMountPoint
  <2>1. item \in 1..Len(files) /\ mark' = mark /\ item' = item /\ pc' = "mounting"
        BY <1>0, <1>11 DEF MakeMountPoint, StagesHold, Silent
  <2> QED BY <1>0, <1>11, <2>1, SameMarks DEF MakeMountPoint
<1>12. CASE Mount
  <2>1. item \in 1..Len(files)
        BY <1>0, <1>12 DEF Mount, StagesHold, Report
  <2>2. mark' \in Int /\ 40 <= mark' /\ mark' <= 90 /\ mark' <= MountMark(item)
        BY <1>12, <2>1, JustReported DEF Mount, Report
  <2>3. CASE item' = item /\ pc' = "opt"
        BY <1>0, MarksOrdered, <2>1, <2>2, <2>3, SameMarks
  <2>4. CASE item' = item + 1 /\ pc' = "next"
        BY <1>0, MarksOrdered, <2>1, <2>2, <2>4, SameMarks
  <2> QED BY <1>12, <2>3, <2>4 DEF Mount, Conclude
<1>13. CASE SyncOpt
  <2>1. /\ item \in 1..Len(files) /\ item' = item /\ mark <= MountMark(item)
        /\ mark' \in {mark, OptMark(item)} /\ pc' \in {"libs", "data"}
        /\ pc' = "libs" => mark' = OptMark(item)
        BY <1>0, <1>13 DEF SyncOpt, StagesHold, Report, Silent
  <2> QED BY <1>0, MarksOrdered, <2>1, SameMarks
<1>14. CASE InstallMissingLibs
  <2>1. item \in 1..Len(files) /\ item' = item /\ pc' = "data"
        BY <1>0, <1>14 DEF InstallMissingLibs, StagesHold, Report
  <2>2. mark' \in Int /\ 40 <= mark' /\ mark' <= 90 /\ mark' <= LibsMark(item)
        BY <1>14, <2>1, JustReported DEF InstallMissingLibs, Report
  <2> QED BY <1>0, MarksOrdered, <2>1, <2>2, SameMarks
<1>15. CASE SyncData
  <2>1. /\ item \in 1..Len(files) /\ item' = item /\ mark <= LibsMark(item)
        /\ mark' \in {mark, DataMark(item)} /\ pc' = "unmount"
        BY <1>0, <1>15 DEF SyncData, StagesHold, Report, Silent
  <2> QED BY <1>0, MarksOrdered, <2>1, SameMarks
<1>16. CASE Unmount
  <2>1. /\ item \in 1..Len(files) /\ item' = item + 1 /\ mark <= DataMark(item)
        /\ mark' = mark /\ pc' = "next"
        BY <1>0, <1>16 DEF Unmount, StagesHold, Silent, Conclude
  <2> QED BY <1>0, MarksOrdered, <2>1, SameMarks
<1>17. CASE InstallArchive
  <2>1. /\ item \in 1..Len(files) /\ item' = item + 1 /\ pc' = "next"
        BY <1>0, <1>17 DEF InstallArchive, HasPayload, Report, Conclude
  <2>2. mark' \in Int /\ 40 <= mark' /\ mark' <= 90 /\ mark' <= PayloadMark(item)
        BY <1>17, <2>1, JustReported DEF InstallArchive, Report
  <2> QED BY <1>0, MarksOrdered, <2>1, <2>2, SameMarks
<1>18. CASE Finalize BY <1>18 DEF Finalize
<1>19. CASE RunScript BY <1>19 DEF RunScript
<1>20. CASE Done BY <1>20 DEF Done, StagesHold
<1>21. CASE Raise BY <1>21 DEF Raise, Release
<1>22. CASE Cleanup BY <1>22 DEF Cleanup
<1>23. CASE UNCHANGED vars
  <2>1. UNCHANGED <<pc, item, mark, result, swu>>
        BY <1>23 DEF vars
  <2> QED BY <1>0, <2>1, SameMarks
<1> QED BY <1>1, <1>2, <1>3, <1>4, <1>5, <1>6, <1>7, <1>8, <1>9, <1>10, <1>11, <1>12, <1>13,
      <1>14, <1>15, <1>16, <1>17, <1>18, <1>19, <1>20, <1>21, <1>22, <1>23 DEF Next

LEMMA InductiveReports == Spec => []Reported
<1>1. Init => Reported
      BY DEF Init, Reported
<1> QED BY <1>1, ReportedKept, Inductive, PTL DEF Spec

\* No step reports less than the one before.
LEMMA NeverLess == IInv /\ Reported /\ [Next]_vars => mark <= mark'
<1> SUFFICES ASSUME Kinds, StagesHold, Reported, [Next]_vars PROVE mark <= mark'
    BY DEF IInv
<1> USE DEF Reported, Report, Silent
<1>0. item \in Nat \ {0} /\ Len(files) \in Nat /\ mark \in Int
      BY DEF Kinds
<1>1. CASE mark' = mark BY <1>0, <1>1
<1>2. CASE Extract \/ VerifySignature BY <1>2 DEF Extract, VerifySignature
<1>3. CASE HashAll \/ Finalize BY <1>3 DEF HashAll, Finalize
<1>4. CASE StartRaw BY <1>0, <1>4, MarksOrdered DEF StartRaw, HasPayload
<1>5. CASE Mount BY <1>0, <1>5, MarksOrdered DEF Mount, StagesHold
<1>6. CASE SyncOpt BY <1>0, <1>6, MarksOrdered DEF SyncOpt, StagesHold
<1>7. CASE InstallMissingLibs
      BY <1>0, <1>7, MarksOrdered DEF InstallMissingLibs, StagesHold
<1>8. CASE SyncData BY <1>0, <1>8, MarksOrdered DEF SyncData, StagesHold
<1>9. CASE InstallArchive BY <1>0, <1>9, MarksOrdered DEF InstallArchive, HasPayload
<1> QED BY <1>1, <1>2, <1>3, <1>4, <1>5, <1>6, <1>7, <1>8, <1>9
    DEF Next, vars, Begin, Describe, Parse, SkipPayload, Unpack, FreePacked, MakeMountPoint,
      Unmount, RunScript, Done, Raise, Cleanup

\* process_swu does what the event loop relies on: every step reports no less than
\* before and at most 95, gives the verdict once, and says "success" only at 95; the
\* upload does not come back.
THEOREM KeepsThePromise == Spec => PromiseKept
<1>1. Init => Promise!Init
      BY DEF Init, Promise!Init
<1>2. IInv /\ Reported /\ Reported' /\ [Next]_vars => [Promise!Next]_<<mark, swu, verdict>>
  <2> SUFFICES ASSUME IInv, Reported, Reported', [Next]_vars
               PROVE  [Promise!Next]_<<mark, swu, verdict>>
      OBVIOUS
  <2>1. mark' \in mark..95
        BY NeverLess DEF Reported
  <2> USE DEF disk, upload
  <2>2. CASE Cleanup
        BY <2>2 DEF Cleanup, IInv, Kinds, StagesHold, Reported, Silent, Promise!Next,
           Promise!Conclude, Promise!Verdicts
  <2>3. CASE Begin /\ verdict' = "raised"
        BY <2>3 DEF Begin, IInv, StagesHold, Promise!Next, Promise!Conclude, Promise!Verdicts
  <2>4. CASE verdict' = verdict /\ swu' \in {swu, FALSE} /\ pc # "over"
        BY <2>1, <2>4 DEF IInv, StagesHold, Promise!Next, Promise!Progress
  <2>5. CASE UNCHANGED vars
        BY <2>5 DEF vars
  <2> QED BY <2>2, <2>3, <2>4, <2>5
      DEF Next, Begin, Extract, Describe, VerifySignature, Parse, HashAll, HasPayload,
        SkipPayload, StartRaw, Unpack, FreePacked, MakeMountPoint, Mount, SyncOpt,
        InstallMissingLibs, SyncData, Unmount, InstallArchive, Finalize, RunScript, Done, Raise
<1>3. Promise!Spec <=> Promise!Init /\ [][Promise!Next]_<<mark, swu, verdict>>
      BY DEF Promise!Spec
<1> QED BY <1>1, <1>2, <1>3, Inductive, InductiveReports, PTL DEF Spec, PromiseKept

-----------------------------------------------------------------------------
\* What a step leaves alone, and which payloads it may add to those in place.
Bounded ==
  /\ files \in FileLists /\ scripts \in 0..MaxScripts
  /\ swu \in BOOLEAN /\ saved \in BOOLEAN /\ workdir \in BOOLEAN
  /\ arrived \subseteq 1..MaxFiles /\ unpacked \subseteq 1..MaxFiles
  /\ mntdirs \subseteq 1..MaxFiles /\ mounted \subseteq 1..MaxFiles
  /\ placed \subseteq 1..MaxFiles /\ refused \subseteq Removals

LEMMA BoundedKept == IInv /\ Bounded /\ [Next]_vars => Bounded'
<1> SUFFICES ASSUME IInv, Bounded, [Next]_vars PROVE Bounded'
    OBVIOUS
<1>1. files' = files /\ scripts' = scripts
      BY DEF Next, vars, desc, Begin, Extract, Describe, VerifySignature, Parse, HashAll,
         SkipPayload, StartRaw, Unpack, FreePacked, MakeMountPoint, Mount, SyncOpt, InstallMissingLibs,
         SyncData, Unmount, InstallArchive, Finalize, RunScript, Done, Raise, Cleanup
<1>2. item \in 1..Len(files) => item \in 1..MaxFiles
  <2>1. PICK n \in 0..MaxFiles : files \in [1..n -> Payloads]
        BY DEF Bounded, FileLists
  <2>2. Len(files) = n
        BY <2>1
  <2> QED BY <2>1, <2>2, CountAssumption
<1>3. placed' = placed \/ (item \in 1..Len(files) /\ placed' = placed \cup {item})
      BY DEF Next, vars, Begin, Extract, Describe, VerifySignature, Parse, HashAll,
         SkipPayload, StartRaw, Unpack, FreePacked, MakeMountPoint, Mount, SyncOpt, InstallMissingLibs,
         SyncData, Unmount, InstallArchive, Finalize, RunScript, Done, Raise, Cleanup, Conclude, HasPayload,
         IInv, StagesHold, Kinds
<1>4. DOMAIN files \subseteq 1..MaxFiles
  <2>1. PICK n \in 0..MaxFiles : files \in [1..n -> Payloads]
        BY DEF Bounded, FileLists
  <2> QED BY <2>1, CountAssumption
<1> DEFINE Nearly(S, T) == S \subseteq T \/ (item \in 1..Len(files) /\ S \subseteq T \cup {item})
<1>5. swu' \in {swu, FALSE} /\ saved' \in {saved} \cup BOOLEAN /\ workdir' \in {workdir} \cup BOOLEAN
      BY DEF Next, vars, disk, upload, work, Begin, Extract, Describe, VerifySignature, Parse, HashAll,
         SkipPayload, StartRaw, Unpack, FreePacked, MakeMountPoint, Mount, SyncOpt,
         InstallMissingLibs, SyncData, Unmount, InstallArchive, Finalize, RunScript, Done, Raise,
         Cleanup
<1>6. arrived' \subseteq arrived \cup DOMAIN files
      BY DEF Next, vars, disk, work, InWorkdir, Begin, Extract, Describe, VerifySignature, Parse, HashAll,
         SkipPayload, StartRaw, Unpack, FreePacked, MakeMountPoint, Mount, SyncOpt,
         InstallMissingLibs, SyncData, Unmount, InstallArchive, Finalize, RunScript, Done, Raise,
         Cleanup
<1>7. Nearly(unpacked', unpacked)
  <2>1. CASE Raise \/ Unpack
        BY <2>1 DEF Raise, Unpack, IInv, StagesHold, Kinds
  <2>2. CASE InstallArchive
        BY <2>2 DEF InstallArchive, HasPayload, IInv, Kinds
  <2>3. CASE ~(Raise \/ Unpack \/ InstallArchive)
        BY <2>3 DEF Next, vars, disk, work, Begin, Extract, Describe, VerifySignature, Parse,
           HashAll, SkipPayload, StartRaw, FreePacked, MakeMountPoint, Mount, SyncOpt,
           InstallMissingLibs, SyncData, Unmount, Finalize, RunScript, Done, Cleanup
  <2> QED BY <2>1, <2>2, <2>3
<1>8. Nearly(mntdirs', mntdirs) /\ Nearly(mounted', mounted)
      BY DEF Next, vars, disk, mountpoints, Begin, Extract, Describe, VerifySignature, Parse,
         HashAll, SkipPayload, StartRaw, Unpack, FreePacked, MakeMountPoint, Mount, SyncOpt,
         InstallMissingLibs, SyncData, Unmount, Release, RemoveMountPoint, InstallArchive, Finalize,
         RunScript, Done, Raise, Cleanup, IInv, StagesHold, Kinds
<1>9. \/ refused' = refused \/ refused' \subseteq refused \cup {<<"upload", 0>>, <<"workdir", 0>>}
      \/ /\ item \in 1..Len(files)
         /\ refused' \subseteq refused \cup {<<"packed", item>>, <<"umount", item>>, <<"rmdir", item>>}
      BY DEF Next, vars, disk, Begin, Extract, Describe, VerifySignature, Parse,
         HashAll, SkipPayload, StartRaw, Unpack, FreePacked, MakeMountPoint, Mount, SyncOpt,
         InstallMissingLibs, SyncData, Unmount, Release, RemoveMountPoint, Refused, InstallArchive,
         Finalize, RunScript, Done, Raise, Cleanup, IInv, StagesHold, Kinds
<1>10. refused' \subseteq Removals
  <2>1. 0 \in 0..MaxFiles /\ 1..MaxFiles \subseteq 0..MaxFiles
        BY CountAssumption
  <2> QED BY <1>2, <1>9, <2>1 DEF Bounded, Removals
<1> QED BY <1>1, <1>2, <1>3, <1>4, <1>5, <1>6, <1>7, <1>8, <1>10 DEF Bounded

\* The variables keep their types, the percentage stays between 0 and 95, and only
\* payloads that are declared are ever put in place.
THEOREM TypeCorrect == Spec => []TypeOK
<1>1. Init => Bounded
      BY DEF Init, Bounded
<1>2. IInv /\ Reported /\ Bounded => TypeOK
      BY DEF IInv, Kinds, Reported, Bounded, TypeOK
<1> QED BY <1>1, <1>2, BoundedKept, Inductive, InductiveReports, PTL DEF Spec
=============================================================================
