-------------------------- MODULE SwupdateInstall --------------------------
(***************************************************************************)
(* process_swu of the swupdate shim (move-swupdate-shim.py): the worker    *)
(* thread that unpacks one uploaded .swu file, checks it and installs its  *)
(* payloads.  External programs (cpio, openssl, gunzip, mount, rsync, tar, *)
(* bash) succeed or fail as they like, and any statement may raise.  What  *)
(* the code deletes may stay: it passes over the errors of unlink, umount, *)
(* rmdir and rmtree.                                                       *)
(***************************************************************************)
EXTENDS Integers, Sequences

CONSTANTS
  Payloads,     \* the payloads a .swu may declare, see PayloadShape
  MaxFiles,     \* bound: payloads declared in one .swu
  MaxScripts    \* bound: scripts declared in one .swu

\* What the code tells apart about one "files" entry of sw-description.
\*   kind    "raw" (also "rawfile"), "archive", or "other"
\*   inside  does the file name stay in the working directory?
\*   dest    is the archive's destination under /var/lib/move-data?
\*   sha     does the declared SHA-256 match ("none": not declared)?
\*   there   is the file in the .swu?
\*   form    is it compressed ("gz") or encrypted ("enc", compressed or not)?
\*   trees   the trees a raw image carries
PayloadShape ==
  [kind : {"raw", "archive", "other"}, inside : BOOLEAN, dest : BOOLEAN,
   sha : {"none", "match", "differs"}, there : BOOLEAN,
   form : {"plain", "gz", "enc"}, trees : SUBSET {"opt", "data"}]

ASSUME PayloadAssumption == Payloads \subseteq PayloadShape
ASSUME CountAssumption == MaxFiles \in Nat /\ MaxScripts \in Nat

VARIABLES
  files,        \* the payloads sw-description declares
  scripts,      \* how many scripts it declares
  pc,           \* the stage the thread is in
  item,         \* index of the payload or script in hand
  result,       \* the local variable "result" of _process_swu_inner
  synced,       \* the local variable "result" of _rsync_from_mount
  mark,         \* the last percentage reported
  swu,          \* is the uploaded file still there?
  saved,        \* has the upload been copied to /tmp, for a look at it?
  workdir,      \* does the working directory exist?
  arrived,      \* payloads in it as the .swu has them
  unpacked,     \* payloads in it decrypted or decompressed, whole or in part
  mntdirs,      \* payloads whose mount point exists
  mounted,      \* payloads that are mounted there
  refused,      \* removals the system refused: what, of which payload or none (0)
  opt,          \* /opt/move: "old", "mixed" or "new"
  placed,       \* payloads whose every tree or archive was put in place
  verdict       \* what process_swu returned

desc == <<files, scripts>>
upload == <<swu, saved>>
work == <<workdir, arrived, unpacked>>
mountpoints == <<mntdirs, mounted>>
disk == <<upload, work, mountpoints, refused>>
vars == <<desc, pc, item, result, synced, mark, disk, opt, placed, verdict>>

Stages == {"begin", "extract", "describe", "verify", "parse", "hash", "next",
           "unpack", "free", "mount", "mounting", "opt", "libs", "data", "unmount",
           "script", "cleanup", "over"}
Removals == {"upload", "packed", "umount", "rmdir", "workdir"} \X (0..MaxFiles)

FileLists == UNION {[1..n -> Payloads] : n \in 0..MaxFiles}

Init ==
  /\ files \in FileLists /\ scripts \in 0..MaxScripts
  /\ pc = "begin" /\ item = 1 /\ result = "success" /\ synced = "success"
  /\ mark = 0 /\ swu = TRUE /\ saved = FALSE
  /\ workdir = FALSE /\ arrived = {} /\ unpacked = {}
  /\ mntdirs = {} /\ mounted = {} /\ refused = {}
  /\ opt = "old" /\ placed = {} /\ verdict = "none"

----------------------------------------------------------------------------
\* Percentages: 40 to 90 is shared out among the payloads, and the stages of
\* one payload are placed inside its share.
Share == IF files = <<>> THEN 1 ELSE Len(files)
PayloadMark(i) == 40 + (50 * (i - 1)) \div Share
WholeShare(i) == PayloadMark(i) + 50
PayloadEnd(i) == PayloadMark(i) + 50 \div Share
MountMark(i) == PayloadMark(i) + ((PayloadEnd(i) - PayloadMark(i)) * 3) \div 10
OptMark(i) == PayloadMark(i) + (PayloadEnd(i) - PayloadMark(i)) \div 2
LibsMark(i) == OptMark(i) + ((PayloadEnd(i) - OptMark(i)) * 35) \div 100
DataMark(i) == OptMark(i) + (PayloadEnd(i) - OptMark(i)) \div 2

Goto(stage) == pc' = stage
Report(m) == mark' = m
Silent == UNCHANGED mark
Refused(removal, i) == refused' = refused \cup {<<removal, i>>}
In == files[item]

\* "return" from _process_swu_inner: the finally clause comes next.
Return(r) == Goto("cleanup") /\ result' = r

\* The payload in hand is done with; a failure sticks, later payloads go on.
LastCounts(r) == r
FailedSticks(r) == IF r # "success" THEN r ELSE result
Conclude(r) ==
  /\ result' = FailedSticks(r)
  /\ placed' = IF r = "success" THEN placed \cup {item} ELSE placed
  /\ item' = item + 1 /\ Goto("next")

----------------------------------------------------------------------------
\* mkdtemp is called before the try statement: what it raises, process_swu
\* raises.
Begin ==
  /\ pc = "begin"
  /\ \/ workdir' = TRUE /\ Goto("extract") /\ UNCHANGED verdict
     \/ verdict' = "raised" /\ Goto("over") /\ UNCHANGED workdir
  /\ UNCHANGED <<desc, item, result, synced, mark, upload, arrived, unpacked, mountpoints,
                 refused, opt, placed>>

\* What cpio refuses is copied to /tmp, if that can be done.
InWorkdir == {i \in DOMAIN files : files[i].there /\ files[i].inside}
Extract ==
  /\ pc = "extract" /\ Report(5)
  /\ \/ Goto("describe") /\ arrived' = InWorkdir /\ UNCHANGED <<result, saved>>
     \/ Return("failure") /\ arrived' \in SUBSET InWorkdir /\ saved' \in BOOLEAN
  /\ UNCHANGED <<desc, item, synced, swu, workdir, unpacked, mountpoints, refused, opt, placed,
                 verdict>>

\* No sw-description: failure.  Otherwise the upload is deleted, before the
\* image that takes three times its size is written.
DescribeKeepsUpload ==
  /\ pc = "describe" /\ Silent
  /\ (Goto("verify") /\ UNCHANGED result) \/ Return("failure")
  /\ UNCHANGED <<desc, item, synced, disk, opt, placed, verdict>>
Describe ==
  /\ pc = "describe" /\ Silent
  /\ \/ /\ Goto("verify") /\ UNCHANGED result
        /\ \/ swu' = FALSE /\ UNCHANGED refused
           \/ Refused("upload", 0) /\ UNCHANGED swu
     \/ Return("failure") /\ UNCHANGED <<swu, refused>>
  /\ UNCHANGED <<desc, item, synced, saved, work, mountpoints, opt, placed, verdict>>

\* A signature that does not verify is only logged.
VerifySignature ==
  /\ pc = "verify" /\ Report(20) /\ Goto("parse")
  /\ UNCHANGED <<desc, item, result, synced, disk, opt, placed, verdict>>

Parse ==
  /\ pc = "parse" /\ Silent /\ Goto("hash")
  /\ UNCHANGED <<desc, item, result, synced, disk, opt, placed, verdict>>

\* An entry that declares no hash is not looked at.
HashIgnored(p) == p.sha = "none" \/ (p.inside /\ p.there)
PayloadHashOk(p) == p.sha = "none" \/ (p.inside /\ p.there /\ p.sha = "match")

\* Scripts are hashed too, after the files; one of them may fail.
HashAll ==
  /\ pc = "hash" /\ Report(30)
  /\ \/ /\ \A i \in DOMAIN files : PayloadHashOk(files[i])
        /\ Goto("next") /\ item' = 1 /\ UNCHANGED result
     \/ /\ scripts > 0 \/ \E i \in DOMAIN files : ~PayloadHashOk(files[i])
        /\ Return("failure") /\ UNCHANGED item
  /\ UNCHANGED <<desc, synced, disk, opt, placed, verdict>>

----------------------------------------------------------------------------
\* The loop over the payloads.

HasPayload == pc = "next" /\ item <= Len(files)

SkipPayload ==
  /\ HasPayload /\ In.kind = "other"
  /\ item' = item + 1
  /\ UNCHANGED <<desc, pc, result, synced, mark, disk, opt, placed, verdict>>

StartRaw ==
  /\ HasPayload /\ In.kind = "raw" /\ Report(PayloadMark(item))
  /\ \/ ~In.inside /\ Conclude("failure")
     \/ In.inside /\ Goto("unpack") /\ UNCHANGED <<result, item, placed>>
  /\ UNCHANGED <<desc, synced, disk, opt, verdict>>

\* Decrypt or decompress.  gunzip deletes the packed form itself, once it is done.
\* A failure may leave a part of the image.
Unpack ==
  /\ pc = "unpack" /\ Silent
  /\ \/ In.form = "plain" /\ Goto("mount") /\ UNCHANGED <<arrived, unpacked, result, item, placed>>
     \/ /\ In.form # "plain" /\ In.there /\ unpacked' = unpacked \cup {item}
        /\ IF In.form = "gz" THEN Goto("mount") /\ arrived' = arrived \ {item}
           ELSE Goto("free") /\ UNCHANGED arrived
        /\ UNCHANGED <<result, item, placed>>
     \/ /\ In.form # "plain" /\ Conclude("failure")
        /\ unpacked' \in {unpacked, unpacked \cup {item}} /\ UNCHANGED arrived
  /\ UNCHANGED <<desc, synced, upload, workdir, mountpoints, refused, opt, verdict>>

\* The encrypted form is deleted.
FreePacked ==
  /\ pc = "free" /\ Silent /\ Goto("mount")
  /\ \/ arrived' = arrived \ {item} /\ UNCHANGED refused
     \/ Refused("packed", item) /\ UNCHANGED arrived
  /\ UNCHANGED <<desc, item, result, synced, upload, workdir, unpacked, mountpoints, opt, placed,
                 verdict>>

MakeMountPoint ==
  /\ pc = "mount" /\ Silent /\ Goto("mounting") /\ mntdirs' = mntdirs \cup {item}
  /\ UNCHANGED <<desc, item, result, synced, upload, work, mounted, refused, opt, placed, verdict>>

\* The outer finally clause, whose rmdir may fail.
RemoveMountPoint == \/ mntdirs' = mntdirs \ {item} /\ UNCHANGED refused
                    \/ Refused("rmdir", item) /\ UNCHANGED mntdirs

\* A mount that fails leaves through the outer finally clause: no umount.
Mount ==
  /\ pc = "mounting" /\ Report(MountMark(item))
  /\ \/ /\ In.there /\ mounted' = mounted \cup {item} /\ synced' = "success"
        /\ Goto("opt") /\ UNCHANGED <<mntdirs, refused, result, item, placed>>
     \/ RemoveMountPoint /\ Conclude("failure") /\ UNCHANGED <<mounted, synced>>
  /\ UNCHANGED <<desc, upload, work, opt, verdict>>

\* The trees are synchronised in place.  A failed rsync leaves /opt/move as it
\* was or partly overwritten; the data tree is synchronised all the same.
SyncOpt ==
  /\ pc = "opt"
  /\ \/ "opt" \notin In.trees /\ Goto("data") /\ Silent /\ UNCHANGED <<synced, opt>>
     \/ /\ "opt" \in In.trees /\ Report(OptMark(item))
        /\ \/ opt' = "new" /\ Goto("libs") /\ UNCHANGED synced
           \/ opt' \in {opt, "mixed"} /\ synced' = "failure" /\ Goto("data")
  /\ UNCHANGED <<desc, item, result, disk, placed, verdict>>

InstallMissingLibs ==
  /\ pc = "libs" /\ Report(LibsMark(item)) /\ Goto("data")
  /\ UNCHANGED <<desc, item, result, synced, disk, opt, placed, verdict>>

SyncData ==
  /\ pc = "data" /\ Goto("unmount")
  /\ \/ "data" \notin In.trees /\ Silent /\ UNCHANGED synced
     \/ "data" \in In.trees /\ Report(DataMark(item)) /\ synced' \in {synced, "failure"}
  /\ UNCHANGED <<desc, item, result, disk, opt, placed, verdict>>

\* The two finally clauses: umount, whose failure is not looked at, and rmdir,
\* which fails on a mount point that is still in use.
ReleaseNothing == UNCHANGED <<mountpoints, refused>>
Release == \/ mounted' = mounted \ {item} /\ RemoveMountPoint
           \/ Refused("umount", item) /\ UNCHANGED mountpoints

Unmount ==
  /\ pc = "unmount" /\ Silent /\ Release /\ Conclude(synced)
  /\ UNCHANGED <<desc, synced, upload, work, opt, verdict>>

\* An archive is decrypted and unpacked below /var/lib/move-data; both its forms
\* stay in the working directory.
InstallArchive ==
  /\ HasPayload /\ In.kind = "archive" /\ Report(PayloadMark(item))
  /\ \/ /\ In.inside /\ In.dest /\ In.there /\ Conclude("success")
        /\ unpacked' = IF In.form = "enc" THEN unpacked \cup {item} ELSE unpacked
     \/ /\ Conclude("failure")
        /\ \/ UNCHANGED unpacked
           \/ In.inside /\ In.dest /\ In.form = "enc" /\ unpacked' = unpacked \cup {item}
  /\ UNCHANGED <<desc, synced, upload, workdir, arrived, mountpoints, refused, opt, verdict>>

----------------------------------------------------------------------------
\* The scripts, whatever became of the payloads.  One that is missing, fails
\* or takes too long is passed over.

Finalize ==
  /\ pc = "next" /\ item > Len(files)
  /\ Report(95) /\ Goto("script") /\ item' = 1
  /\ UNCHANGED <<desc, result, synced, disk, opt, placed, verdict>>

RunScript ==
  /\ pc = "script" /\ item <= scripts /\ Silent
  /\ item' = item + 1
  /\ UNCHANGED <<desc, pc, result, synced, disk, opt, placed, verdict>>

Done ==
  /\ pc = "script" /\ item > scripts /\ Silent /\ Return(result)
  /\ UNCHANGED <<desc, item, synced, disk, opt, placed, verdict>>

\* An exception: the finally clauses on the way out run, and process_swu
\* answers "failure".  A mount point is made before the try statement that
\* removes it, with a report in between.
Raise ==
  /\ pc \notin {"begin", "cleanup", "over"} /\ Silent /\ Return("failure")
  /\ CASE pc \in {"opt", "libs", "data", "unmount"} -> Release
       [] pc = "mounting" -> UNCHANGED mounted /\ (UNCHANGED <<mntdirs, refused>> \/ RemoveMountPoint)
       [] OTHER -> UNCHANGED <<mountpoints, refused>>
  /\ unpacked' \in {unpacked, IF pc = "unpack" THEN unpacked \cup {item} ELSE unpacked}
  /\ opt' \in {opt, IF pc = "opt" THEN "mixed" ELSE opt}
  /\ UNCHANGED <<desc, item, synced, upload, workdir, arrived, placed, verdict>>

\* rmtree of the working directory, errors ignored.
Cleanup ==
  /\ pc = "cleanup" /\ Silent /\ Goto("over") /\ verdict' = result
  /\ \/ workdir' = FALSE /\ arrived' = {} /\ unpacked' = {} /\ UNCHANGED refused
     \/ Refused("workdir", 0) /\ UNCHANGED work
  /\ UNCHANGED <<desc, item, result, synced, upload, mountpoints, opt, placed>>

Next ==
  \/ Begin \/ Extract \/ Describe \/ VerifySignature \/ Parse \/ HashAll
  \/ SkipPayload \/ StartRaw \/ Unpack \/ FreePacked \/ MakeMountPoint \/ Mount \/ SyncOpt
  \/ InstallMissingLibs \/ SyncData \/ Unmount \/ InstallArchive \/ Finalize \/ RunScript \/ Done
  \/ Raise \/ Cleanup

Spec == Init /\ [][Next]_vars

----------------------------------------------------------------------------
\* Type correctness.
TypeOK ==
  /\ files \in FileLists /\ scripts \in 0..MaxScripts
  /\ pc \in Stages /\ item \in Nat \ {0}
  /\ result \in {"success", "failure"} /\ synced \in {"success", "failure"}
  /\ mark \in 0..95
  /\ {swu, saved, workdir} \subseteq BOOLEAN
  /\ arrived \cup unpacked \cup mntdirs \cup mounted \cup placed \subseteq 1..MaxFiles
  /\ refused \subseteq Removals
  /\ opt \in {"old", "mixed", "new"}
  /\ verdict \in {"none", "success", "failure", "raised"}

\* "success" is only said when every payload of a known type is in place and
\* /opt/move is not half written, although the loop goes on after a failed
\* payload and later ones succeed.
SuccessIsComplete ==
  verdict = "success" =>
    /\ \A i \in DOMAIN files : files[i].kind # "other" => i \in placed
    /\ opt # "mixed"

\* Nothing is put in place from a .swu that contains a payload with a wrong
\* hash, a missing payload that declares one, or one named outside the
\* working directory: all are hashed before the first is installed.
NothingUnverified ==
  opt # "old" \/ placed # {} =>
    \A i \in DOMAIN files :
      files[i].sha = "none" \/ (files[i].sha = "match" /\ files[i].there /\ files[i].inside)

\* Once something is unpacked, the upload is gone, unless its deletion was refused;
\* and of a raw image there is the unpacked form or the packed one: there is no
\* room for more.  Both are there while the packed form is about to be deleted,
\* or could not be, and after a payload that failed, although the next payload is
\* unpacked all the same.
RoomForImage ==
  /\ unpacked # {} => ~swu \/ <<"upload", 0>> \in refused
  /\ \A i \in arrived \cap unpacked :
       \/ files[i].kind = "archive" \/ (i = item /\ pc = "free")
       \/ <<"packed", i>> \in refused \/ (result = "failure" /\ i \notin placed)

\* Whatever way process_swu ends, it leaves nothing behind but what the system
\* refused to remove, a mount point that an exception met before the try
\* statement was entered, and a copy of an upload of which nothing was installed.
NothingLeftBehind ==
  verdict # "none" =>
    /\ workdir => <<"workdir", 0>> \in refused
    /\ \A i \in mounted : <<"umount", i>> \in refused
    /\ \A i \in mntdirs : \/ <<"umount", i>> \in refused \/ <<"rmdir", i>> \in refused
                          \/ verdict = "failure" /\ i = item
    /\ saved => verdict = "failure" /\ opt = "old" /\ placed = {}

\* process_swu does what the shim's event loop relies on.
Promise == INSTANCE Installer
PromiseKept == Promise!Spec
=============================================================================
