------------------------------ MODULE XmosInit ------------------------------
(***************************************************************************)
(* move-xmos-init (move-bringup/src/xmos-init/move-xmos-init.c): the tool  *)
(* that wakes the XMOS controller before any Move program runs.  It packs  *)
(* three batches of MIDI bytes as USB-MIDI packets into the shared page,   *)
(* exchanges frames through the ablspi driver and looks for the reply to   *)
(* one of its queries in what comes back.                                  *)
(*                                                                         *)
(* The three batches are any of Batches.  What the XMOS puts into a frame  *)
(* is a fragment: nothing, other events, the reply, or the first or second *)
(* half of a reply that does not fit one frame.  Its interrupt line is what *)
(* the driver waits for, without a time limit.                             *)
(***************************************************************************)
EXTENDS Integers, Sequences, SequencesExt

CONSTANTS
  Batches,      \* the byte sequences that are sent
  Slots,        \* packets the OUT region holds, MIDI_OUT_BYTES / 4
  Tries,        \* frames in each of the two sampling loops, 24 in the code
  AccumCap      \* fragments that fit the accumulator, 256 bytes in the code

ASSUME BatchAssumption == \A b \in Batches : b \in Seq(0..255)
ASSUME SizeAssumption == Slots \in Nat /\ Tries \in Nat /\ AccumCap \in Nat

Fragments == {"none", "events", "reply", "head", "tail"}

VARIABLES
  phase,        \* where main is
  src, i,       \* the batch in hand and how much of it is packed
  sysex,        \* in_sysex
  out,          \* the packets in the OUT region
  line,         \* what the driver makes of the next exchange
  mailbox,      \* the IN region
  asked,        \* has the XMOS got the query?
  frames,       \* exchanges done in this phase
  accum,        \* accum and accum_len
  mode,         \* was the reply found (captured_mode)?
  shown,        \* fragments the XMOS has put up
  sampled,      \* those the tool has looked at
  exit          \* exit status

packing == <<src, i, sysex, out>>
page == <<mailbox, asked, shown>>
link == <<line, page>>
looked == <<accum, mode, sampled>>
vars == <<phase, packing, link, frames, looked, exit>>

Phases == {"open", "wake", "pack0", "prelude", "pack1", "query", "pack2", "setup", "flush", "end"}

\* "edge": the driver has seen an edge of the XMOS's line since the last exchange,
\* or will see one; "silent": it has not and never will; "refused": it has no
\* interrupt (-ENODEV) or is in_transfer for good (-EBUSY), and does not wait.
Lines == {"edge", "silent", "refused"}

Init ==
  /\ phase = "open" /\ src = <<>> /\ i = 1 /\ sysex = FALSE /\ out = <<>>
  /\ line \in Lines /\ mailbox = "none" /\ asked = FALSE /\ frames = 0 /\ accum = <<>>
  /\ mode = FALSE /\ shown = {} /\ sampled = {} /\ exit = "none"

Exit(status) == phase' = "end" /\ exit' = status

\* The page is cleared and pack_midi starts on a batch.
StartPacking(p) ==
  /\ phase' = p /\ src' \in Batches /\ i' = 1 /\ sysex' = FALSE /\ out' = <<>>

\* open, mmap and SET_SPEED.
Open ==
  /\ phase = "open"
  /\ \/ StartPacking("pack0") /\ UNCHANGED exit
     \/ Exit("1") /\ UNCHANGED packing
  /\ UNCHANGED <<link, frames, looked>>

----------------------------------------------------------------------------
\* pack_midi, one packet per step.

Packing == phase \in {"pack0", "pack1", "pack2"}
Byte == src[i]
Kind(b) == b \div 16
\* Up to the first end-of-SysEx byte from i on, that byte included.
SysexEnds == {k \in i..Len(src) : src[k] = 247}
Remaining == (CHOOSE k \in SysexEnds : \A l \in SysexEnds : k <= l) - i + 1

Packet(cin, n) ==
  [cin |-> cin, data |-> [k \in 1..3 |-> IF k <= n THEN src[i + k - 1] ELSE 0]]
Emit(cin, n) == out' = Append(out, Packet(cin, n)) /\ i' = i + n

OverrunByOne == Len(out) > Slots
RegionFull == Len(out) >= Slots
More == Packing /\ i <= Len(src) /\ ~RegionFull
InSysex == Byte = 240 \/ sysex

\* A SysEx goes out three bytes at a time, its last one to three bytes under a
\* code that says how many they are.
CodeSeven(n) == 7
LastCode(n) == 4 + n
PackSysex ==
  /\ More /\ InSysex /\ SysexEnds # {}
  /\ \/ Remaining <= 3 /\ Emit(LastCode(Remaining), Remaining) /\ sysex' = FALSE
     \/ Remaining > 3 /\ Emit(4, 3) /\ sysex' = TRUE
  /\ UNCHANGED <<phase, src, link, frames, looked, exit>>

\* Channel messages: the code number is the status nibble.
PackChannel ==
  /\ More /\ ~InSysex
  /\ \/ Kind(Byte) \in {8, 9, 10, 11, 14} /\ i + 2 <= Len(src) /\ Emit(Kind(Byte), 3)
     \/ Kind(Byte) \in {12, 13} /\ i + 1 <= Len(src) /\ Emit(Kind(Byte), 2)
  /\ UNCHANGED <<phase, src, sysex, link, frames, looked, exit>>

PackRealTime ==
  /\ More /\ ~InSysex /\ Byte >= 248 /\ Emit(15, 1)
  /\ UNCHANGED <<phase, src, sysex, link, frames, looked, exit>>

\* No room, a message cut short, or a byte that begins none.
Unpackable ==
  \/ RegionFull
  \/ InSysex /\ SysexEnds = {}
  \/ /\ ~InSysex
     /\ \/ Kind(Byte) \in {8, 9, 10, 11, 14} /\ i + 2 > Len(src)
        \/ Kind(Byte) \in {12, 13} /\ i + 1 > Len(src)
        \/ Kind(Byte) < 8 \/ Byte \in 241..247
PackFails ==
  /\ Packing /\ i <= Len(src) /\ Unpackable /\ Exit("1")
  /\ UNCHANGED <<packing, link, frames, looked>>

\* The packets stay in the page; src and i are of no further use.
SendPhase == CASE phase = "pack0" -> "prelude" [] phase = "pack1" -> "query"
               [] phase = "pack2" -> "setup"
PackDone ==
  /\ Packing /\ i > Len(src)
  /\ phase' = SendPhase /\ frames' = 0
  /\ src' = <<>> /\ i' = 1 /\ sysex' = FALSE /\ out' = <<>>
  /\ UNCHANGED <<link, looked, exit>>

----------------------------------------------------------------------------
\* reassemble_in and find_mode_reply.

\* How many bytes a packet carries, by its code number.
Carried(cin) == CASE cin \in {4, 7, 8, 9, 10, 11, 14} -> 3 [] cin \in {6, 12, 13} -> 2
                  [] cin \in {5, 15} -> 1 [] OTHER -> 0
Reassemble(packets) ==
  FlattenSeq([k \in DOMAIN packets |-> SubSeq(packets[k].data, 1, Carried(packets[k].cin))])

\* The whole prefix, the mode byte and one byte more.
HeadIsEnough(frags) == \E k \in DOMAIN frags : frags[k] \in {"reply", "head"}
FindModeReply(frags) ==
  \E k \in DOMAIN frags :
    \/ frags[k] = "reply"
    \/ frags[k] = "head" /\ k < Len(frags) /\ frags[k + 1] = "tail"

\* memcpy into what is left of the accumulator.
Accumulated(frag) == IF frag = "none" \/ Len(accum) >= AccumCap THEN accum
                     ELSE Append(accum, frag)

----------------------------------------------------------------------------
\* The driver's part of one ioctl WAIT_AND_SEND_MESSAGE_WITH_SIZE: it uses up the
\* edge, also when the transfer then fails, and after that the XMOS raises its line
\* again or does not.  With a silent line the ioctl never returns.
Await ==
  \/ line = "refused" /\ UNCHANGED line
  \/ line = "edge" /\ line' \in {"edge", "silent"}

\* What a frame brings.  The XMOS answers once it has had the query; a second half
\* comes after a first half.
Answers ==
  IF ~asked' THEN {"none", "events"}
  ELSE {"none", "events", "reply", "head"}
       \cup (IF "head" \in shown THEN {"tail"} ELSE {})
Transfer ==
  /\ asked' = (asked \/ phase \in {"query", "setup"})
  /\ mailbox' \in Answers
  /\ shown' = shown \cup ({mailbox'} \ {"none", "events"})

\* The result of the ioctl is not looked at: when it fails, the page holds what it
\* held.
Exchange == Await /\ (UNCHANGED page \/ (line = "edge" /\ Transfer))
NoSample == UNCHANGED looked
\* Every sampled frame is gathered and searched by itself.
SampleOnlyGathers ==
  accum' = Accumulated(mailbox') /\ mode' = FALSE /\ sampled' = sampled \cup {mailbox'}
Sample ==
  /\ accum' = Accumulated(mailbox') /\ mode' = FindModeReply(<<mailbox'>>)
  /\ sampled' = sampled \cup {mailbox'}

\* The prelude, held for four frames.
Prelude ==
  /\ phase = "prelude" /\ Exchange /\ NoSample
  /\ IF frames < 3 THEN frames' = frames + 1 /\ UNCHANGED <<phase, packing>>
     ELSE frames' = 0 /\ StartPacking("pack1")
  /\ UNCHANGED exit

RenewedByEvents(n) == IF mailbox' = "none" THEN n + 1 ELSE 0
CountsFrames(n) == n + 1
Query ==
  /\ phase = "query" /\ frames < Tries /\ ~mode /\ Exchange /\ Sample
  /\ frames' = CountsFrames(frames)
  /\ UNCHANGED <<phase, packing, exit>>
QueryDone ==
  /\ phase = "query" /\ (frames = Tries \/ mode) /\ StartPacking("pack2")
  /\ UNCHANGED <<link, frames, looked, exit>>

\* The first frame of the last batch is not sampled; then the loop goes on
\* while the reply is missing.
SetupFirst ==
  /\ phase = "setup" /\ frames = 0 /\ Exchange /\ NoSample
  /\ frames' = 1
  /\ UNCHANGED <<phase, packing, exit>>
Setup ==
  /\ phase = "setup" /\ frames \in 1..Tries /\ ~mode /\ Exchange /\ Sample
  /\ frames' = CountsFrames(frames)
  /\ UNCHANGED <<phase, packing, exit>>
\* The last look, at all that was gathered.
LookAgain == mode \/ FindModeReply(accum)
SetupDone ==
  /\ phase = "setup" /\ (frames = Tries + 1 \/ (frames > 0 /\ mode))
  /\ mode' = LookAgain /\ phase' = "flush" /\ frames' = 0
  /\ UNCHANGED <<packing, link, accum, sampled, exit>>

\* Five frames with an empty OUT region; what they bring does not matter.
Flush ==
  /\ phase = "flush" /\ frames < 5 /\ Await
  /\ frames' = frames + 1
  /\ UNCHANGED <<phase, packing, page, looked, exit>>
Report ==
  /\ phase = "flush" /\ frames = 5 /\ Exit(IF mode THEN "0" ELSE "1")
  /\ UNCHANGED <<packing, link, frames, looked>>

Next ==
  \/ Open \/ PackSysex \/ PackChannel \/ PackRealTime \/ PackFails \/ PackDone
  \/ Prelude \/ Query \/ QueryDone \/ SetupFirst \/ Setup \/ SetupDone \/ Flush \/ Report

Spec == Init /\ [][Next]_vars

\* The program runs whenever it is not in an ioctl that waits for the line.
FairSpec == Spec /\ WF_vars(Next)

----------------------------------------------------------------------------
\* Type correctness.
TypeOK ==
  /\ phase \in Phases /\ exit \in {"none", "0", "1"}
  /\ src \in Batches \cup {<<>>} /\ i \in 1..(Len(src) + 1) /\ sysex \in BOOLEAN
  /\ out \in Seq([cin : 4..15, data : [1..3 -> 0..255]])
  /\ line \in Lines /\ mailbox \in Fragments /\ shown \subseteq Fragments /\ asked \in BOOLEAN
  /\ sampled \subseteq Fragments /\ frames \in 0..(Tries + 30) /\ mode \in BOOLEAN
  /\ accum \in Seq(Fragments) /\ Len(accum) <= AccumCap

\* At every step of pack_midi the packets written so far, taken apart again the
\* way the receiving side does, are the bytes consumed so far: no byte is lost,
\* doubled or put under a wrong code number.
PacketsDecode == Packing => Reassemble(out) = SubSeq(src, 1, i - 1)

\* No packet is written behind the OUT region, and no reply behind the accumulator.
NoOverrun == Len(out) <= Slots /\ Len(accum) <= AccumCap

\* Success is only reported when the XMOS has put up a reply, in one piece or in
\* two, in frames that were looked at.
OkMeansReply == exit = "0" => "reply" \in sampled \/ {"head", "tail"} \subseteq sampled

\* A reply that is in one of the sampled frames, even if in no other, is found,
\* whatever filled the accumulator before it ("sample every frame instead of just
\* at the end").
ReplyNotMissed == phase = "flush" /\ "reply" \in sampled => mode

\* The tool comes to its end when no reply ever comes, when other events fill every
\* frame, and when the driver refuses every ioctl.  The one thing that keeps it is a
\* line that stays silent, also after the transfer of one frame has failed: it then
\* hangs in the driver for ever.
Hangs == line = "silent" /\ phase \in {"wake", "prelude", "query", "setup", "flush"}
EndsOrHangs == <>[](phase = "end" \/ Hangs)
=============================================================================
