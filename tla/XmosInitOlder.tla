--------------------------- MODULE XmosInitOlder ----------------------------
(***************************************************************************)
(* The older move-xmos-init (scripts/move-xmos-init.c), next to the one    *)
(* the package builds.  Its packer knows no real-time bytes; it begins     *)
(* with frames of its own instead of a prelude, holds its two batches for  *)
(* six frames each, and looks at the IN region once, at the very end.      *)
(***************************************************************************)
EXTENDS XmosInit

VARIABLE tool   \* which of the two programs was started

allVars == <<vars, tool>>

\* The frames of each phase: the kick by SEND_MESSAGE_AND_WAIT and three more,
\* each batch once and five times more, and thirty with an empty OUT region.
FramesOf == [wake |-> 4, query |-> 6, setup |-> 6, flush |-> 30]

OlderOpen ==
  /\ phase = "open"
  /\ \/ phase' = "wake" /\ UNCHANGED exit
     \/ Exit("1")
  /\ UNCHANGED <<packing, link, frames, looked>>

\* pack_midi without the branch for real-time bytes.
OlderPack == PackSysex \/ PackChannel
OlderUnpackable == Unpackable \/ (~InSysex /\ Byte >= 248)
OlderPackFails ==
  /\ Packing /\ i <= Len(src) /\ OlderUnpackable /\ Exit("1")
  /\ UNCHANGED <<packing, link, frames, looked>>

\* SEND_MESSAGE_AND_WAIT does not wait for the line, and without an interrupt it is
\* not refused.
Kick ==
  /\ phase = "wake" /\ frames = 0
  /\ line' \in {line} \cup (IF line = "silent" THEN {"edge"} ELSE {})
  /\ UNCHANGED page \/ Transfer

\* One exchange; nobody looks at what it brings.
Frame ==
  /\ phase \in DOMAIN FramesOf /\ frames < FramesOf[phase]
  /\ IF phase = "wake" /\ frames = 0 THEN Kick ELSE Exchange
  /\ NoSample /\ frames' = frames + 1
  /\ UNCHANGED <<phase, packing, exit>>

WakeDone ==
  /\ phase = "wake" /\ frames = FramesOf["wake"] /\ StartPacking("pack1")
  /\ UNCHANGED <<link, frames, looked, exit>>
BatchDone ==
  /\ frames = 6
  /\ \/ phase = "query" /\ StartPacking("pack2")
     \/ phase = "setup" /\ phase' = "flush" /\ UNCHANGED packing
  /\ frames' = 0
  /\ UNCHANGED <<link, looked, exit>>

\* The one look, at the region as the last frame left it.
Check ==
  /\ phase = "flush" /\ frames = FramesOf["flush"]
  /\ mode' = FindModeReply(<<mailbox>>) /\ sampled' = {mailbox}
  /\ Exit(IF mode' THEN "0" ELSE "1")
  /\ UNCHANGED <<packing, link, frames, accum>>

OlderNext ==
  \/ OlderOpen \/ OlderPack \/ OlderPackFails \/ PackDone
  \/ Frame \/ WakeDone \/ BatchDone \/ Check

----------------------------------------------------------------------------
ToolsInit == Init /\ tool \in {"packaged", "older"}
ToolsNext ==
  /\ \/ tool = "packaged" /\ Next
     \/ tool = "older" /\ OlderNext
  /\ UNCHANGED tool
ToolsSpec == ToolsInit /\ [][ToolsNext]_allVars
FairToolsSpec == ToolsSpec /\ WF_allVars(ToolsNext)
=============================================================================
