------------------------- MODULE ConnmanTechnology --------------------------
(***************************************************************************)
(* The Powered property of the ConnMan shim's technology: SetProperty      *)
(* passes it on to NetworkManager and announces it with PropertyChanged    *)
(* once NetworkManager has answered.  Each call is a coroutine, so they    *)
(* overlap; the bus keeps the order of messages in each direction, and     *)
(* the loop that of the coroutines it wakes.                               *)
(***************************************************************************)
EXTENDS Naturals, Sequences

CONSTANT MaxFaults   \* bound: calls NetworkManager refuses

VARIABLES
  powered,         \* NetworkManager's WirelessEnabled
  claimed,         \* the last PropertyChanged("Powered")
  sets, replies,   \* requests to NetworkManager, and its replies
  faults

technologyVars == <<powered, claimed, sets, replies>>

Switch == {"on", "off"}
None == "none"

Init == powered = "on" /\ claimed = None /\ sets = <<>> /\ replies = <<>>

\* PropertyChanged does not wait for the answer, a variant for the mutation checks.
AnnouncesFirst(v) == claimed' = v
BeforeReply(v) == UNCHANGED claimed

SetProperty(v) ==
  /\ Len(sets \o replies) < 3     \* bound: calls at once
  /\ sets' = Append(sets, v) /\ BeforeReply(v)
  /\ UNCHANGED <<powered, replies, faults>>

SetDone ==
  /\ sets # <<>> /\ sets' = Tail(sets)
  /\ powered' = Head(sets) /\ replies' = Append(replies, Head(sets))
  /\ UNCHANGED <<claimed, faults>>

\* An error raises in SetProperty, before PropertyChanged.
SetRefused ==
  /\ faults < MaxFaults /\ faults' = faults + 1
  /\ sets # <<>> /\ sets' = Tail(sets)
  /\ UNCHANGED <<powered, claimed, replies>>

PropertyChanged ==
  /\ replies # <<>> /\ replies' = Tail(replies) /\ claimed' = Head(replies)
  /\ UNCHANGED <<powered, sets, faults>>

Next == (\E v \in Switch : SetProperty(v)) \/ SetDone \/ SetRefused \/ PropertyChanged

Spec == Init /\ faults = 0 /\ [][Next]_<<technologyVars, faults>>

-----------------------------------------------------------------------------
\* However calls of SetProperty overlap and NetworkManager refuses them: when all are
\* answered, the last PropertyChanged said what Powered is.  (A change made by
\* another program is not announced at all.)
PowerAgrees == sets = <<>> /\ replies = <<>> /\ claimed # None => claimed = powered
=============================================================================
