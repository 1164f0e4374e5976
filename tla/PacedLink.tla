----------------------------- MODULE PacedLink -----------------------------
(***************************************************************************)
(* What the transfer path promises to the two ends of the link: the host   *)
(* sends a frame, the wire exchanges it, the XMOS answers with one edge,   *)
(* and only then may the host send again.  The host goes first, because    *)
(* the XMOS is silent until it has got a frame.                            *)
(***************************************************************************)
VARIABLE turn      \* whose move it is: "host", "wire" or "xmos"

Init == turn = "host"

Pass(from, to) == turn = from /\ turn' = to

Send    == Pass("host", "wire")
Deliver == Pass("wire", "xmos")
Edge    == Pass("xmos", "host")

Next == Send \/ Deliver \/ Edge
Spec == Init /\ [][Next]_turn
\* The wire and the XMOS answer; the host sends when its tasks call.
FairSpec == Spec /\ WF_turn(Deliver) /\ WF_turn(Edge)
=============================================================================
