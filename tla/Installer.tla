----------------------------- MODULE Installer -----------------------------
(***************************************************************************)
(* What the swupdate shim relies on when it hands an uploaded .swu file to *)
(* process_swu: a percentage that only grows and never claims more than    *)
(* 95 before the verdict, a verdict that is given once, and an upload      *)
(* that, once it is deleted, stays deleted.                                *)
(***************************************************************************)
EXTENDS Integers

VARIABLES
  mark,      \* the last percentage reported
  swu,       \* is the uploaded file still there?
  verdict    \* "none" until process_swu ends; "raised" when it raises

Verdicts == {"success", "failure", "raised"}

Init == mark = 0 /\ swu = TRUE /\ verdict = "none"

\* Some work is done, with or without a report.
Progress == /\ verdict = "none" /\ verdict' = "none"
            /\ mark' \in mark..95
            /\ swu' \in {swu, FALSE}

\* Success takes the whole way.
Conclude == /\ verdict = "none" /\ verdict' \in Verdicts
            /\ verdict' = "success" => mark = 95
            /\ UNCHANGED <<mark, swu>>

Next == Progress \/ Conclude

Spec == Init /\ [][Next]_<<mark, swu, verdict>>
=============================================================================
