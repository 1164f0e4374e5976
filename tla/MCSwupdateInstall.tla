------------------------- MODULE MCSwupdateInstall -------------------------
\* Payloads that differ in every respect the code looks at.
EXTENDS SwupdateInstall

Raw(s, f, t) == [kind |-> "raw", inside |-> TRUE, dest |-> FALSE, sha |-> s,
                 there |-> TRUE, form |-> f, trees |-> t]
Archive(s, f, d) == [kind |-> "archive", inside |-> TRUE, dest |-> d, sha |-> s,
                     there |-> TRUE, form |-> f, trees |-> {}]

MCPayloads ==
  { Raw("match", "enc", {"opt", "data"}), Raw("none", "plain", {"data"}),
    Raw("none", "gz", {"opt"}), Raw("differs", "enc", {"opt"}),
    [Raw("none", "enc", {"opt"}) EXCEPT !.there = FALSE],
    [Raw("none", "enc", {"opt"}) EXCEPT !.inside = FALSE],
    Archive("match", "enc", TRUE), Archive("none", "plain", FALSE),
    [Archive("none", "plain", TRUE) EXCEPT !.kind = "other"] }
=============================================================================
