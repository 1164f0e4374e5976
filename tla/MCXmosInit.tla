----------------------------- MODULE MCXmosInit -----------------------------
EXTENDS XmosInitOlder

\* One byte of every class pack_midi tells apart: SysEx begin and end, a message
\* of three bytes and one of two, a real-time byte, data, and an unusable byte.
Classes == {240, 247, 176, 192, 255, 5, 241}
Sysex(n) == <<240>> \o [k \in 1..n |-> 5] \o <<247>>

\* Every short sequence, and SysEx messages of every length modulo the packet
\* size, alone and between other messages.
MCBatches ==
  UNION {[1..n -> Classes] : n \in 0..3}
    \cup {Sysex(n) : n \in 0..8}
    \cup {<<255>> \o Sysex(n) \o <<176, 5, 5>> : n \in 0..6}
    \cup {Sysex(n) \o Sysex(m) : n, m \in 0..4}
=============================================================================
