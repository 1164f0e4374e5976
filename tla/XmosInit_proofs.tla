-------------------------- MODULE XmosInit_proofs --------------------------
(***************************************************************************)
(* Proofs about both versions of move-xmos-init, for any batches, any size *)
(* of the OUT region and of the accumulator, and any number of tries.      *)
(***************************************************************************)
EXTENDS XmosInitOlder, SequenceTheorems, WellFoundedInduction, TLAPS

\* What has been looked at decides: a reply in one frame has set the flag, and the
\* flag was set by what some frames held.
LooksAgree ==
  /\ \A k \in DOMAIN accum : accum[k] \in sampled
  /\ mode => "reply" \in sampled \/ {"head", "tail"} \subseteq sampled
  /\ "reply" \in sampled => mode
  /\ exit = "0" => mode
  /\ exit = "0" => phase = "end"
  /\ tool = "older" => accum = <<>>

IInv ==
  /\ tool \in {"packaged", "older"} /\ TypeOK /\ NoOverrun /\ LooksAgree /\ PacketsDecode

-----------------------------------------------------------------------------
(* The packer. *)

LEMMA BatchesAreBytes ==
  ASSUME TypeOK
  PROVE  src \in Seq(0..255) /\ i \in Nat \ {0} /\ Len(src) \in Nat
<1>1. src \in Seq(0..255)
  <2>1. CASE src \in Batches BY <2>1, BatchAssumption
  <2>2. CASE src = <<>> BY <2>2
  <2> QED BY <2>1, <2>2 DEF TypeOK
<1> QED BY <1>1 DEF TypeOK

\* An end of SysEx at or behind i, if there is one, is at the place Remaining says.
LEMMA RemainingInside ==
  ASSUME src \in Seq(0..255), i \in Nat \ {0}, SysexEnds # {}
  PROVE  Remaining \in Nat \ {0} /\ i + Remaining - 1 <= Len(src)
<1>1. SysexEnds \subseteq Nat
      BY DEF SysexEnds
<1>2. PICK m \in SysexEnds : \A n \in SysexEnds : ~(<<n, m>> \in OpToRel(<, Nat))
  <2> HIDE DEF SysexEnds
  <2> QED BY <1>1, NatLessThanWellFounded, WFMin
<1>3. \A n \in SysexEnds : m <= n
  <2> SUFFICES ASSUME NEW n \in SysexEnds, n < m PROVE FALSE
      BY <1>1
  <2>1. <<n, m>> \in OpToRel(<, Nat)
        BY <1>1 DEF OpToRel
  <2> QED BY <1>2, <2>1
<1>4. PICK k \in SysexEnds : Remaining = k - i + 1
  <2> DEFINE least == CHOOSE k \in SysexEnds : \A l \in SysexEnds : k <= l
  <2>1. least \in SysexEnds
        BY <1>3
  <2> QED BY <2>1 DEF Remaining
<1> QED BY <1>4 DEF SysexEnds

\* A packet holds bytes of the batch and zeros.
LEMMA PacketShape ==
  ASSUME src \in Seq(0..255), i \in Nat \ {0}, NEW cin \in 4..15, NEW n \in 1..3,
         i + n - 1 <= Len(src)
  PROVE  Packet(cin, n) \in [cin : 4..15, data : [1..3 -> 0..255]]
<1>1. ASSUME NEW k \in 1..3 PROVE (IF k <= n THEN src[i + k - 1] ELSE 0) \in 0..255
  <2>1. CASE k <= n
    <3>1. i + k - 1 \in 1..Len(src)
          BY <2>1
    <3>2. src[i + k - 1] \in 0..255
          BY <3>1, ElementOfSeq
    <3> QED BY <2>1, <3>2
  <2> QED BY <2>1
<1> QED BY <1>1 DEF Packet

\* One packet more fits, and leaves the index in the batch or just behind it.
LEMMA EmitKeeps ==
  ASSUME TypeOK, NoOverrun, More, NEW cin \in 4..15, NEW n \in 1..3,
         i + n - 1 <= Len(src), Emit(cin, n), src' = src
  PROVE  /\ out' \in Seq([cin : 4..15, data : [1..3 -> 0..255]]) /\ Len(out') <= Slots
         /\ i' \in 1..(Len(src) + 1)
<1>1. src \in Seq(0..255) /\ i \in Nat \ {0} /\ Len(src) \in Nat
      BY BatchesAreBytes
<1>2. Packet(cin, n) \in [cin : 4..15, data : [1..3 -> 0..255]]
      BY <1>1, PacketShape
<1>3. i' = i + n
      BY DEF Emit
<1>4. Len(out) < Slots
      BY SizeAssumption DEF More, RegionFull, TypeOK
<1> QED BY <1>1, <1>2, <1>3, <1>4, SizeAssumption DEF Emit, TypeOK

-----------------------------------------------------------------------------
(* FlattenSeq. *)

\* Induction up to n, over a set.
LEMMA UpTo ==
  ASSUME NEW n \in Nat, NEW A, 1 \in A, \A k \in 2..n : k - 1 \in A => k \in A
  PROVE  \A k \in 1..n : k \in A
<1> DEFINE Bad == {k \in 1..n : k \notin A}
<1> SUFFICES ASSUME Bad # {} PROVE FALSE
    OBVIOUS
<1>1. Bad \subseteq Nat
    OBVIOUS
<1>2. PICK m \in Bad : \A k \in Bad : ~(<<k, m>> \in OpToRel(<, Nat))
  <2> HIDE DEF Bad
  <2> QED BY <1>1, NatLessThanWellFounded, WFMin
<1>3. m \in 2..n /\ m - 1 \in 1..n /\ m - 1 < m
    OBVIOUS
<1>4. m - 1 \in Bad
    BY <1>3
<1>5. <<m - 1, m>> \in OpToRel(<, Nat)
    BY <1>3 DEF OpToRel
<1> QED BY <1>2, <1>4, <1>5

\* The function that FlattenSeq defines exists.
LEMMA FlattenEquation ==
  ASSUME NEW T, NEW seqs \in Seq(Seq(T)), seqs # <<>>
  PROVE  \E g \in [1..Len(seqs) -> Seq(T)] :
           /\ FlattenSeq(seqs) = g[Len(seqs)]
           /\ g[1] = seqs[1]
           /\ \A n \in 2..Len(seqs) : g[n] = g[n - 1] \o seqs[n]
<1> DEFINE Joined(g, n) == IF n = 1 THEN seqs[n] ELSE g[n - 1] \o seqs[n]
           A == {n \in 1..Len(seqs) :
                   \E g \in [1..n -> Seq(T)] : \A k \in 1..n : g[k] = Joined(g, k)}
<1>0. Len(seqs) \in Nat \ {0} /\ \A n \in 1..Len(seqs) : seqs[n] \in Seq(T)
    OBVIOUS
<1>1. 1 \in A
  <2> DEFINE g == [k \in 1..1 |-> seqs[k]]
  <2>1. g \in [1..1 -> Seq(T)] /\ \A k \in 1..1 : g[k] = Joined(g, k)
      BY <1>0
  <2>2. 1 \in 1..Len(seqs)
      BY <1>0
  <2> HIDE DEF g, Joined
  <2> QED BY <2>1, <2>2
<1>2. ASSUME NEW n \in 2..Len(seqs), n - 1 \in A PROVE n \in A
  <2>1. PICK g \in [1..(n - 1) -> Seq(T)] : \A k \in 1..(n - 1) : g[k] = Joined(g, k)
      BY <1>2
  <2>2. n \in 1..Len(seqs) /\ n # 1 /\ n - 1 \in 1..(n - 1)
      OBVIOUS
  <2>3. seqs[n] \in Seq(T) /\ g[n - 1] \in Seq(T)
      BY <1>0, <2>2
  <2>4. Joined(g, n) \in Seq(T)
      BY <2>2, <2>3, ConcatProperties
  <2> DEFINE h == [k \in 1..n |-> IF k < n THEN g[k] ELSE Joined(g, n)]
  <2>5. h \in [1..n -> Seq(T)]
    <3>1. \A k \in 1..n : k < n => k \in 1..(n - 1)
        OBVIOUS
    <3> HIDE DEF Joined
    <3> QED BY <2>4, <3>1
  <2>6. ASSUME NEW k \in 1..n PROVE h[k] = Joined(h, k)
    <3>1. CASE k = n
      <4>1. h[n - 1] = g[n - 1] /\ h[n] = Joined(g, n)
          OBVIOUS
      <4> QED BY <2>2, <3>1, <4>1
    <3>2. CASE k < n
      <4>1. h[k] = g[k] /\ (k # 1 => h[k - 1] = g[k - 1]) /\ k \in 1..(n - 1)
          BY <3>2
      <4>2. g[k] = Joined(g, k)
          BY <2>1, <4>1
      <4> QED BY <4>1, <4>2
    <3> QED BY <3>1, <3>2
  <2>7. h \in [1..n -> Seq(T)] /\ \A k \in 1..n : h[k] = Joined(h, k)
    <3> HIDE DEF h, Joined
    <3> QED BY <2>5, <2>6
  <2> HIDE DEF h, Joined
  <2> QED BY <2>2, <2>7
<1>3. Len(seqs) \in A
  <2> HIDE DEF A
  <2>1. Len(seqs) \in Nat /\ Len(seqs) \in 1..Len(seqs)
      BY <1>0
  <2> QED BY <1>1, <1>2, <2>1, UpTo
<1>4. PICK g \in [1..Len(seqs) -> Seq(T)] : \A k \in 1..Len(seqs) : g[k] = Joined(g, k)
    BY <1>3
<1> DEFINE f == CHOOSE f : f = [n \in 1..Len(seqs) |-> Joined(f, n)]
<1>5. g = [n \in 1..Len(seqs) |-> Joined(g, n)]
    BY <1>4
<1>6. f = [n \in 1..Len(seqs) |-> Joined(f, n)]
    BY <1>5
<1>7. FlattenSeq(seqs) = f[Len(seqs)]
    BY <1>0 DEF FlattenSeq
<1>8. /\ DOMAIN f = 1..Len(seqs) /\ f[1] = seqs[1]
      /\ \A n \in 2..Len(seqs) : f[n] = f[n - 1] \o seqs[n]
  <2> HIDE DEF f
  <2>1. \A n \in 1..Len(seqs) : f[n] = Joined(f, n)
      BY <1>6
  <2>2. 1 \in 1..Len(seqs) /\ \A n \in 2..Len(seqs) : n \in 1..Len(seqs) /\ n # 1
      BY <1>0
  <2> QED BY <1>6, <2>1, <2>2
<1> DEFINE B == {n \in 1..Len(seqs) : f[n] \in Seq(T)}
<1> HIDE DEF f
<1>9. \A n \in 1..Len(seqs) : n \in B
  <2>1. 1 \in B
      BY <1>0, <1>8
  <2>2. ASSUME NEW n \in 2..Len(seqs), n - 1 \in B PROVE n \in B
    <3>1. n \in 1..Len(seqs) /\ f[n - 1] \in Seq(T) /\ seqs[n] \in Seq(T)
        BY <1>0, <2>2
    <3>2. f[n - 1] \o seqs[n] \in Seq(T)
        BY <3>1, ConcatProperties
    <3> QED BY <1>8, <3>1, <3>2
  <2> HIDE DEF B
  <2> QED BY <1>0, <2>1, <2>2, UpTo
<1>10. f \in [1..Len(seqs) -> Seq(T)]
  <2>1. f = [n \in 1..Len(seqs) |-> f[n]]
      BY <1>6
  <2> QED BY <1>9, <2>1
<1> QED BY <1>7, <1>8, <1>10

\* One sequence more is one sequence more at the end.
LEMMA FlattenAppend ==
  ASSUME NEW T, NEW seqs \in Seq(Seq(T)), NEW e \in Seq(T)
  PROVE  /\ FlattenSeq(seqs) \in Seq(T)
         /\ FlattenSeq(Append(seqs, e)) = FlattenSeq(seqs) \o e
<1> DEFINE more == Append(seqs, e)
<1>1. /\ more \in Seq(Seq(T)) /\ more # <<>> /\ Len(more) = Len(seqs) + 1 /\ Len(seqs) \in Nat
      /\ more[Len(seqs) + 1] = e /\ \A n \in 1..Len(seqs) : more[n] = seqs[n]
    BY AppendProperties
<1> HIDE DEF more
<1>a. more \in Seq(Seq(T)) /\ more # <<>>
    BY <1>1
<1>2. PICK h \in [1..Len(more) -> Seq(T)] :
        /\ FlattenSeq(more) = h[Len(more)] /\ h[1] = more[1]
        /\ \A n \in 2..Len(more) : h[n] = h[n - 1] \o more[n]
    BY <1>a, FlattenEquation
<1>3. CASE seqs = <<>>
  <2>1. Len(seqs) = 0
      BY <1>3
  <2>2. FlattenSeq(seqs) = <<>>
      BY <1>3, <2>1 DEF FlattenSeq
  <2>3. FlattenSeq(more) = e
      BY <1>1, <1>2, <2>1
  <2>4. <<>> \o e = e /\ <<>> \in Seq(T)
      BY ConcatEmptySeq
  <2> QED BY <2>2, <2>3, <2>4 DEF more
<1>4. CASE seqs # <<>>
  <2>1. PICK g \in [1..Len(seqs) -> Seq(T)] :
          /\ FlattenSeq(seqs) = g[Len(seqs)] /\ g[1] = seqs[1]
          /\ \A n \in 2..Len(seqs) : g[n] = g[n - 1] \o seqs[n]
      BY <1>4, FlattenEquation
  <2>2. Len(seqs) \in Nat \ {0}
      BY <1>4
  <2> DEFINE A == {n \in 1..Len(seqs) : h[n] = g[n]}
  <2>3. 1 \in A
      BY <1>1, <1>2, <2>1, <2>2
  <2>4. ASSUME NEW n \in 2..Len(seqs), n - 1 \in A PROVE n \in A
    <3>1. n \in 1..Len(seqs) /\ n \in 2..Len(more)
        BY <1>1, <2>2
    <3>2. h[n] = h[n - 1] \o more[n] /\ g[n] = g[n - 1] \o seqs[n] /\ more[n] = seqs[n]
        BY <1>1, <1>2, <2>1, <3>1
    <3> QED BY <2>4, <3>1, <3>2
  <2>5. Len(seqs) \in A
    <3> HIDE DEF A
    <3>1. Len(seqs) \in 1..Len(seqs)
        BY <2>2
    <3> QED BY <2>2, <2>3, <2>4, <3>1, UpTo
  <2>6. Len(more) \in 2..Len(more) /\ Len(more) - 1 = Len(seqs)
      BY <1>1, <2>2
  <2>7. FlattenSeq(more) = h[Len(seqs)] \o e
      BY <1>1, <1>2, <2>6
  <2>8. g[Len(seqs)] \in Seq(T)
    <3>1. Len(seqs) \in 1..Len(seqs)
        BY <2>2
    <3> QED BY <3>1
  <2> QED BY <2>1, <2>5, <2>7, <2>8 DEF more
<1> QED BY <1>3, <1>4

-----------------------------------------------------------------------------
(* What the receiving side makes of the packets. *)

Packets == [cin : 4..15, data : [1..3 -> 0..255]]
Unpacked(p) == SubSeq(p.data, 1, Carried(p.cin))

\* A packet carries bytes, at most its three.
LEMMA UnpackedBytes == ASSUME NEW p \in Packets PROVE Unpacked(p) \in Seq(0..255)
<1>1. Carried(p.cin) \in 0..3
    BY DEF Carried, Packets
<1>2. \A k \in 1..Carried(p.cin) : p.data[k] \in 0..255
    BY <1>1 DEF Packets
<1> QED BY <1>1, <1>2, SubSeqProperties DEF Unpacked

\* One packet more is its bytes at the end.
LEMMA ReassembleAppend ==
  ASSUME NEW packets \in Seq(Packets), NEW p \in Packets
  PROVE  /\ Reassemble(packets) \in Seq(0..255)
         /\ Reassemble(Append(packets, p)) = Reassemble(packets) \o Unpacked(p)
<1> DEFINE seqs == [k \in DOMAIN packets |-> Unpacked(packets[k])]
           more == Append(packets, p)
           longer == [k \in DOMAIN more |-> Unpacked(more[k])]
<1>1. /\ DOMAIN packets = 1..Len(packets) /\ Len(packets) \in Nat
      /\ \A k \in DOMAIN packets : packets[k] \in Packets
    OBVIOUS
<1>2. seqs \in [1..Len(packets) -> Seq(0..255)]
  <2>1. \A k \in DOMAIN packets : Unpacked(packets[k]) \in Seq(0..255)
      BY <1>1, UnpackedBytes
  <2> QED BY <1>1, <2>1
<1>3. seqs \in Seq(Seq(0..255)) /\ Len(seqs) = Len(packets)
  <2> HIDE DEF seqs
  <2> QED BY <1>1, <1>2
<1>4. Unpacked(p) \in Seq(0..255)
    BY UnpackedBytes
<1>5. longer = Append(seqs, Unpacked(p))
  <2>1. /\ more \in Seq(Packets) /\ Len(more) = Len(packets) + 1 /\ DOMAIN more = 1..Len(more)
        /\ more[Len(packets) + 1] = p /\ \A k \in 1..Len(packets) : more[k] = packets[k]
      BY AppendProperties
  <2> DEFINE other == Append(seqs, Unpacked(p))
  <2>2. /\ other \in Seq(Seq(0..255)) /\ Len(other) = Len(packets) + 1
        /\ other[Len(packets) + 1] = Unpacked(p) /\ \A k \in 1..Len(packets) : other[k] = seqs[k]
    <3> HIDE DEF seqs
    <3> QED BY <1>3, <1>4, AppendProperties
  <2>3. \A k \in 1..Len(packets) : seqs[k] = Unpacked(packets[k])
      BY <1>1
  <2>4. longer = [k \in 1..(Len(packets) + 1) |-> Unpacked(more[k])]
      BY <2>1
  <2>5. DOMAIN other = 1..(Len(packets) + 1) /\ other = [k \in DOMAIN other |-> other[k]]
    <3> HIDE DEF other
    <3> QED BY <2>2
  <2>6. \A k \in 1..(Len(packets) + 1) : k \in 1..Len(packets) \/ k = Len(packets) + 1
      BY <1>1
  <2>7. \A k \in 1..(Len(packets) + 1) : Unpacked(more[k]) = other[k]
    <3> HIDE DEF other, more, seqs
    <3> QED BY <2>1, <2>2, <2>3, <2>6
  <2> HIDE DEF other, more, seqs, longer
  <2>8. other = longer
      BY <2>4, <2>5, <2>7
  <2> QED BY <2>8 DEF other
<1>6. Reassemble(packets) = FlattenSeq(seqs) /\ Reassemble(more) = FlattenSeq(longer)
    BY DEF Reassemble, Unpacked
<1>7. /\ FlattenSeq(seqs) \in Seq(0..255)
      /\ FlattenSeq(Append(seqs, Unpacked(p))) = FlattenSeq(seqs) \o Unpacked(p)
  <2> HIDE DEF seqs
  <2> QED BY <1>3, <1>4, FlattenAppend
<1> HIDE DEF seqs, longer
<1> QED BY <1>5, <1>6, <1>7

\* A prefix and what follows it are a longer prefix.
LEMMA PrefixGrows ==
  ASSUME NEW s \in Seq(0..255), NEW k \in Nat \ {0}, NEW n \in 1..3, k + n - 1 <= Len(s),
         NEW d \in Seq(0..255), Len(d) = n, \A j \in 1..n : d[j] = s[k + j - 1]
  PROVE  SubSeq(s, 1, k - 1) \o d = SubSeq(s, 1, (k + n) - 1)
<1> DEFINE before == SubSeq(s, 1, k - 1)  after == SubSeq(s, 1, (k + n) - 1)
<1>1. /\ before \in Seq(0..255) /\ Len(before) = k - 1
      /\ \A j \in 1..(k - 1) : before[j] = s[j]
  <2>1. \A j \in 1..(k - 1) : s[j] \in 0..255
    <3>1. \A j \in 1..(k - 1) : j \in 1..Len(s)
        OBVIOUS
    <3> QED BY <3>1, ElementOfSeq
  <2>2. /\ before \in Seq(0..255) /\ Len(before) = IF 1 <= k - 1 THEN k - 1 - 1 + 1 ELSE 0
        /\ \A j \in 1..(k - 1 - 1 + 1) : before[j] = s[1 + j - 1]
      BY <2>1, SubSeqProperties
  <2> HIDE DEF before
  <2> QED BY <2>2
<1>2. /\ after \in Seq(0..255) /\ Len(after) = k + n - 1
      /\ \A j \in 1..(k + n - 1) : after[j] = s[j]
  <2>1. \A j \in 1..((k + n) - 1) : s[j] \in 0..255
    <3>1. \A j \in 1..((k + n) - 1) : j \in 1..Len(s)
        OBVIOUS
    <3> QED BY <3>1, ElementOfSeq
  <2>2. /\ after \in Seq(0..255)
        /\ Len(after) = IF 1 <= (k + n) - 1 THEN (k + n) - 1 - 1 + 1 ELSE 0
        /\ \A j \in 1..((k + n) - 1 - 1 + 1) : after[j] = s[1 + j - 1]
      BY <2>1, SubSeqProperties
  <2> HIDE DEF after
  <2> QED BY <2>2
<1> HIDE DEF before, after
<1>3. /\ before \o d \in Seq(0..255) /\ Len(before \o d) = (k - 1) + n
      /\ \A j \in 1..((k - 1) + n) :
           (before \o d)[j] = IF j <= k - 1 THEN before[j] ELSE d[j - (k - 1)]
    BY <1>1, ConcatProperties
<1>4. ASSUME NEW j \in 1..((k - 1) + n) PROVE (before \o d)[j] = after[j]
  <2>1. CASE j <= k - 1
    <3>1. j \in 1..(k - 1) /\ j \in 1..(k + n - 1)
        BY <2>1
    <3> QED BY <1>1, <1>2, <1>3, <2>1, <3>1
  <2>2. CASE ~(j <= k - 1)
    <3>1. j - (k - 1) \in 1..n /\ k + (j - (k - 1)) - 1 = j /\ j \in 1..(k + n - 1)
        BY <2>2
    <3>2. d[j - (k - 1)] = s[j]
        BY <3>1
    <3> QED BY <1>2, <1>3, <2>2, <3>1, <3>2
  <2> QED BY <2>1, <2>2
<1>5. before \o d = after
  <2>1. Len(before \o d) = Len(after) /\ Len(before \o d) = (k - 1) + n
      BY <1>2, <1>3
  <2>2. \A j \in 1..Len(before \o d) : (before \o d)[j] = after[j]
      BY <1>4, <2>1
  <2> QED BY <1>2, <1>3, <2>1, <2>2, SeqEqual
<1> QED BY <1>5 DEF before, after

\* A packet under the right code number carries the bytes it was made of.
LEMMA EmitDecodes ==
  ASSUME TypeOK, Reassemble(out) = SubSeq(src, 1, i - 1), NEW cin \in 4..15, NEW n \in 1..3,
         Carried(cin) = n, i + n - 1 <= Len(src), Emit(cin, n), src' = src
  PROVE  Reassemble(out') = SubSeq(src', 1, i' - 1)
<1>1. src \in Seq(0..255) /\ i \in Nat \ {0} /\ Len(src) \in Nat
    BY BatchesAreBytes
<1>2. Packet(cin, n) \in Packets /\ out \in Seq(Packets)
    BY <1>1, PacketShape DEF Packets, TypeOK
<1> DEFINE d == Unpacked(Packet(cin, n))
<1>3. Reassemble(out') = Reassemble(out) \o d
    BY <1>2, ReassembleAppend DEF Emit
<1>4. d \in Seq(0..255)
    BY <1>2, UnpackedBytes
<1>5. /\ Packet(cin, n).cin = cin
      /\ \A k \in 1..3 : Packet(cin, n).data[k] = IF k <= n THEN src[i + k - 1] ELSE 0
    BY DEF Packet
<1>6. PICK p \in [1..3 -> 0..255] : p = Packet(cin, n).data
    BY <1>2 DEF Packets
<1>a. d = SubSeq(p, 1, n)
    BY <1>5, <1>6 DEF Unpacked
<1>7. Len(d) = n /\ \A k \in 1..n : d[k] = src[i + k - 1]
  <2>1. \A k \in 1..n : p[k] \in 0..255
    <3>1. \A k \in 1..n : k \in 1..3
        OBVIOUS
    <3>2. \A k \in 1..3 : p[k] \in 0..255
        OBVIOUS
    <3> QED BY <3>1, <3>2
  <2>2. /\ Len(SubSeq(p, 1, n)) = IF 1 <= n THEN n - 1 + 1 ELSE 0
        /\ \A k \in 1..(n - 1 + 1) : SubSeq(p, 1, n)[k] = p[1 + k - 1]
      BY <2>1, SubSeqProperties
  <2>3. n - 1 + 1 = n /\ 1 <= n /\ \A k \in 1..n : 1 + k - 1 = k /\ k \in 1..3 /\ k <= n
      OBVIOUS
  <2>4. Len(d) = n /\ \A k \in 1..n : d[k] = p[k]
    <3> HIDE DEF d
    <3> QED BY <1>a, <2>2, <2>3
  <2> HIDE DEF d
  <2> QED BY <1>5, <1>6, <2>3, <2>4
<1> HIDE DEF d
<1>8. SubSeq(src, 1, i - 1) \o d = SubSeq(src, 1, (i + n) - 1)
    BY <1>1, <1>4, <1>7, PrefixGrows
<1>9. i' = i + n
    BY DEF Emit
<1> QED BY <1>3, <1>8, <1>9

-----------------------------------------------------------------------------
(* Steps. *)

LEMMA InitHolds == ToolsInit => IInv
<1> SUFFICES ASSUME ToolsInit PROVE IInv
    OBVIOUS
<1>1. TypeOK
  <2>1. src = <<>> /\ i = 1 /\ out = <<>> /\ accum = <<>> /\ frames = 0
        BY DEF ToolsInit, Init
  <2>2. /\ src \in Batches \cup {<<>>} /\ i \in 1..(Len(src) + 1)
        /\ out \in Seq([cin : 4..15, data : [1..3 -> 0..255]])
        BY <2>1
  <2>3. accum \in Seq(Fragments) /\ Len(accum) <= AccumCap /\ frames \in 0..(Tries + 30)
        BY <2>1, SizeAssumption
  <2> QED BY <2>2, <2>3 DEF ToolsInit, Init, TypeOK, Phases, Lines, Fragments
<1>2. NoOverrun
      BY SizeAssumption DEF ToolsInit, Init, NoOverrun
<1>3. LooksAgree
      BY DEF ToolsInit, Init, LooksAgree
<1>4. PacketsDecode
      BY DEF ToolsInit, Init, PacketsDecode, Packing
<1> QED BY <1>1, <1>2, <1>3, <1>4 DEF IInv, ToolsInit

\* The packing variables of a step.
PackingKept ==
  /\ src \in Batches \cup {<<>>} /\ i \in 1..(Len(src) + 1) /\ sysex \in BOOLEAN
  /\ out \in Seq([cin : 4..15, data : [1..3 -> 0..255]]) /\ Len(out) <= Slots

LEMMA StartKeeps == ASSUME NEW p, StartPacking(p) PROVE PackingKept'
<1>1. src' \in Seq(0..255) /\ src' \in Batches
      BY BatchAssumption DEF StartPacking
<1>2. Len(src') \in Nat /\ i' = 1 /\ sysex' = FALSE /\ out' = <<>>
      BY <1>1 DEF StartPacking
<1>3. /\ out' \in Seq([cin : 4..15, data : [1..3 -> 0..255]]) /\ Len(out') <= Slots
      /\ i' \in 1..(Len(src') + 1)
      BY <1>2, SizeAssumption
<1> QED BY <1>1, <1>2, <1>3 DEF PackingKept

LEMMA PackKeeps ==
  ASSUME TypeOK, NoOverrun, PackSysex \/ PackChannel \/ PackRealTime
  PROVE  PackingKept'
<1>1. src \in Seq(0..255) /\ i \in Nat \ {0} /\ Len(src) \in Nat
      BY BatchesAreBytes
<1>2. ASSUME NEW cin \in 4..15, NEW n \in 1..3, i + n - 1 <= Len(src), More, Emit(cin, n),
             src' = src, sysex' \in BOOLEAN
      PROVE  PackingKept'
      BY <1>2, EmitKeeps DEF PackingKept, TypeOK
<1>3. CASE PackSysex
  <2>1. Remaining \in Nat \ {0} /\ i + Remaining - 1 <= Len(src)
        BY <1>1, <1>3, RemainingInside DEF PackSysex
  <2>2. CASE Remaining <= 3
    <3>1. LastCode(Remaining) \in 4..15 /\ Remaining \in 1..3
          BY <2>1, <2>2 DEF LastCode
    <3>2. ~(Remaining > 3)
          BY <2>1, <2>2
    <3>3. /\ More /\ Emit(LastCode(Remaining), Remaining)
          /\ src' = src /\ sysex' \in BOOLEAN
          BY <1>3, <3>2, Zenon DEF PackSysex
    <3> QED BY <1>2, <2>1, <3>1, <3>3
  <2>3. CASE Remaining > 3
    <3>1. ~(Remaining <= 3)
          BY <2>1, <2>3
    <3>2. More /\ Emit(4, 3) /\ src' = src /\ sysex' \in BOOLEAN
          BY <1>3, <3>1, Zenon DEF PackSysex
    <3>3. i + 3 - 1 <= Len(src)
          BY <1>1, <2>1, <2>3
    <3> QED BY <1>2, <3>2, <3>3
  <2> QED BY <2>1, <2>2, <2>3
<1>4. CASE PackChannel
  <2>1. CASE Kind(Byte) \in {8, 9, 10, 11, 14} /\ i + 2 <= Len(src) /\ Emit(Kind(Byte), 3)
    <3>1. Kind(Byte) \in 4..15 /\ 3 \in 1..3 /\ i + 3 - 1 <= Len(src)
          BY <1>1, <2>1
    <3>2. More /\ src' = src /\ sysex' \in BOOLEAN
          BY <1>4 DEF PackChannel, TypeOK
    <3> QED BY <1>2, <2>1, <3>1, <3>2
  <2>2. CASE Kind(Byte) \in {12, 13} /\ i + 1 <= Len(src) /\ Emit(Kind(Byte), 2)
    <3>1. Kind(Byte) \in 4..15 /\ 2 \in 1..3 /\ i + 2 - 1 <= Len(src)
          BY <1>1, <2>2
    <3>2. More /\ src' = src /\ sysex' \in BOOLEAN
          BY <1>4 DEF PackChannel, TypeOK
    <3> QED BY <1>2, <2>2, <3>1, <3>2
  <2> QED BY <1>4, <2>1, <2>2 DEF PackChannel
<1>5. CASE PackRealTime
      BY <1>1, <1>2, <1>5 DEF PackRealTime, More, TypeOK
<1> QED BY <1>3, <1>4, <1>5

\* What a transfer puts into the page is a fragment.
LEMMA TransferTypes ==
  ASSUME TypeOK, Transfer
  PROVE  mailbox' \in Fragments /\ shown' \subseteq Fragments /\ asked' \in BOOLEAN
BY DEF TypeOK, Transfer, Answers, Fragments

\* A look at a frame gathers it and decides whether it was the reply.
LEMMA SampleKeeps ==
  ASSUME TypeOK, LooksAgree, ~mode, mailbox' \in Fragments, Sample
  PROVE  /\ accum' \in Seq(Fragments) /\ Len(accum') <= AccumCap
         /\ sampled' \subseteq Fragments /\ mode' \in BOOLEAN
         /\ \A k \in DOMAIN accum' : accum'[k] \in sampled'
         /\ mode' => "reply" \in sampled'
         /\ "reply" \in sampled' => mode'
<1>1. mode' = FindModeReply(<<mailbox'>>) /\ sampled' = sampled \cup {mailbox'}
      BY DEF Sample
<1>2. mode' \in BOOLEAN
      BY <1>1 DEF FindModeReply
<1>3. mode' <=> mailbox' = "reply"
  <2>1. DOMAIN <<mailbox'>> = {1} /\ <<mailbox'>>[1] = mailbox' /\ Len(<<mailbox'>>) = 1
        OBVIOUS
  <2> QED BY <1>1, <2>1 DEF FindModeReply
<1>4. "reply" \notin sampled
      BY DEF LooksAgree
<1>5. CASE accum' = accum
      BY <1>1, <1>2, <1>3, <1>4, <1>5 DEF TypeOK, LooksAgree
<1>6. CASE accum' = Append(accum, mailbox') /\ Len(accum) < AccumCap
  <2>1. accum' \in Seq(Fragments) /\ Len(accum') = Len(accum) + 1 /\ Len(accum) \in Nat
        BY <1>6 DEF TypeOK
  <2>2. ASSUME NEW k \in DOMAIN accum' PROVE accum'[k] \in sampled'
    <3>1. (k \in DOMAIN accum /\ accum'[k] = accum[k]) \/ accum'[k] = mailbox'
          BY <1>6, <2>1 DEF TypeOK
    <3> QED BY <1>1, <3>1 DEF LooksAgree
  <2> QED BY <1>1, <1>2, <1>3, <1>4, <1>6, <2>1, <2>2, SizeAssumption DEF TypeOK
<1> QED BY <1>5, <1>6, SizeAssumption DEF Sample, Accumulated, TypeOK

Step == [ToolsNext]_allVars

LEMMA PackingStep == TypeOK /\ NoOverrun /\ Step => PackingKept'
<1> SUFFICES ASSUME TypeOK, NoOverrun, Step PROVE PackingKept'
    OBVIOUS
<1>1. CASE UNCHANGED packing
      BY <1>1 DEF packing, TypeOK, NoOverrun, PackingKept
<1>2. CASE \E p \in Phases : StartPacking(p)
      BY <1>2, StartKeeps
<1>3. CASE PackSysex \/ PackChannel \/ PackRealTime
      BY <1>3, PackKeeps
<1>4. CASE PackDone
  <2>1. src' = <<>> /\ i' = 1 /\ sysex' = FALSE /\ out' = <<>>
        BY <1>4 DEF PackDone
  <2>2. /\ out' \in Seq([cin : 4..15, data : [1..3 -> 0..255]]) /\ Len(out') <= Slots
        /\ i' \in 1..(Len(src') + 1)
        BY <2>1, SizeAssumption
  <2> QED BY <2>1, <2>2 DEF PackingKept
<1>5. CASE Open BY <1>1, <1>2, <1>5 DEF Open, Phases
<1>6. CASE Prelude BY <1>1, <1>2, <1>6 DEF Prelude, Phases
<1>7. CASE QueryDone BY <1>2, <1>7 DEF QueryDone, Phases
<1>8. CASE WakeDone \/ BatchDone BY <1>1, <1>2, <1>8 DEF WakeDone, BatchDone, Phases
<1>9. CASE PackFails \/ Query \/ SetupFirst \/ Setup \/ SetupDone \/ Flush \/ Report
      BY <1>1, <1>9 DEF PackFails, Query, SetupFirst, Setup, SetupDone, Flush, Report
<1>10. CASE OlderOpen \/ OlderPackFails \/ Frame \/ Check
      BY <1>1, <1>10 DEF OlderOpen, OlderPackFails, Frame, Check
<1> QED BY <1>1, <1>3, <1>4, <1>5, <1>6, <1>7, <1>8, <1>9, <1>10
    DEF Step, ToolsNext, Next, OlderNext, OlderPack, allVars, vars

\* The packets written so far carry the bytes packed so far.
Decoded == Reassemble(out) = SubSeq(src, 1, i - 1)

LEMMA StartDecodes == ASSUME NEW p, StartPacking(p) PROVE Decoded'
<1>1. out' = <<>> /\ i' = 1
      BY DEF StartPacking
<1> DEFINE seqs == [k \in DOMAIN <<>> |-> SubSeq(<<>>[k].data, 1, Carried(<<>>[k].cin))]
<1>2. Reassemble(<<>>) = FlattenSeq(seqs)
      BY DEF Reassemble
<1>3. seqs = <<>>
      OBVIOUS
<1> HIDE DEF seqs
<1>4. FlattenSeq(seqs) = <<>>
      BY <1>3 DEF FlattenSeq
<1>5. SubSeq(src', 1, 1 - 1) = <<>>
      BY SubSeqEmpty
<1> QED BY <1>1, <1>2, <1>4, <1>5 DEF Decoded

LEMMA PackDecodes ==
  ASSUME TypeOK, PacketsDecode, PackSysex \/ PackChannel \/ PackRealTime
  PROVE  Decoded'
<1>1. src \in Seq(0..255) /\ i \in Nat \ {0} /\ Len(src) \in Nat
      BY BatchesAreBytes
<1>2. Reassemble(out) = SubSeq(src, 1, i - 1)
      BY DEF PacketsDecode, PackSysex, PackChannel, PackRealTime, More
<1>3. ASSUME NEW cin \in 4..15, NEW n \in 1..3, Carried(cin) = n, i + n - 1 <= Len(src),
             Emit(cin, n), src' = src
      PROVE  Decoded'
      BY <1>2, <1>3, EmitDecodes DEF Decoded
<1>4. CASE PackSysex
  <2>1. Remaining \in Nat \ {0} /\ i + Remaining - 1 <= Len(src)
        BY <1>1, <1>4, RemainingInside DEF PackSysex
  <2>2. CASE Remaining <= 3
    <3>1. /\ LastCode(Remaining) \in 4..15 /\ Remaining \in 1..3
          /\ Carried(LastCode(Remaining)) = Remaining
      <4>1. Remaining \in 1..3
            BY <2>1, <2>2
      <4>2. ASSUME NEW n \in 1..3 PROVE LastCode(n) \in 4..15 /\ Carried(LastCode(n)) = n
            BY DEF LastCode, Carried
      <4> QED BY <4>1, <4>2
    <3>2. ~(Remaining > 3)
          BY <2>1, <2>2
    <3>3. Emit(LastCode(Remaining), Remaining) /\ src' = src
          BY <1>4, <3>2, Zenon DEF PackSysex
    <3> QED BY <1>3, <2>1, <3>1, <3>3
  <2>3. CASE Remaining > 3
    <3>1. ~(Remaining <= 3)
          BY <2>1, <2>3
    <3>2. Emit(4, 3) /\ src' = src
          BY <1>4, <3>1, Zenon DEF PackSysex
    <3>3. i + 3 - 1 <= Len(src) /\ 4 \in 4..15 /\ 3 \in 1..3
          BY <1>1, <2>1, <2>3
    <3>4. Carried(4) = 3
          BY DEF Carried
    <3> QED BY <1>3, <3>2, <3>3, <3>4
  <2> QED BY <2>1, <2>2, <2>3
<1>5. CASE PackChannel
  <2>1. CASE Kind(Byte) \in {8, 9, 10, 11, 14} /\ i + 2 <= Len(src) /\ Emit(Kind(Byte), 3)
    <3>1. Kind(Byte) \in 4..15 /\ 3 \in 1..3 /\ i + 3 - 1 <= Len(src)
          BY <1>1, <2>1
    <3>2. Carried(Kind(Byte)) = 3
          BY <2>1 DEF Carried
    <3> QED BY <1>3, <1>5, <2>1, <3>1, <3>2 DEF PackChannel
  <2>2. CASE Kind(Byte) \in {12, 13} /\ i + 1 <= Len(src) /\ Emit(Kind(Byte), 2)
    <3>1. Kind(Byte) \in 4..15 /\ 2 \in 1..3 /\ i + 2 - 1 <= Len(src)
          BY <1>1, <2>2
    <3>2. Carried(Kind(Byte)) = 2
          BY <2>2 DEF Carried
    <3> QED BY <1>3, <1>5, <2>2, <3>1, <3>2 DEF PackChannel
  <2> QED BY <1>5, <2>1, <2>2 DEF PackChannel
<1>6. CASE PackRealTime
  <2>1. Emit(15, 1) /\ src' = src /\ i <= Len(src)
        BY <1>6 DEF PackRealTime, More
  <2>2. i + 1 - 1 <= Len(src) /\ 15 \in 4..15 /\ 1 \in 1..3
        BY <1>1, <2>1
  <2>3. Carried(15) = 1
        BY DEF Carried
  <2> QED BY <1>3, <2>1, <2>2, <2>3
<1> QED BY <1>4, <1>5, <1>6

LEMMA DecodeStep == TypeOK /\ PacketsDecode /\ Step => PacketsDecode'
<1> SUFFICES ASSUME TypeOK, PacketsDecode, Step PROVE PacketsDecode'
    OBVIOUS
<1>1. CASE ~Packing'
      BY <1>1 DEF PacketsDecode
<1>2. CASE UNCHANGED <<phase, packing>>
      BY <1>2 DEF packing, PacketsDecode, Packing
<1>3. CASE \E p \in Phases : StartPacking(p)
      BY <1>3, StartDecodes DEF Decoded, PacketsDecode
<1>4. CASE PackSysex \/ PackChannel \/ PackRealTime
      BY <1>4, PackDecodes DEF Decoded, PacketsDecode
<1> USE DEF Exit, Packing
<1>5. CASE Open BY <1>1, <1>3, <1>5 DEF Open, Phases
<1>6. CASE PackDone BY <1>1, <1>6 DEF PackDone, SendPhase
<1>7. CASE PackFails \/ OlderPackFails \/ Check
      BY <1>1, <1>7 DEF PackFails, OlderPackFails, Check
<1>8. CASE Prelude BY <1>2, <1>3, <1>8 DEF Prelude, Phases
<1>9. CASE QueryDone BY <1>3, <1>9 DEF QueryDone, Phases
<1>10. CASE WakeDone \/ BatchDone BY <1>1, <1>3, <1>10 DEF WakeDone, BatchDone, Phases
<1>11. CASE Query \/ SetupFirst \/ Setup \/ SetupDone \/ Frame
       BY <1>1, <1>2, <1>11 DEF Query, SetupFirst, Setup, SetupDone, Frame
<1>12. CASE Flush \/ Report BY <1>1, <1>2, <1>12 DEF Flush, Report
<1>13. CASE OlderOpen BY <1>1, <1>13 DEF OlderOpen
<1>14. CASE UNCHANGED allVars BY <1>2, <1>14 DEF allVars, vars
<1> QED BY <1>4, <1>5, <1>6, <1>7, <1>8, <1>9, <1>10, <1>11, <1>12, <1>13, <1>14
    DEF Step, ToolsNext, Next, OlderNext, OlderPack

\* Where the tool is, its exit status and its frame counter.
ControlKept ==
  /\ phase \in Phases /\ exit \in {"none", "0", "1"} /\ frames \in 0..(Tries + 30)
  /\ tool \in {"packaged", "older"}

LEMMA ControlStep == IInv /\ Step => ControlKept'
<1> SUFFICES ASSUME IInv, Step PROVE ControlKept'
    OBVIOUS
<1> USE DEF ControlKept, Exit, StartPacking, Phases
<1>0. /\ phase \in Phases /\ exit \in {"none", "0", "1"} /\ frames \in 0..(Tries + 30)
      /\ Tries \in Nat /\ tool \in {"packaged", "older"} /\ tool' = tool
      BY SizeAssumption DEF IInv, TypeOK, Step, ToolsNext, allVars
<1>1. CASE Open BY <1>0, <1>1 DEF Open
<1>2. CASE PackSysex \/ PackChannel \/ PackRealTime
      BY <1>0, <1>2 DEF PackSysex, PackChannel, PackRealTime
<1>3. CASE PackFails \/ OlderPackFails BY <1>0, <1>3 DEF PackFails, OlderPackFails
<1>4. CASE PackDone BY <1>0, <1>4 DEF PackDone, Packing, SendPhase
<1>5. CASE Prelude BY <1>0, <1>5 DEF Prelude
<1>6. CASE Query BY <1>0, <1>6 DEF Query, CountsFrames
<1>7. CASE QueryDone BY <1>0, <1>7 DEF QueryDone
<1>8. CASE SetupFirst BY <1>0, <1>8 DEF SetupFirst
<1>9. CASE Setup BY <1>0, <1>9 DEF Setup, CountsFrames
<1>10. CASE SetupDone BY <1>0, <1>10 DEF SetupDone
<1>11. CASE Flush \/ Report BY <1>0, <1>11 DEF Flush, Report
<1>12. CASE OlderOpen BY <1>0, <1>12 DEF OlderOpen
<1>13. CASE Frame BY <1>0, <1>13 DEF Frame, FramesOf
<1>14. CASE WakeDone BY <1>0, <1>14 DEF WakeDone
<1>15. CASE BatchDone BY <1>0, <1>15 DEF BatchDone
<1>16. CASE Check BY <1>0, <1>16 DEF Check
<1>17. CASE UNCHANGED allVars BY <1>0, <1>17 DEF allVars, vars
<1> QED BY <1>1, <1>2, <1>3, <1>4, <1>5, <1>6, <1>7, <1>8, <1>9, <1>10, <1>11, <1>12, <1>13,
      <1>14, <1>15, <1>16, <1>17 DEF Step, ToolsNext, Next, OlderNext, OlderPack

LinkKept ==
  /\ line \in Lines /\ mailbox \in Fragments /\ shown \subseteq Fragments
  /\ asked \in BOOLEAN

LEMMA LinkStep == TypeOK /\ Step => LinkKept'
<1> SUFFICES ASSUME TypeOK, Step PROVE LinkKept'
    OBVIOUS
<1>1. UNCHANGED link \/ Exchange \/ Kick \/ (Await /\ UNCHANGED page)
      BY DEF Step, ToolsNext, Next, OlderNext, OlderPack, allVars, vars, Open, PackSysex,
         PackChannel, PackRealTime, PackFails, PackDone, Prelude, Query, QueryDone,
         SetupFirst, Setup, SetupDone, Flush, Report, OlderOpen, OlderPackFails, Frame,
         WakeDone, BatchDone, Check
<1>2. line' \in Lines
      BY <1>1 DEF TypeOK, Lines, link, Exchange, Await, Kick
<1>3. UNCHANGED page \/ Transfer
      BY <1>1 DEF link, Exchange, Kick
<1>4. CASE UNCHANGED page
      BY <1>2, <1>4 DEF page, TypeOK, LinkKept
<1>5. CASE Transfer
      BY <1>2, <1>5, TransferTypes DEF LinkKept
<1> QED BY <1>3, <1>4, <1>5

LooksKept ==
  /\ accum \in Seq(Fragments) /\ Len(accum) <= AccumCap
  /\ sampled \subseteq Fragments /\ mode \in BOOLEAN

\* Once it has ended, nothing happens any more.
LEMMA EndIsFinal == phase = "end" /\ Step => UNCHANGED allVars
BY DEF Step, ToolsNext, Next, OlderNext, OlderPack, Open, PackSysex, PackChannel,
   PackRealTime, PackFails, PackDone, Prelude, Query, QueryDone, SetupFirst, Setup,
   SetupDone, Flush, Report, OlderOpen, OlderPackFails, Frame, WakeDone, BatchDone, Check, More,
   Packing, FramesOf

LEMMA LooksStep == IInv /\ Step => LooksKept' /\ LooksAgree'
<1> SUFFICES ASSUME IInv, Step PROVE LooksKept' /\ LooksAgree'
    OBVIOUS
<1>0. TypeOK /\ LooksAgree /\ LooksKept /\ tool' = tool /\ tool \in {"packaged", "older"}
      BY DEF IInv, TypeOK, LooksKept, Step, ToolsNext, allVars
<1> USE DEF Exit
<1>1. CASE UNCHANGED allVars
      BY <1>0, <1>1 DEF allVars, vars, looked, LooksKept, LooksAgree
<1>2. CASE UNCHANGED looked /\ exit' = exit /\ exit # "0"
      BY <1>0, <1>2 DEF looked, LooksKept, LooksAgree
<1>3. CASE UNCHANGED looked /\ exit' = "1"
      BY <1>0, <1>3 DEF looked, LooksKept, LooksAgree
<1>4. CASE UNCHANGED looked /\ exit' = "0" /\ mode /\ phase' = "end"
      BY <1>0, <1>4 DEF looked, LooksKept, LooksAgree
<1>5. CASE tool = "packaged" /\ (Query \/ Setup)
  <2>1. Sample /\ ~mode /\ exit' = exit /\ exit # "0"
        BY <1>0, <1>5 DEF Query, Setup, LooksAgree
  <2>2. mailbox' \in Fragments
        BY <1>0, LinkStep DEF LinkKept
  <2> QED BY <1>0, <1>5, <2>1, <2>2, SampleKeeps DEF LooksKept, LooksAgree
<1>6. CASE tool = "packaged" /\ SetupDone
  <2>1. UNCHANGED <<accum, sampled, exit>> /\ mode' = LookAgain /\ exit # "0"
        BY <1>0, <1>6 DEF SetupDone, LooksAgree
  <2>2. mode \in BOOLEAN /\ FindModeReply(accum) \in BOOLEAN
        BY <1>0 DEF LooksKept, FindModeReply
  <2>3. FindModeReply(accum) => "reply" \in sampled \/ {"head", "tail"} \subseteq sampled
    <3>1. ASSUME NEW k \in DOMAIN accum, k < Len(accum) PROVE k + 1 \in DOMAIN accum
          BY <1>0, <3>1 DEF LooksKept
    <3>2. \A k \in DOMAIN accum : accum[k] \in sampled
          BY <1>0 DEF LooksAgree
    <3> QED BY <3>1, <3>2 DEF FindModeReply
  <2> QED BY <1>0, <1>6, <2>1, <2>2, <2>3 DEF LookAgain, LooksKept, LooksAgree
<1>7. CASE tool = "older" /\ Check
  <2>1. /\ accum' = accum /\ accum = <<>> /\ sampled' = {mailbox}
        /\ mode' = FindModeReply(<<mailbox>>) /\ mailbox \in Fragments
        /\ phase' = "end" /\ exit' = IF mode' THEN "0" ELSE "1"
        BY <1>0, <1>7 DEF Check, LooksAgree, TypeOK
  <2>2. mode' \in BOOLEAN
        BY <2>1 DEF FindModeReply
  <2>3. mode' <=> mailbox = "reply"
    <3>1. DOMAIN <<mailbox>> = {1} /\ <<mailbox>>[1] = mailbox /\ Len(<<mailbox>>) = 1
          OBVIOUS
    <3> QED BY <2>1, <3>1 DEF FindModeReply
  <2>4. accum' \in Seq(Fragments) /\ Len(accum') <= AccumCap /\ DOMAIN accum' = {}
        BY <2>1, SizeAssumption
  <2> QED BY <1>0, <1>7, <2>1, <2>2, <2>3, <2>4 DEF LooksKept, LooksAgree
<1>8. CASE tool = "packaged" /\ Next /\ exit # "0"
  <2>1. CASE Query \/ Setup \/ SetupDone BY <1>5, <1>6, <1>8, <2>1
  <2>2. CASE Open BY <1>2, <1>3, <1>8, <2>2 DEF Open
  <2>3. CASE PackFails BY <1>3, <1>8, <2>3 DEF PackFails
  <2>4. CASE Flush \/ Report BY <1>2, <1>3, <1>4, <1>8, <2>4 DEF Flush, Report
  <2>5. CASE PackSysex \/ PackChannel \/ PackRealTime \/ PackDone
        BY <1>2, <1>8, <2>5 DEF PackSysex, PackChannel, PackRealTime, PackDone
  <2>6. CASE Prelude \/ QueryDone \/ SetupFirst
        BY <1>2, <1>8, <2>6 DEF Prelude, QueryDone, SetupFirst, NoSample
  <2> QED BY <1>8, <2>1, <2>2, <2>3, <2>4, <2>5, <2>6 DEF Next
<1>9. CASE tool = "older" /\ OlderNext /\ exit # "0"
  <2>1. CASE OlderOpen BY <1>2, <1>3, <1>9, <2>1 DEF OlderOpen
  <2>2. CASE OlderPackFails BY <1>3, <1>9, <2>2 DEF OlderPackFails
  <2>3. CASE PackSysex \/ PackChannel \/ PackDone
        BY <1>2, <1>9, <2>3 DEF PackSysex, PackChannel, PackDone
  <2>4. CASE Frame \/ WakeDone \/ BatchDone
        BY <1>2, <1>9, <2>4 DEF Frame, WakeDone, BatchDone, NoSample
  <2> QED BY <1>7, <1>9, <2>1, <2>2, <2>3, <2>4 DEF OlderNext, OlderPack
<1>10. CASE exit = "0"
      BY <1>0, <1>1, <1>10, EndIsFinal DEF LooksAgree
<1> QED BY <1>1, <1>8, <1>9, <1>10 DEF Step, ToolsNext

-----------------------------------------------------------------------------
(* The theorems. *)

LEMMA Inductive == ToolsSpec => []IInv
<1>1. IInv /\ Step => IInv'
  <2> SUFFICES ASSUME IInv, Step PROVE IInv'
      OBVIOUS
  <2>1. PackingKept' BY PackingStep DEF IInv
  <2>2. ControlKept' BY ControlStep
  <2>3. LinkKept' BY LinkStep DEF IInv
  <2>4. LooksKept' /\ LooksAgree' BY LooksStep
  <2>5. PacketsDecode' BY DecodeStep DEF IInv
  <2> QED BY <2>1, <2>2, <2>3, <2>4, <2>5
        DEF IInv, TypeOK, NoOverrun, PackingKept, ControlKept, LinkKept, LooksKept
<1> QED BY <1>1, InitHolds, PTL DEF ToolsSpec, Step

\* Both tools keep their variables in their types: the index stays in the batch, a
\* packet has a code number and three bytes, the accumulator is never overfilled.
THEOREM TypeCorrect == ToolsSpec => []TypeOK
<1>1. IInv => TypeOK
      BY DEF IInv
<1> QED BY <1>1, Inductive, PTL

\* pack_midi loses, doubles and changes no byte: whatever the batch, the packets written
\* so far carry the bytes packed so far.
THEOREM PacketsAlwaysDecode == ToolsSpec => []PacketsDecode
<1>1. IInv => PacketsDecode
      BY DEF IInv
<1> QED BY <1>1, Inductive, PTL

\* Nothing is written behind the OUT region or the accumulator, whatever the batch and
\* whatever comes back.
THEOREM StaysInRegion == ToolsSpec => []NoOverrun
<1>1. IInv => NoOverrun
      BY DEF IInv
<1> QED BY <1>1, Inductive, PTL

\* Exit status 0 means that the reply was in frames that were looked at.
THEOREM OkIsEarned == ToolsSpec => []OkMeansReply
<1>1. IInv => OkMeansReply
      BY DEF IInv, LooksAgree, OkMeansReply
<1> QED BY <1>1, Inductive, PTL

\* The packaged tool does not miss a reply that a sampled frame held, however small
\* the accumulator and whatever filled it.
THEOREM NoReplyMissed == ToolsSpec => []ReplyNotMissed
<1>1. IInv => ReplyNotMissed
      BY DEF IInv, LooksAgree, ReplyNotMissed
<1> QED BY <1>1, Inductive, PTL
=============================================================================
