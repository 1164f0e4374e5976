------------------------ MODULE SwupdateShim_proofs ------------------------
(***************************************************************************)
(* Proofs about the event loop of the swupdate shim, for any updaters, any *)
(* clients and any percentages.  The first part needs nothing of the       *)
(* programs around the shim.  The second, about what followers are told,   *)
(* is for updaters that wait for the one before (OneAtATime): two uploads  *)
(* at a time share one status.                                             *)
(***************************************************************************)
EXTENDS SwupdateShim, FiniteSetTheorems, SequenceTheorems, WellFoundedInduction, TLAPS
----------------------------------------------------------------------------
(* The inductive invariants. *)

Statuses == {"none", RUN, SUCCESS, FAILURE}
Messages == [status : Statuses, pct : Nat]
Verdict(m) == m \in [status : {SUCCESS, FAILURE}, pct : Nat]
Callbacks ==
  [run : {"start", "drained", "lost", "hangup"}, of : Clients]
    \cup [run : {"wake"}, of : Clients, why : {"timeout", "end"}]
    \cup [run : {"control"}, of : Updaters, how : {"ask", "eof", "error", "result", "restart"}]
    \cup [run : {"notify"}, of : Updaters \cup {Nobody}, msg : Messages, at : Nat \ {0},
          dead : Seq(Clients)]

ShownTypes == status \in {RUN, SUCCESS, FAILURE} /\ pct \in Nat
QueueTypes == clients \in Seq(Clients) /\ ready \in Seq(Callbacks)
ConnTypes ==
  /\ peer \in [Clients -> {"away", "here", "eof", "gone"}]
  /\ link \in [Clients -> {"open", "closing", "lost", "closed"}]
  /\ poller \in [Clients -> {"none", "waiting", "woken", "draining", "done"}]
  /\ last \in [Clients -> Messages]
  /\ told \in [Clients -> Messages]
  /\ joined \in [Clients -> SUBSET Updaters]
UpdTypes ==
  /\ upload \in [Updaters -> {"none", "asking", "streaming", "ended", "installing",
                              "sleeping", "restarting", "over", "dead"}]
  /\ work \in [Updaters -> {"none", "running", "killed"} \cup Verdicts]
  /\ mark \in [Updaters -> Nat] /\ restarted \subseteq Updaters
TypeOK == ShownTypes /\ QueueTypes /\ ConnTypes /\ UpdTypes /\ crashes \in Nat

\* A client that is here no more for good.
Gone(c) == ~Live(c) /\ peer[c] # "away"

\* A coroutine of the shim is resumed by one callback at a time, and that finds it
\* where it stopped.
OfClient == {"start", "wake", "drained"}
OfUpdater == {"control", "notify"}
ClientEntry(e) ==
  /\ e.run = "start" => poller[e.of] = "none" /\ peer[e.of] # "away"
  /\ e.run = "wake" => poller[e.of] = "woken"
  /\ e.run = "drained" => poller[e.of] = "draining"
  /\ e.run = "notify" => \A k \in DOMAIN e.dead : Gone(e.dead[k])
UpdaterEntry(e) ==
  /\ e.run = "control" =>
       /\ e.how = "ask" => upload[e.of] = "asking"
       /\ e.how \in {"eof", "error"} => upload[e.of] = "ended"
       /\ e.how = "result" => upload[e.of] = "installing" /\ work[e.of] \in Verdicts
       /\ e.how = "restart" => upload[e.of] = "restarting"
  /\ e.run = "notify" =>
       IF e.of = Nobody THEN ~Terminal(e.msg)
       ELSE /\ upload[e.of] = "installing" /\ Verdict(e.msg) /\ work[e.of] = e.msg.status
OneEach(q, kinds, owners) ==
  \A i, j \in DOMAIN q :
    q[i].run \in kinds /\ q[j].run \in kinds /\ q[i].of = q[j].of /\ q[i].of \in owners => i = j

ClientEntries(q) == (\A i \in DOMAIN q : ClientEntry(q[i])) /\ OneEach(q, OfClient, Clients)
UpdaterEntries(q) == (\A i \in DOMAIN q : UpdaterEntry(q[i])) /\ OneEach(q, OfUpdater, Updaters)

PollerInv ==
  \A c \in Clients : /\ peer[c] = "away" => poller[c] = "none"
                     /\ poller[c] = "draining" => Gone(c)
ListInv ==
  /\ \A i, j \in DOMAIN clients : clients[i] = clients[j] => i = j
  /\ \A c \in Clients : /\ c \in Listed => poller[c] \notin {"none", "done"}
                        /\ poller[c] \in {"waiting", "woken"} /\ Live(c) => c \in Listed
ClientInv == ClientEntries(ready) /\ PollerInv /\ ListInv

WorkInv ==
  \A u \in Updaters : /\ upload[u] \in {"none", "asking", "streaming", "ended"} => work[u] = "none"
                      /\ work[u] = "running" => upload[u] = "installing"
UpdaterInv == UpdaterEntries(ready) /\ WorkInv

----------------------------------------------------------------------------
(* Sequences. *)

\* Induction up to n, over a set.
LEMMA UpTo ==
  ASSUME NEW n \in Nat, NEW A, 0 \in A, \A k \in 1..n : k - 1 \in A => k \in A
  PROVE  \A k \in 0..n : k \in A
<1> DEFINE Bad == {k \in 0..n : k \notin A}
<1> SUFFICES ASSUME Bad # {} PROVE FALSE
    OBVIOUS
<1>1. Bad \subseteq Nat
    OBVIOUS
<1>2. PICK m \in Bad : \A k \in Bad : ~(<<k, m>> \in OpToRel(<, Nat))
  <2> HIDE DEF Bad
  <2> QED BY <1>1, NatLessThanWellFounded, WFMin
<1>3. m \in 1..n /\ m - 1 \in 0..n /\ m - 1 < m
    OBVIOUS
<1>4. m - 1 \in Bad
    BY <1>3
<1>5. <<m - 1, m>> \in OpToRel(<, Nat)
    BY <1>3 DEF OpToRel
<1> QED BY <1>2, <1>4, <1>5

\* A set of numbers has a least element.
LEMMA LeastExists ==
  ASSUME NEW A \in SUBSET Nat, A # {}
  PROVE  \E m \in A : \A k \in A : m <= k
<1>1. PICK m \in A : \A k \in A : ~(<<k, m>> \in OpToRel(<, Nat))
    BY NatLessThanWellFounded, WFMin
<1>2. ASSUME NEW k \in A PROVE m <= k
  <2>1. CASE k < m
    <3>1. <<k, m>> \in OpToRel(<, Nat)
        BY <2>1 DEF OpToRel
    <3> QED BY <1>1, <3>1
  <2> QED BY <2>1
<1> QED BY <1>2

Values(seq) == {seq[i] : i \in DOMAIN seq}
NoDuplicates(seq) == \A i, j \in DOMAIN seq : seq[i] = seq[j] => i = j

\* The function Kept defines exists.
LEMMA KeptEquation ==
  ASSUME NEW T, NEW seq \in Seq(T), NEW S
  PROVE  \E g : /\ Kept(seq, S) = g[Len(seq)]
                /\ g[0] = <<>>
                /\ \A n \in 1..Len(seq) :
                     g[n] = IF seq[n] \in S THEN Append(g[n - 1], seq[n]) ELSE g[n - 1]
<1> DEFINE Step(g, n) == IF n = 0 THEN <<>>
                         ELSE IF seq[n] \in S THEN Append(g[n - 1], seq[n]) ELSE g[n - 1]
           A == {n \in 0..Len(seq) : \E g \in [0..n -> Seq(T)] : \A k \in 0..n : g[k] = Step(g, k)}
<1>1. 0 \in A
  <2> DEFINE g == [k \in 0..0 |-> <<>>]
  <2>1. g \in [0..0 -> Seq(T)] /\ \A k \in 0..0 : g[k] = Step(g, k)
      BY EmptySeq
  <2>2. 0 \in 0..Len(seq)
      OBVIOUS
  <2> HIDE DEF g, Step
  <2> QED BY <2>1, <2>2
<1>2. ASSUME NEW n \in 1..Len(seq), n - 1 \in A PROVE n \in A
  <2>1. PICK g \in [0..(n - 1) -> Seq(T)] : \A k \in 0..(n - 1) : g[k] = Step(g, k)
      BY <1>2
  <2>3. seq[n] \in T /\ g[n - 1] \in Seq(T)
      OBVIOUS
  <2>6. Step(g, n) \in Seq(T)
      BY <2>3
  <2> DEFINE h == [k \in 0..n |-> IF k < n THEN g[k] ELSE Step(g, n)]
  <2>4. h \in [0..n -> Seq(T)]
    <3>1. \A k \in 0..n : k < n => k \in 0..(n - 1)
        OBVIOUS
    <3> HIDE DEF Step
    <3> QED BY <2>6, <3>1
  <2>5. ASSUME NEW k \in 0..n PROVE h[k] = Step(h, k)
    <3>1. CASE k = n
      <4>1. h[n - 1] = g[n - 1] /\ h[n] = Step(g, n) /\ n # 0
          OBVIOUS
      <4> QED BY <3>1, <4>1
    <3>2. CASE k < n
      <4>1. h[k] = g[k] /\ (k # 0 => h[k - 1] = g[k - 1]) /\ k \in 0..(n - 1)
          BY <3>2
      <4>2. g[k] = Step(g, k)
          BY <2>1, <4>1
      <4> QED BY <4>1, <4>2
    <3> QED BY <3>1, <3>2
  <2>7. n \in 0..Len(seq)
      OBVIOUS
  <2>8. h \in [0..n -> Seq(T)] /\ \A k \in 0..n : h[k] = Step(h, k)
    <3> HIDE DEF h, Step
    <3> QED BY <2>4, <2>5
  <2> HIDE DEF h, Step
  <2> QED BY <2>7, <2>8
<1>3. Len(seq) \in A
  <2> HIDE DEF A
  <2>1. Len(seq) \in Nat /\ Len(seq) \in 0..Len(seq)
      OBVIOUS
  <2> QED BY <1>1, <1>2, <2>1, UpTo
<1>4. PICK g \in [0..Len(seq) -> Seq(T)] : \A k \in 0..Len(seq) : g[k] = Step(g, k)
    BY <1>3
<1> DEFINE f == CHOOSE f : f = [n \in 0..Len(seq) |-> Step(f, n)]
<1>5. g = [n \in 0..Len(seq) |-> Step(g, n)]
    BY <1>4
<1>6. f = [n \in 0..Len(seq) |-> Step(f, n)]
    BY <1>5
<1>7. Kept(seq, S) = f[Len(seq)]
    BY DEF Kept
<1>8. f[0] = <<>> /\ \A n \in 1..Len(seq) : f[n] = Step(f, n)
  <2> HIDE DEF f
  <2>1. \A n \in 0..Len(seq) : f[n] = Step(f, n)
      BY <1>6
  <2> QED BY <2>1
<1> HIDE DEF f
<1> QED BY <1>7, <1>8


\* Kept keeps the elements that are in S, and their order does not repeat any.
LEMMA KeptProperties ==
  ASSUME NEW T, NEW seq \in Seq(T), NEW S
  PROVE  /\ Kept(seq, S) \in Seq(T)
         /\ Values(Kept(seq, S)) = Values(seq) \cap S
         /\ NoDuplicates(seq) => NoDuplicates(Kept(seq, S))
<1>1. PICK g : /\ Kept(seq, S) = g[Len(seq)] /\ g[0] = <<>>
               /\ \A n \in 1..Len(seq) :
                    g[n] = IF seq[n] \in S THEN Append(g[n - 1], seq[n]) ELSE g[n - 1]
    BY KeptEquation
<1> DEFINE Before(n) == {seq[i] : i \in 1..n}
           A == {n \in 0..Len(seq) : /\ g[n] \in Seq(T)
                                     /\ Values(g[n]) = Before(n) \cap S
                                     /\ NoDuplicates(seq) => NoDuplicates(g[n])}
<1>2. 0 \in A
  <2>1. g[0] \in Seq(T) /\ DOMAIN g[0] = {} /\ 0 \in 0..Len(seq)
      BY <1>1
  <2>2. Values(g[0]) = {} /\ Before(0) = {} /\ NoDuplicates(g[0])
      BY <2>1 DEF Values, NoDuplicates
  <2> QED BY <2>1, <2>2
<1>3. ASSUME NEW n \in 1..Len(seq), n - 1 \in A PROVE n \in A
  <2>1. /\ g[n - 1] \in Seq(T) /\ Values(g[n - 1]) = Before(n - 1) \cap S
        /\ NoDuplicates(seq) => NoDuplicates(g[n - 1])
      BY <1>3
  <2>2. Before(n) = Before(n - 1) \cup {seq[n]} /\ seq[n] \in T /\ n \in 0..Len(seq)
    <3>1. 1..n = (1..(n - 1)) \cup {n}
        OBVIOUS
    <3> QED BY <3>1
  <2>3. CASE seq[n] \notin S
    <3>1. g[n] = g[n - 1]
        BY <1>1, <2>3
    <3> QED BY <2>1, <2>2, <2>3, <3>1
  <2>4. CASE seq[n] \in S
    <3>1. g[n] = Append(g[n - 1], seq[n])
        BY <1>1, <2>4
    <3> DEFINE m == Len(g[n - 1])
    <3>2. /\ g[n] \in Seq(T) /\ m \in Nat /\ DOMAIN g[n] = 1..(m + 1) /\ DOMAIN g[n - 1] = 1..m
          /\ \A i \in 1..m : g[n][i] = g[n - 1][i]
          /\ g[n][m + 1] = seq[n]
        BY <2>1, <2>2, <3>1
    <3>3. Values(g[n]) = Values(g[n - 1]) \cup {seq[n]}
      <4>1. 1..(m + 1) = (1..m) \cup {m + 1}
          BY <3>2
      <4>2. m + 1 \in DOMAIN g[n] /\ \A i \in DOMAIN g[n - 1] : i \in DOMAIN g[n] /\ g[n - 1][i] = g[n][i]
          BY <3>2, <4>1
      <4>3. \A i \in DOMAIN g[n] : i = m + 1 \/ i \in DOMAIN g[n - 1]
          BY <3>2, <4>1
      <4> HIDE DEF m
      <4>4. ASSUME NEW v \in Values(g[n]) PROVE v \in Values(g[n - 1]) \cup {seq[n]}
        <5>1. PICK i \in DOMAIN g[n] : v = g[n][i]
            BY DEF Values
        <5> QED BY <3>2, <4>2, <4>3, <5>1 DEF Values
      <4>5. ASSUME NEW v \in Values(g[n - 1]) \cup {seq[n]} PROVE v \in Values(g[n])
          BY <3>2, <4>2 DEF Values
      <4> QED BY <4>4, <4>5
    <3>4. NoDuplicates(seq) => seq[n] \notin Values(g[n - 1])
      <4>1. NoDuplicates(seq) => seq[n] \notin Before(n - 1)
          BY DEF NoDuplicates
      <4> QED BY <2>1, <4>1
    <3>5. ASSUME NoDuplicates(seq) PROVE NoDuplicates(g[n])
      <4>1. \A i \in 1..m : g[n - 1][i] # seq[n]
          BY <3>2, <3>4, <3>5 DEF Values
      <4>2. \A i, j \in 1..m : g[n - 1][i] = g[n - 1][j] => i = j
          BY <2>1, <3>2, <3>5 DEF NoDuplicates
      <4>3. \A i \in 1..(m + 1) : i \in 1..m \/ i = m + 1
          BY <3>2
      <4> HIDE DEF m
      <4> QED BY <3>2, <4>1, <4>2, <4>3 DEF NoDuplicates
    <3>6. Values(g[n]) = Before(n) \cap S
        BY <2>1, <2>2, <2>4, <3>3
    <3> QED BY <2>2, <3>2, <3>5, <3>6
  <2> QED BY <2>3, <2>4
<1>4. Len(seq) \in A
  <2> HIDE DEF A
  <2>1. Len(seq) \in Nat /\ Len(seq) \in 0..Len(seq)
      OBVIOUS
  <2> QED BY <1>2, <1>3, <2>1, UpTo
<1>5. Before(Len(seq)) = Values(seq)
    BY DEF Values
<1> QED BY <1>1, <1>4, <1>5


\* Where a notification stops, and who is before that place.
LEMMA StopAtIn ==
  ASSUME clients \in Seq(Clients), NEW i \in Nat \ {0}
  PROVE  /\ StopAt(i) \in 1..(Len(clients) + 1)
         /\ StopAt(i) <= Len(clients) =>
              clients[StopAt(i)] \in Listed \cap Clients /\ Slow(clients[StopAt(i)])
         /\ Passed(i) \in Seq(Clients) /\ Values(Passed(i)) \subseteq Listed
<1> DEFINE slow == {k \in i..Len(clients) : Slow(clients[k])}
           least == CHOOSE k \in slow : \A l \in slow : k <= l
<1>1. StopAt(i) = IF slow = {} THEN Len(clients) + 1 ELSE least
    BY DEF StopAt
<1>2. slow # {} => least \in slow
  <2>1. slow \in SUBSET Nat
      OBVIOUS
  <2> HIDE DEF slow
  <2> QED BY <2>1, LeastExists
<1>3. StopAt(i) \in 1..(Len(clients) + 1)
    BY <1>1, <1>2
<1>4. ASSUME StopAt(i) <= Len(clients)
      PROVE  clients[StopAt(i)] \in Listed \cap Clients /\ Slow(clients[StopAt(i)])
  <2>1. StopAt(i) \in slow
      BY <1>1, <1>2, <1>4
  <2> QED BY <1>3, <1>4, <2>1 DEF Listed
<1>5. CASE i >= StopAt(i)
  <2>1. Passed(i) = <<>>
      BY <1>5 DEF Passed
  <2> QED BY <1>3, <1>4, <2>1 DEF Values
<1>6. CASE ~(i >= StopAt(i))
  <2>1. Passed(i) = SubSeq(clients, i, StopAt(i) - 1)
      BY <1>6 DEF Passed
  <2> DEFINE n == StopAt(i) - 1
  <2>2. n \in Nat /\ i <= n /\ n <= Len(clients)
      BY <1>3, <1>6
  <2>3. /\ Passed(i) \in Seq(Clients) /\ DOMAIN Passed(i) = 1..(n - i + 1)
        /\ \A k \in 1..(n - i + 1) : Passed(i)[k] = clients[i + k - 1]
    <3> HIDE DEF n
    <3>1. i \in Int /\ n \in Int /\ \A k \in i..n : clients[k] \in Clients
        BY <2>2, ElementOfSeq
    <3>2. /\ SubSeq(clients, i, n) \in Seq(Clients) /\ Len(SubSeq(clients, i, n)) = n - i + 1
          /\ \A k \in 1..(n - i + 1) : SubSeq(clients, i, n)[k] = clients[i + k - 1]
        BY <2>2, <3>1, SubSeqProperties
    <3>3. Passed(i) = SubSeq(clients, i, n)
        BY <2>1 DEF n
    <3> HIDE <2>1
    <3> QED BY <3>2, <3>3
  <2>4. \A k \in 1..(n - i + 1) : i + k - 1 \in DOMAIN clients
    <3> HIDE DEF n
    <3> QED BY <2>2
  <2>5. Values(Passed(i)) \subseteq Listed
    <3> HIDE DEF n
    <3> QED BY <2>3, <2>4 DEF Values, Listed
  <2> QED BY <1>3, <1>4, <2>3, <2>5
<1> QED BY <1>3, <1>5, <1>6

\* The parts of the queue behind a step: what is kept, and what is added.
LEMMA Concatenated ==
  ASSUME NEW T, NEW q \in Seq(T), NEW add \in Seq(T)
  PROVE  /\ q \o add \in Seq(T)
         /\ \A j \in DOMAIN (q \o add) :
              \/ j \in DOMAIN q /\ (q \o add)[j] = q[j]
              \/ j - Len(q) \in DOMAIN add /\ (q \o add)[j] = add[j - Len(q)]
         /\ \A j \in DOMAIN q : j \in DOMAIN (q \o add) /\ (q \o add)[j] = q[j]
         /\ \A k \in DOMAIN add : Len(q) + k \in DOMAIN (q \o add) /\ (q \o add)[Len(q) + k] = add[k]
OBVIOUS

LEMMA TailOf ==
  ASSUME NEW T, NEW q \in Seq(T), q # <<>>
  PROVE  /\ Tail(q) \in Seq(T) /\ 1 \in DOMAIN q /\ Head(q) = q[1]
         /\ \A j \in DOMAIN Tail(q) : j + 1 \in DOMAIN q /\ Tail(q)[j] = q[j + 1]
         /\ \A j \in DOMAIN q : j # 1 => j - 1 \in DOMAIN Tail(q)
OBVIOUS

LEMMA OneEachTail ==
  ASSUME NEW T, NEW q \in Seq(T), q # <<>>, NEW kinds, NEW owners, OneEach(q, kinds, owners)
  PROVE  /\ OneEach(Tail(q), kinds, owners)
         /\ \A j \in DOMAIN Tail(q) :
              ~(/\ Head(q).run \in kinds /\ Tail(q)[j].run \in kinds
                /\ Head(q).of = Tail(q)[j].of /\ Head(q).of \in owners)
<1>1. /\ 1 \in DOMAIN q /\ Head(q) = q[1]
      /\ \A j \in DOMAIN Tail(q) : j + 1 \in DOMAIN q /\ Tail(q)[j] = q[j + 1] /\ j \in Nat \ {0}
    OBVIOUS
<1>2. OneEach(Tail(q), kinds, owners)
  <2> SUFFICES ASSUME NEW i \in DOMAIN Tail(q), NEW j \in DOMAIN Tail(q),
                      Tail(q)[i].run \in kinds, Tail(q)[j].run \in kinds,
                      Tail(q)[i].of = Tail(q)[j].of, Tail(q)[i].of \in owners
               PROVE i = j
      BY DEF OneEach
  <2>1. i + 1 = j + 1
      BY <1>1 DEF OneEach
  <2> QED BY <1>1, <2>1
<1>3. ASSUME NEW j \in DOMAIN Tail(q), Head(q).run \in kinds, Tail(q)[j].run \in kinds,
             Head(q).of = Tail(q)[j].of, Head(q).of \in owners
      PROVE FALSE
  <2>1. j + 1 = 1
      BY <1>1, <1>3 DEF OneEach
  <2> QED BY <1>1, <2>1
<1> QED BY <1>2, <1>3

LEMMA OneEachAdd ==
  ASSUME NEW T, NEW q \in Seq(T), NEW add \in Seq(T), NEW kinds, NEW owners,
         OneEach(q, kinds, owners), OneEach(add, kinds, owners),
         \A j \in DOMAIN q, k \in DOMAIN add :
           ~(/\ q[j].run \in kinds /\ add[k].run \in kinds
             /\ q[j].of = add[k].of /\ q[j].of \in owners)
  PROVE  OneEach(q \o add, kinds, owners)
<1> DEFINE r == q \o add
<1>1. \A j \in DOMAIN r :
        \/ j \in DOMAIN q /\ r[j] = q[j]
        \/ j - Len(q) \in DOMAIN add /\ r[j] = add[j - Len(q)]
    OBVIOUS
<1>2. DOMAIN r \subseteq Nat /\ Len(q) \in Nat
    OBVIOUS
<1> HIDE DEF r
<1> SUFFICES ASSUME NEW i \in DOMAIN r, NEW j \in DOMAIN r, r[i].run \in kinds, r[j].run \in kinds,
                    r[i].of = r[j].of, r[i].of \in owners
             PROVE i = j
    BY DEF OneEach, r
<1>3. CASE i \in DOMAIN q /\ r[i] = q[i]
  <2>1. ~(j - Len(q) \in DOMAIN add /\ r[j] = add[j - Len(q)])
      BY <1>3
  <2> QED BY <1>1, <1>3, <2>1 DEF OneEach
<1>4. CASE i - Len(q) \in DOMAIN add /\ r[i] = add[i - Len(q)]
  <2>1. ~(j \in DOMAIN q /\ r[j] = q[j])
      BY <1>4
  <2>2. i - Len(q) = j - Len(q)
      BY <1>1, <1>4, <2>1 DEF OneEach
  <2> QED BY <1>2, <2>2
<1> QED BY <1>1, <1>3, <1>4

----------------------------------------------------------------------------
(* Types. *)

LEMMA EntryTyped ==
  ASSUME NEW e \in Callbacks
  PROVE  /\ e.run \in OfClient \cup {"lost", "hangup"} => e.of \in Clients
         /\ e.run = "wake" => e.why \in {"timeout", "end"}
         /\ e.run = "control" => e.of \in Updaters
                               /\ e.how \in {"ask", "eof", "error", "result", "restart"}
         /\ e.run = "notify" => /\ e.of \in Updaters \cup {Nobody} /\ e.msg \in Messages
                                /\ e.at \in Nat \ {0} /\ e.dead \in Seq(Clients)
BY DEF Callbacks, OfClient

LEMMA CallbackTyped ==
  /\ \A c \in Clients : /\ Start(c) \in Callbacks /\ Drained(c) \in Callbacks /\ Lost(c) \in Callbacks
                        /\ \A why \in {"timeout", "end"} : Wake(c, why) \in Callbacks
                        /\ [run |-> "hangup", of |-> c] \in Callbacks
  /\ \A u \in Updaters, how \in {"ask", "eof", "error", "result", "restart"} :
       Control(u, how) \in Callbacks
  /\ \A u \in Updaters \cup {Nobody}, m \in Messages, i \in Nat \ {0}, dead \in Seq(Clients) :
       Notify(u, m, i, dead) \in Callbacks
BY DEF Callbacks, Start, Drained, Lost, Wake, Control, Notify

LEMMA MessageTyped ==
  ASSUME TypeOK
  PROVE  /\ Message(status, pct) \in Messages /\ BuildMsg(status, pct) \in Messages
         /\ NoMsg \in Messages
         /\ \A c \in Clients, m \in Messages : Hear(c, m) \in Messages
BY DEF TypeOK, ShownTypes, ConnTypes, Messages, Statuses, Message, BuildMsg, NoMsg, Hear, RUN, SUCCESS, FAILURE

LEMMA ThisTyped ==
  ASSUME TypeOK, ready # <<>>
  PROVE  This \in Callbacks /\ Tail(ready) \in Seq(Callbacks)
BY DEF TypeOK, QueueTypes, This

LEMMA ThenTyped ==
  ASSUME TypeOK, ready # <<>>, NEW add \in Seq(Callbacks), Then(add)
  PROVE  ready' \in Seq(Callbacks)
BY ThisTyped, ConcatProperties DEF Then

LEMMA PostTyped ==
  ASSUME TypeOK, NEW e \in Callbacks, Post(e)
  PROVE  ready' \in Seq(Callbacks)
BY DEF TypeOK, QueueTypes, Post

LEMMA DeliverTyped ==
  ASSUME TypeOK, NEW i, NEW m \in Messages, Deliver(i, m)
  PROVE  told' \in [Clients -> Messages]
BY MessageTyped DEF Deliver, TypeOK, ConnTypes

LEMMA NotifyTypes ==
  ASSUME TypeOK, ready # <<>>, NEW u \in Updaters \cup {Nobody}, NEW m \in Messages,
         NEW i \in Nat \ {0}, NEW dead \in Seq(Clients), NotifyFrom(u, m, i, dead)
  PROVE  /\ QueueTypes' /\ ConnTypes' /\ UpdTypes'
<1> DEFINE at == StopAt(i)
           now == dead \o DeadIn(Passed(i))
           c == clients[at]
<1>1. clients \in Seq(Clients) /\ ready \in Seq(Callbacks)
    BY DEF TypeOK, QueueTypes
<1>2. at \in 1..(Len(clients) + 1) /\ (at <= Len(clients) => c \in Clients) /\ now \in Seq(Clients)
  <2>1. Passed(i) \in Seq(Clients) /\ DeadIn(Passed(i)) \in Seq(Clients)
      BY <1>1, StopAtIn, KeptProperties DEF DeadIn
  <2> QED BY <1>1, <2>1, StopAtIn
<1>3. told' \in [Clients -> Messages]
    BY DeliverTyped DEF NotifyFrom
<1>4. UNCHANGED <<peer, poller, last, joined, work, mark, restarted>>
    BY DEF NotifyFrom
<1>5. CASE /\ at <= Len(clients)
           /\ Then((IF link[c] = "open" THEN <<Lost(c)>> ELSE <<>>)
                   \o <<Notify(u, m, at + 1, Append(now, c))>>)
           /\ link' = [link EXCEPT ![c] = "closing"]
           /\ UNCHANGED <<clients, upload>>
  <2>1. Append(now, c) \in Seq(Clients) /\ at + 1 \in Nat \ {0}
      BY <1>1, <1>2, <1>5
  <2>2. Lost(c) \in Callbacks /\ Notify(u, m, at + 1, Append(now, c)) \in Callbacks
      BY <1>2, <1>5, <2>1, CallbackTyped
  <2>3. (IF link[c] = "open" THEN <<Lost(c)>> ELSE <<>>)
                   \o <<Notify(u, m, at + 1, Append(now, c))>> \in Seq(Callbacks)
    <3> HIDE DEF at, now, c
    <3> QED BY <2>2
  <2>4. ready' \in Seq(Callbacks)
      BY <1>5, <2>3, ThenTyped
  <2>5. link' \in [Clients -> {"open", "closing", "lost", "closed"}]
      BY <1>5 DEF TypeOK, ConnTypes
  <2> QED BY <1>1, <1>3, <1>4, <1>5, <2>4, <2>5 DEF TypeOK, QueueTypes, ConnTypes, UpdTypes
<1>6. CASE /\ at > Len(clients) /\ RemoveDead(now)
           /\ Then(<<>>) /\ UNCHANGED link
           /\ IF u = Nobody THEN UNCHANGED upload
              ELSE IF RemovalFails(now)
              THEN upload' = [upload EXCEPT ![u] = "dead"]
              ELSE Conclude(u)
  <2>1. clients' \in Seq(Clients)
      BY <1>1, <1>6, KeptProperties DEF RemoveDead
  <2>2. ready' \in Seq(Callbacks)
      BY <1>6, ThenTyped, EmptySeq
  <2>3. UpdTypes'
      BY <1>4, <1>6 DEF TypeOK, UpdTypes, Conclude
  <2> QED BY <1>3, <1>4, <1>6, <2>1, <2>2, <2>3 DEF TypeOK, QueueTypes, ConnTypes
<1> QED BY <1>5, <1>6 DEF NotifyFrom

LEMMA LeaveTypes ==
  ASSUME TypeOK, NEW c \in Clients, Leave(c)
  PROVE  /\ clients' \in Seq(Clients)
         /\ link' \in [Clients -> {"open", "closing", "lost", "closed"}]
         /\ poller' \in [Clients -> {"none", "waiting", "woken", "draining", "done"}]
<1>1. clients' \in Seq(Clients)
    BY KeptProperties DEF Leave, Without, TypeOK, QueueTypes
<1> QED BY <1>1 DEF Leave, TypeOK, ConnTypes

LEMMA CheckTypes ==
  ASSUME TypeOK, ready # <<>>, NEW c \in Clients, NEW listed \in Seq(Clients), Check(c, listed)
  PROVE  /\ QueueTypes' /\ last' \in [Clients -> Messages]
         /\ told' \in [Clients -> Messages]
         /\ link' \in [Clients -> {"open", "closing", "lost", "closed"}]
         /\ poller' \in [Clients -> {"none", "waiting", "woken", "draining", "done"}]
<1>1. last' \in [Clients -> Messages]
    BY MessageTyped DEF Check, Seen, TypeOK, ConnTypes
<1>2. told' \in [Clients -> Messages]
  <2>1. told' = told \/ told' = [told EXCEPT ![c] = Hear(c, BuildMsg(status, pct))]
      BY DEF Check
  <2>2. Hear(c, BuildMsg(status, pct)) \in Messages
      BY MessageTyped
  <2>3. told \in [Clients -> Messages]
      BY DEF TypeOK, ConnTypes
  <2> QED BY <2>1, <2>2, <2>3
<1>3. CASE Leave(c)
  <2>1. ready' \in Seq(Callbacks)
    <3>1. Then(<<>>) \/ Then((IF link[c] = "open" THEN <<Lost(c)>> ELSE <<>>) \o <<Drained(c)>>)
        BY DEF Check
    <3>2. (IF link[c] = "open" THEN <<Lost(c)>> ELSE <<>>) \o <<Drained(c)>> \in Seq(Callbacks)
      <4>1. Lost(c) \in Callbacks /\ Drained(c) \in Callbacks
          BY CallbackTyped
      <4> QED BY <4>1
    <3> QED BY <3>1, <3>2, ThenTyped, EmptySeq
  <2> QED BY <1>1, <1>2, <1>3, <2>1, LeaveTypes DEF QueueTypes
<1>4. CASE ~Leave(c)
  <2>1. clients' = listed /\ link' \in [Clients -> {"open", "closing", "lost", "closed"}]
        /\ poller' \in [Clients -> {"none", "waiting", "woken", "draining", "done"}]
      BY <1>4 DEF Check, Wait, TypeOK, ConnTypes
  <2>2. ready' \in Seq(Callbacks)
    <3>1. Then(<<>>) \/ Then((IF link[c] = "open" THEN <<Lost(c)>> ELSE <<>>) \o <<Drained(c)>>)
        BY DEF Check
    <3>2. (IF link[c] = "open" THEN <<Lost(c)>> ELSE <<>>) \o <<Drained(c)>> \in Seq(Callbacks)
      <4>1. Lost(c) \in Callbacks /\ Drained(c) \in Callbacks
          BY CallbackTyped
      <4> QED BY <4>1
    <3> QED BY <3>1, <3>2, ThenTyped, EmptySeq
  <2> QED BY <1>1, <1>2, <2>1, <2>2 DEF QueueTypes
<1> QED BY <1>3, <1>4

LEMMA ThisOf ==
  ASSUME TypeOK
  PROVE  /\ \A kind \in OfClient \cup {"lost", "hangup"} : Runs(kind) => This.of \in Clients
         /\ Runs("control") => This.of \in Updaters
         /\ Runs("notify") => /\ This.of \in Updaters \cup {Nobody} /\ This.msg \in Messages
                              /\ This.at \in Nat \ {0} /\ This.dead \in Seq(Clients)
         /\ Runs("wake") => This.why \in {"timeout", "end"}
BY ThisTyped, EntryTyped DEF Runs, This

LEMMA ThenNothing ==
  ASSUME TypeOK, ready # <<>>, Then(<<>>)
  PROVE  ready' = Tail(ready) /\ ready' \in Seq(Callbacks)
BY ThisTyped, ConcatEmptySeq DEF Then

\* The callback that runs finds its coroutine where that stopped.
LEMMA ThisEntry ==
  ASSUME TypeOK, ready # <<>>
  PROVE  /\ (\A i \in DOMAIN ready : UpdaterEntry(ready[i])) => UpdaterEntry(This)
         /\ (\A i \in DOMAIN ready : ClientEntry(ready[i])) => ClientEntry(This)
<1>1. 1 \in DOMAIN ready /\ This = ready[1]
    BY DEF TypeOK, QueueTypes, This
<1> QED BY <1>1

LEMMA ReportTyped ==
  ASSUME NEW m \in Marks
  PROVE  /\ m \in Nat /\ BuildMsg(RUN, m) \in Messages
         /\ Notify(Nobody, BuildMsg(RUN, m), 1, <<>>) \in Callbacks
<1>1. m \in Nat /\ BuildMsg(RUN, m) \in Messages
    BY MarkAssumption DEF MarkAssumption, BuildMsg, Message, Messages, Statuses, RUN, SUCCESS
<1>2. <<>> \in Seq(Clients) /\ 1 \in Nat \ {0} /\ Nobody \in Updaters \cup {Nobody}
    OBVIOUS
<1> HIDE DEF Nobody
<1> QED BY <1>1, <1>2, CallbackTyped

LEMMA TypeStep == TypeOK /\ UpdaterInv /\ [Next]_vars => TypeOK'
<1> SUFFICES ASSUME TypeOK, UpdaterInv, [Next]_vars PROVE TypeOK'
    OBVIOUS
<1> USE DEF shown, conn, upd
<1>1. CASE RunNotify /\ UNCHANGED crashes
    BY <1>1, ThisOf, NotifyTypes DEF RunNotify, Runs, TypeOK, ShownTypes
<1>2. CASE RunStart /\ UNCHANGED crashes
  <2>1. This.of \in Clients /\ ready # <<>>
      BY <1>2, ThisOf DEF RunStart, Runs, OfClient
  <2>2. Append(clients, This.of) \in Seq(Clients)
      BY <2>1 DEF TypeOK, QueueTypes
  <2>3. joined' \in [Clients -> SUBSET Updaters]
      BY <1>2 DEF RunStart, InProgress, TypeOK, ConnTypes
  <2>4. Check(This.of, Append(clients, This.of))
      BY <1>2 DEF RunStart
  <2>5. /\ QueueTypes' /\ last' \in [Clients -> Messages]
        /\ told' \in [Clients -> Messages]
        /\ link' \in [Clients -> {"open", "closing", "lost", "closed"}]
        /\ poller' \in [Clients -> {"none", "waiting", "woken", "draining", "done"}]
      BY <2>1, <2>2, <2>4, CheckTypes
  <2> QED BY <1>2, <2>3, <2>5 DEF RunStart, TypeOK, ShownTypes, ConnTypes, UpdTypes
<1>3. CASE RunWake /\ UNCHANGED crashes
  <2>1. This.of \in Clients /\ ready # <<>>
      BY <1>3, ThisOf DEF RunWake, Runs, OfClient
  <2>2. clients \in Seq(Clients)
      BY DEF TypeOK, QueueTypes
  <2>3. CASE Check(This.of, clients)
    <3>1. /\ QueueTypes' /\ last' \in [Clients -> Messages]
          /\ told' \in [Clients -> Messages]
          /\ link' \in [Clients -> {"open", "closing", "lost", "closed"}]
          /\ poller' \in [Clients -> {"none", "waiting", "woken", "draining", "done"}]
        BY <2>1, <2>2, <2>3, CheckTypes
    <3> QED BY <1>3, <3>1 DEF RunWake, TypeOK, ShownTypes, ConnTypes, UpdTypes
  <2>4. CASE Leave(This.of) /\ Then(<<>>) /\ UNCHANGED <<last, told>>
      BY <1>3, <2>1, <2>4, LeaveTypes, ThenNothing
      DEF RunWake, TypeOK, ShownTypes, QueueTypes, ConnTypes, UpdTypes
  <2> QED BY <1>3, <2>3, <2>4 DEF RunWake
<1>4. CASE RunDrained /\ UNCHANGED crashes
  <2>1. This.of \in Clients /\ ready # <<>>
      BY <1>4, ThisOf DEF RunDrained, Runs, OfClient
  <2> QED BY <1>4, <2>1, LeaveTypes, ThenNothing
      DEF RunDrained, TypeOK, ShownTypes, QueueTypes, ConnTypes, UpdTypes
<1>5. CASE (RunLost \/ RunHangUp) /\ UNCHANGED crashes
  <2>1. This.of \in Clients /\ ready # <<>>
      BY <1>5, ThisOf DEF RunLost, RunHangUp, Runs
  <2>2. Then(<<Wake(This.of, "end")>>) \/ Then(<<>>)
      BY <1>5 DEF RunLost, RunHangUp, WakeUp
  <2>3. ready' \in Seq(Callbacks)
    <3>1. Wake(This.of, "end") \in Callbacks
        BY <2>1, CallbackTyped
    <3>2. <<Wake(This.of, "end")>> \in Seq(Callbacks)
        BY <3>1
    <3> QED BY <2>1, <2>2, <3>2, ThenTyped, ThenNothing
  <2>4. poller' \in [Clients -> {"none", "waiting", "woken", "draining", "done"}]
      BY <1>5 DEF RunLost, RunHangUp, WakeUp, TypeOK, ConnTypes
  <2>5. /\ link' \in [Clients -> {"open", "closing", "lost", "closed"}]
        /\ peer' \in [Clients -> {"away", "here", "eof", "gone"}]
      BY <1>5 DEF RunLost, RunHangUp, TypeOK, ConnTypes
  <2> QED BY <1>5, <2>3, <2>4, <2>5
      DEF RunLost, RunHangUp, TypeOK, ShownTypes, QueueTypes, ConnTypes, UpdTypes
<1>6. CASE (RunAsk \/ RunUploaded \/ RunUploadError \/ RunRestart) /\ UNCHANGED crashes
  <2>1. This.of \in Updaters /\ ready # <<>> /\ Then(<<>>)
      BY <1>6, ThisOf DEF RunAsk, RunUploaded, RunUploadError, RunRestart, Runs
  <2>2. ready' \in Seq(Callbacks)
      BY <2>1, ThenNothing
  <2>3. ShownTypes'
      BY <1>6 DEF RunAsk, Announce, RunUploaded, RunUploadError, RunRestart, TypeOK, ShownTypes
  <2>4. UNCHANGED <<clients, conn, crashes>>
      BY <1>6 DEF RunAsk, RunUploaded, RunUploadError, RunRestart
  <2>5. UpdTypes'
    <3> USE DEF TypeOK, UpdTypes
    <3>1. CASE RunAsk
        BY <2>1, <3>1 DEF RunAsk
    <3>2. CASE RunUploaded
        BY <2>1, <3>2 DEF RunUploaded
    <3>3. CASE RunUploadError \/ RunRestart
        BY <2>1, <3>3 DEF RunUploadError, RunRestart
    <3> QED BY <1>6, <3>1, <3>2, <3>3
  <2> QED BY <2>2, <2>3, <2>4, <2>5 DEF TypeOK, QueueTypes, ConnTypes
<1>7. CASE RunResult /\ UNCHANGED crashes
  <2>1. This.of \in Updaters /\ ready # <<>>
      BY <1>7, ThisOf DEF RunResult, Runs
  <2> DEFINE v == work[This.of]
  <2>2. CASE /\ v = "raised" /\ Then(<<>>)
             /\ upload' = [upload EXCEPT ![This.of] = "dead"]
             /\ UNCHANGED <<shown, clients, conn, work, mark, restarted>>
      BY <1>7, <2>1, <2>2, ThenNothing DEF TypeOK, ShownTypes, QueueTypes, ConnTypes, UpdTypes
  <2>3. CASE v # "raised" /\ Publish(v) /\ NotifyFrom(This.of, BuildMsg(v, 0), 1, <<>>)
    <3>1. v \in {SUCCESS, FAILURE}
        BY <1>7, <2>3, ThisEntry DEF RunResult, Runs, UpdaterInv, UpdaterEntries, UpdaterEntry, Verdicts, This
    <3>2. BuildMsg(v, 0) \in Messages
        BY <3>1 DEF BuildMsg, Message, Messages, Statuses, TypeOK, ShownTypes
    <3>3. QueueTypes' /\ ConnTypes' /\ UpdTypes'
      <4>1. <<>> \in Seq(Clients) /\ 1 \in Nat \ {0} /\ This.of \in Updaters \cup {Nobody}
          BY <2>1
      <4>2. NotifyFrom(This.of, BuildMsg(v, 0), 1, <<>>)
          BY <2>3
      <4> HIDE DEF v
      <4> QED BY <2>1, <3>2, <4>1, <4>2, NotifyTypes
    <3>4. ShownTypes'
        BY <2>3, <3>1 DEF Publish, TypeOK, ShownTypes
    <3> QED BY <1>7, <3>3, <3>4 DEF TypeOK
  <2> QED BY <1>7, <2>2, <2>3 DEF RunResult
<1>8. ASSUME NEW c \in Clients, Timeout(c) \/ Connect(c) \/ Notice(c), UNCHANGED crashes PROVE TypeOK'
  <2>1. \E e \in Callbacks : Post(e)
      BY <1>8, CallbackTyped DEF Timeout, Connect, Notice
  <2>2. ready' \in Seq(Callbacks)
      BY <2>1, PostTyped
  <2> QED BY <1>8, <2>2
      DEF Timeout, Connect, Notice, TypeOK, ShownTypes, QueueTypes, ConnTypes, UpdTypes
<1>9. ASSUME NEW c \in Clients, HangUp(c), UNCHANGED crashes PROVE TypeOK'
    BY <1>9 DEF HangUp, TypeOK, ShownTypes, QueueTypes, ConnTypes, UpdTypes
<1>10. ASSUME NEW u \in Updaters, SleepOver(u) \/ Ask(u) \/ EndUpload(u) \/ Finish(u), UNCHANGED crashes
       PROVE TypeOK'
  <2>1. \E e \in Callbacks : Post(e)
      BY <1>10, CallbackTyped DEF SleepOver, Ask, EndUpload, Finish
  <2>2. ready' \in Seq(Callbacks)
      BY <2>1, PostTyped
  <2>3. UpdTypes'
    <3>1. CASE SleepOver(u) \/ Ask(u) \/ EndUpload(u)
        BY <3>1 DEF SleepOver, Ask, EndUpload, TypeOK, UpdTypes
    <3>2. CASE Finish(u)
        BY <3>2 DEF Finish, TypeOK, UpdTypes
    <3> QED BY <1>10, <3>1, <3>2
  <2> QED BY <1>10, <2>2, <2>3
      DEF SleepOver, Ask, EndUpload, Finish, TypeOK, ShownTypes, QueueTypes, ConnTypes, shown, conn
<1>11. ASSUME NEW u \in Updaters, Report(u), UNCHANGED crashes PROVE TypeOK'
  <2>1. PICK m \in Marks : /\ mark' = [mark EXCEPT ![u] = m] /\ pct' = m
                           /\ Post(Notify(Nobody, BuildMsg(RUN, m), 1, <<>>))
      BY <1>11 DEF Report
  <2>2. m \in Nat
      BY ReportTyped
  <2>3. Notify(Nobody, BuildMsg(RUN, m), 1, <<>>) \in Callbacks
      BY ReportTyped
  <2>4. ready' \in Seq(Callbacks)
      BY <2>1, <2>3, PostTyped
  <2> QED BY <1>11, <2>1, <2>2, <2>4
      DEF Report, TypeOK, ShownTypes, QueueTypes, ConnTypes, UpdTypes
<1>12. CASE Crash
    BY <1>12, EmptySeq
    DEF Crash, TypeOK, ShownTypes, QueueTypes, ConnTypes, UpdTypes, SUCCESS, RUN, FAILURE
<1>13. CASE UNCHANGED vars
    BY <1>13 DEF vars, TypeOK, ShownTypes, QueueTypes, ConnTypes, UpdTypes
<1> QED BY <1>1, <1>2, <1>3, <1>4, <1>5, <1>6, <1>7, <1>8, <1>9, <1>10, <1>11, <1>12, <1>13
    DEF Next, Alive, RunLoop, Clock, Worker, Others

----------------------------------------------------------------------------
(* Connections. *)

\* A connection never becomes usable again.
LEMMA ConnStep ==
  ASSUME TypeOK, [Next]_vars
  PROVE  \A c \in Clients : /\ link'[c] = "open" => link[c] = "open" \/ peer[c] = "away"
                            /\ peer'[c] = "here" => peer[c] \in {"here", "away"}
                            /\ peer[c] # "away" => peer'[c] # "away"
<1> USE DEF conn, TypeOK, ConnTypes
<1>1. CASE RunNotify \/ RunResult
    BY <1>1 DEF RunNotify, RunResult, NotifyFrom
<1>2. CASE RunStart \/ RunWake \/ RunDrained
    BY <1>2 DEF RunStart, RunWake, RunDrained, Check, Leave, Wait
<1>3. CASE RunLost \/ RunHangUp
    BY <1>3 DEF RunLost, RunHangUp
<1>4. CASE RunAsk \/ RunUploaded \/ RunUploadError \/ RunRestart
    BY <1>4 DEF RunAsk, RunUploaded, RunUploadError, RunRestart
<1>5. CASE \E c \in Clients : Timeout(c) \/ Connect(c) \/ HangUp(c) \/ Notice(c)
    BY <1>5 DEF Timeout, Connect, HangUp, Notice
<1>6. CASE \E u \in Updaters : SleepOver(u) \/ Worker(u) \/ Ask(u) \/ EndUpload(u)
    BY <1>6 DEF SleepOver, Worker, Report, Finish, Ask, EndUpload
<1>7. CASE Crash \/ UNCHANGED vars
    BY <1>7 DEF Crash, vars
<1> QED BY <1>1, <1>2, <1>3, <1>4, <1>5, <1>6, <1>7 DEF Next, Alive, RunLoop, Clock, Others

LEMMA GoneStays ==
  ASSUME TypeOK, [Next]_vars
  PROVE  \A c \in Clients : Gone(c) => Gone(c)'
<1> SUFFICES ASSUME NEW c \in Clients, Gone(c) PROVE Gone(c)'
    OBVIOUS
<1> QED BY ConnStep DEF Gone, Live

\* What an entry says of its client outlasts a step that leaves its coroutine alone.
LEMMA ClientEntryKept ==
  ASSUME TypeOK, [Next]_vars, NEW e \in Callbacks, ClientEntry(e),
         e.run \in OfClient => poller'[e.of] = poller[e.of]
  PROVE  ClientEntry(e)'
<1>1. e.run \in OfClient => e.of \in Clients
    BY EntryTyped
<1>2. e.run = "start" => peer'[e.of] # "away"
    BY <1>1, ConnStep DEF ClientEntry, OfClient
<1>3. e.run = "notify" => \A k \in DOMAIN e.dead : Gone(e.dead[k])'
  <2> SUFFICES ASSUME e.run = "notify", NEW k \in DOMAIN e.dead PROVE Gone(e.dead[k])'
      OBVIOUS
  <2>1. e.dead[k] \in Clients
      BY EntryTyped
  <2> QED BY <2>1, GoneStays DEF ClientEntry
<1> QED BY <1>2, <1>3 DEF ClientEntry, OfClient

\* The queue behind a step: what stays there, and what is added.
LEMMA ClientQueue ==
  ASSUME TypeOK, [Next]_vars, NEW old \in Seq(Callbacks), NEW add \in Seq(Callbacks),
         ClientEntries(old), ready' = old \o add,
         \A i \in DOMAIN old : old[i].run \in OfClient => poller'[old[i].of] = poller[old[i].of],
         \A k \in DOMAIN add : ClientEntry(add[k])', OneEach(add, OfClient, Clients),
         \A i \in DOMAIN old, k \in DOMAIN add :
           ~(old[i].run \in OfClient /\ add[k].run \in OfClient /\ old[i].of = add[k].of)
  PROVE  ClientEntries(ready)'
<1>1. ASSUME NEW j \in DOMAIN (old \o add) PROVE ClientEntry((old \o add)[j])'
  <2>1. CASE j \in DOMAIN old /\ (old \o add)[j] = old[j]
    <3>1. old[j] \in Callbacks
        BY <2>1
    <3> QED BY <2>1, <3>1, ClientEntryKept DEF ClientEntries
  <2>2. CASE j - Len(old) \in DOMAIN add /\ (old \o add)[j] = add[j - Len(old)]
      BY <2>2
  <2> QED BY <2>1, <2>2, Concatenated
<1>2. OneEach(old \o add, OfClient, Clients)
    BY OneEachAdd DEF ClientEntries
<1>3. OneEach(ready, OfClient, Clients)'
    BY <1>2 DEF OneEach
<1>4. \A j \in DOMAIN ready' : ClientEntry(ready[j])'
    BY <1>1 DEF ClientEntry
<1> QED BY <1>3, <1>4 DEF ClientEntries

\* What stays in the queue when the first callback runs is of other coroutines.
LEMMA ClientTail ==
  ASSUME TypeOK, ready # <<>>, ClientEntries(ready)
  PROVE  /\ Tail(ready) \in Seq(Callbacks) /\ ClientEntries(Tail(ready)) /\ ClientEntry(This)
         /\ \A i \in DOMAIN Tail(ready) :
              This.run \in OfClient /\ Tail(ready)[i].run \in OfClient => Tail(ready)[i].of # This.of
<1>1. ready \in Seq(Callbacks)
    BY DEF TypeOK, QueueTypes
<1>2. This.run \in OfClient => This.of \in Clients
    BY ThisTyped, EntryTyped
<1>3. \A i \in DOMAIN Tail(ready) : ClientEntry(Tail(ready)[i])
    BY <1>1, TailOf DEF ClientEntries
<1>4. /\ OneEach(Tail(ready), OfClient, Clients)
      /\ \A i \in DOMAIN Tail(ready) :
           ~(/\ This.run \in OfClient /\ Tail(ready)[i].run \in OfClient
             /\ This.of = Tail(ready)[i].of /\ This.of \in Clients)
    BY <1>1, OneEachTail DEF ClientEntries, This
<1> QED BY <1>1, <1>2, <1>3, <1>4, TailOf, ThisEntry DEF ClientEntries

\* No callback is there to resume a client whose coroutine waits for one, or has not
\* started or is over.
LEMMA NoEntry ==
  ASSUME TypeOK, ClientEntries(ready), NEW c \in Clients,
         poller[c] \notin {"woken", "draining"}, poller[c] # "none" \/ peer[c] = "away"
  PROVE  \A i \in DOMAIN ready : ~(ready[i].run \in OfClient /\ ready[i].of = c)
BY DEF ClientEntries, ClientEntry, OfClient

\* A step that adds no callback of a client and resumes none.
LEMMA ClientQueueOther ==
  ASSUME TypeOK, [Next]_vars, NEW old \in Seq(Callbacks), NEW add \in Seq(Callbacks),
         ClientEntries(old), ready' = old \o add, poller' = poller,
         \A k \in DOMAIN add : add[k].run \notin OfClient /\ ClientEntry(add[k])'
  PROVE  ClientEntries(ready)'
<1>1. OneEach(add, OfClient, Clients)
    BY DEF OneEach
<1> QED BY <1>1, ClientQueue

\* A step that resumes the coroutine of c, or wakes it.
LEMMA ClientQueueOf ==
  ASSUME TypeOK, [Next]_vars, NEW old \in Seq(Callbacks), NEW add \in Seq(Callbacks),
         NEW c \in Clients, ClientEntries(old), ready' = old \o add,
         \A d \in Clients \ {c} : poller'[d] = poller[d],
         \A i \in DOMAIN old : old[i].run \in OfClient => old[i].of # c,
         \A k \in DOMAIN add : /\ add[k].of = c /\ ClientEntry(add[k])'
                               /\ add[k].run \in OfClient => k = Len(add)
  PROVE  ClientEntries(ready)'
<1>1. OneEach(add, OfClient, Clients)
    BY DEF OneEach
<1>2. ASSUME NEW i \in DOMAIN old, old[i].run \in OfClient PROVE poller'[old[i].of] = poller[old[i].of]
  <2>1. old[i] \in Callbacks
      OBVIOUS
  <2> QED BY <1>2, <2>1, EntryTyped
<1>3. \A i \in DOMAIN old, k \in DOMAIN add :
        ~(old[i].run \in OfClient /\ add[k].run \in OfClient /\ old[i].of = add[k].of)
    OBVIOUS
<1> QED BY <1>1, <1>2, <1>3, ClientQueue

\* What a step adds that finds a transport closing: the loss of an open one is
\* noticed next, then the coroutine goes on.
Closing(add, was, lost, e) ==
  /\ add = (IF was = "open" THEN <<lost>> ELSE <<>>) \o <<e>>
  /\ \A k \in DOMAIN add : add[k] = lost \/ (add[k] = e /\ k = Len(add))

LEMMA ClosingExists ==
  ASSUME NEW lost \in Callbacks, NEW e \in Callbacks, NEW was
  PROVE  \E add \in Seq(Callbacks) : Closing(add, was, lost, e)
<1>1. CASE was = "open"
  <2> DEFINE add == <<lost>> \o <<e>>
  <2>1. add \in Seq(Callbacks) /\ DOMAIN add = {1, 2} /\ add[1] = lost /\ add[2] = e /\ Len(add) = 2
      OBVIOUS
  <2> QED BY <1>1, <2>1 DEF Closing
<1>2. CASE was # "open"
  <2> DEFINE add == <<>> \o <<e>>
  <2>1. add \in Seq(Callbacks) /\ DOMAIN add = {1} /\ add[1] = e /\ Len(add) = 1
      OBVIOUS
  <2> QED BY <1>2, <2>1 DEF Closing
<1> QED BY <1>1, <1>2

LEMMA ListedHere ==
  ASSUME TypeOK, PollerInv, ListInv, NEW d \in Listed
  PROVE  d \in Clients /\ poller[d] \notin {"none", "done"} /\ peer[d] # "away"
<1>1. d \in Clients
    BY DEF Listed, TypeOK, QueueTypes
<1> QED BY <1>1 DEF PollerInv, ListInv

LEMMA Appended ==
  ASSUME NEW T, NEW q \in Seq(T), NEW e \in T
  PROVE  /\ Append(q, e) \in Seq(T) /\ Len(Append(q, e)) = Len(q) + 1
         /\ \A k \in DOMAIN Append(q, e) :
              Append(q, e)[k] = e \/ (k \in DOMAIN q /\ Append(q, e)[k] = q[k])
<1>1. /\ Append(q, e) \in Seq(T) /\ DOMAIN Append(q, e) = 1..(Len(q) + 1) /\ DOMAIN q = 1..Len(q)
      /\ Append(q, e)[Len(q) + 1] = e /\ \A k \in 1..Len(q) : Append(q, e)[k] = q[k]
      /\ Len(q) \in Nat /\ Len(Append(q, e)) = Len(q) + 1
    OBVIOUS
<1>2. ASSUME NEW k \in DOMAIN Append(q, e)
      PROVE  Append(q, e)[k] = e \/ (k \in DOMAIN q /\ Append(q, e)[k] = q[k])
  <2>1. k \in 1..Len(q) \/ k = Len(q) + 1
      BY <1>1
  <2>2. CASE k = Len(q) + 1
      BY <1>1, <2>2
  <2>3. CASE k \in 1..Len(q)
      BY <1>1, <2>3
  <2> QED BY <2>1, <2>2, <2>3
<1> QED BY <1>1, <1>2

LEMMA NotifyClient ==
  ASSUME TypeOK, ClientInv, PollerInv, ListInv, [Next]_vars, ready # <<>>, NEW u \in Updaters \cup {Nobody},
         NEW m \in Messages, NEW i \in Nat \ {0}, NEW dead \in Seq(Clients),
         \A k \in DOMAIN dead : Gone(dead[k]), NotifyFrom(u, m, i, dead)
  PROVE  ClientInv'
<1>1. clients \in Seq(Clients) /\ ready \in Seq(Callbacks)
    BY DEF TypeOK, QueueTypes
<1>2. \A d \in Listed : d \in Clients /\ peer[d] # "away"
    BY ListedHere
<1>3. /\ StopAt(i) \in 1..(Len(clients) + 1)
      /\ StopAt(i) <= Len(clients) => clients[StopAt(i)] \in Listed \cap Clients
      /\ Passed(i) \in Seq(Clients) /\ Values(Passed(i)) \subseteq Listed
    BY <1>1, StopAtIn
<1>4. PICK now \in Seq(Clients) :
        now = dead \o DeadIn(Passed(i)) /\ \A k \in DOMAIN now : Gone(now[k])
  <2>1. DeadIn(Passed(i)) \in Seq(Clients) /\ Values(DeadIn(Passed(i))) \subseteq Listed \cap {d \in Clients : ~Live(d)}
      BY <1>3, KeptProperties DEF DeadIn
  <2>2. \A k \in DOMAIN DeadIn(Passed(i)) : Gone(DeadIn(Passed(i))[k])
      BY <1>2, <2>1 DEF Gone, Values
  <2> DEFINE more == DeadIn(Passed(i))
  <2>3. /\ dead \o more \in Seq(Clients)
        /\ \A j \in DOMAIN (dead \o more) :
             \/ j \in DOMAIN dead /\ (dead \o more)[j] = dead[j]
             \/ j - Len(dead) \in DOMAIN more /\ (dead \o more)[j] = more[j - Len(dead)]
      BY <2>1, Concatenated
  <2>4. \A j \in DOMAIN (dead \o more) : Gone((dead \o more)[j])
    <3> HIDE DEF more
    <3> QED BY <2>2, <2>3 DEF more
  <2> QED BY <2>3, <2>4
<1>5. UNCHANGED <<peer, poller>>
    BY DEF NotifyFrom
<1>6. Tail(ready) \in Seq(Callbacks) /\ ClientEntries(Tail(ready))
    BY ClientTail DEF ClientInv
<1>7. PollerInv'
    BY <1>5, GoneStays DEF ClientInv, PollerInv
<1>8. CASE /\ StopAt(i) <= Len(clients)
           /\ Then((IF link[clients[StopAt(i)]] = "open" THEN <<Lost(clients[StopAt(i)])>> ELSE <<>>)
                   \o <<Notify(u, m, StopAt(i) + 1, Append(now, clients[StopAt(i)]))>>)
           /\ link' = [link EXCEPT ![clients[StopAt(i)]] = "closing"]
           /\ UNCHANGED <<clients, upload>>
  <2>1. PICK c \in Clients, at \in Nat \ {0} :
          c = clients[StopAt(i)] /\ c \in Listed /\ at = StopAt(i) + 1
      BY <1>3, <1>8
  <2>2. PICK hit \in Seq(Clients) : /\ hit = Append(now, c)
                                    /\ \A k \in DOMAIN hit : hit[k] = c \/ Gone(hit[k])
    <3>1. /\ Append(now, c) \in Seq(Clients)
          /\ \A k \in DOMAIN Append(now, c) :
               Append(now, c)[k] = c \/ (k \in DOMAIN now /\ Append(now, c)[k] = now[k])
        BY Appended
    <3> QED BY <1>4, <3>1
  <2>3. PICK e \in Callbacks : e = Notify(u, m, at, hit)
      BY CallbackTyped
  <2>4. \A k \in DOMAIN hit : Gone(hit[k])'
    <3>1. Gone(c)'
        BY <1>2, <1>5, <1>8, <2>1 DEF Gone, Live, TypeOK, ConnTypes
    <3>2. \A k \in DOMAIN hit : hit[k] \in Clients
        OBVIOUS
    <3> QED BY <2>2, <3>1, <3>2, GoneStays
  <2>5. PICK lost \in Callbacks : lost = Lost(c)
      BY CallbackTyped
  <2>6. PICK add \in Seq(Callbacks) : Closing(add, link[c], lost, e)
      BY ClosingExists
  <2>7. PICK old \in Seq(Callbacks) : old = Tail(ready)
      BY <1>6
  <2>8. \A k \in DOMAIN add : add[k].run \notin OfClient /\ ClientEntry(add[k])'
    <3>1. e.run = "notify" /\ e.dead = hit /\ lost.run = "lost"
        BY <2>3, <2>5 DEF Notify, Lost
    <3>2. ClientEntry(e)' /\ ClientEntry(lost)'
        BY <2>4, <3>1 DEF ClientEntry
    <3>3. \A k \in DOMAIN add : add[k] = e \/ add[k] = lost
        BY <2>6 DEF Closing
    <3>4. e.run \notin OfClient /\ lost.run \notin OfClient
        BY <3>1 DEF OfClient
    <3> QED BY <3>2, <3>3, <3>4
  <2>9. ClientEntries(old) /\ ready' = old \o add
      BY <1>6, <1>8, <2>1, <2>2, <2>3, <2>5, <2>6, <2>7 DEF Then, Closing
  <2>10. ClientEntries(ready)'
      BY <1>5, <2>8, <2>9, ClientQueueOther
  <2>11. ListInv'
      BY <1>5, <1>8, ConnStep DEF ClientInv, ListInv, Listed, Live, PollerInv
  <2> QED BY <1>7, <2>10, <2>11 DEF ClientInv
<1>9. CASE StopAt(i) > Len(clients) /\ RemoveDead(now) /\ Then(<<>>) /\ UNCHANGED link
  <2>1. PICK old \in Seq(Callbacks) : old = Tail(ready)
      BY <1>6
  <2>2. ready' = old \o <<>> /\ ClientEntries(old)
      BY <1>6, <1>9, <2>1 DEF Then
  <2>3. ClientEntries(ready)'
    <3>1. <<>> \in Seq(Callbacks) /\ DOMAIN <<>> = {}
        OBVIOUS
    <3> QED BY <1>5, <2>2, <3>1, ClientQueueOther
  <2> DEFINE K == {d \in Clients : \A k \in DOMAIN now :
                     now[k] = d => \E l \in 1..k : now[l] \notin Listed}
  <2>4. \A d \in Clients : Live(d) => d \in K
      BY <1>4 DEF Gone
  <2>5. clients' = Kept(clients, K)
      BY <1>9 DEF RemoveDead
  <2>6. NoDuplicates(clients)
      BY DEF ClientInv, ListInv, NoDuplicates
  <2>7. clients' \in Seq(Clients) /\ Values(clients') = Listed \cap K /\ NoDuplicates(clients')
    <3> HIDE DEF K
    <3>1. Values(clients) = Listed
        BY DEF Values, Listed
    <3> QED BY <1>1, <2>5, <2>6, <3>1, KeptProperties
  <2>8. Listed' = Listed \cap K
      BY <2>7 DEF Listed, Values
  <2>9. ListInv'
    <3> HIDE DEF K
    <3> QED BY <1>5, <1>9, <2>4, <2>7, <2>8 DEF ClientInv, ListInv, NoDuplicates, Live
  <2> QED BY <1>7, <2>3, <2>9 DEF ClientInv
<1> QED BY <1>4, <1>8, <1>9 DEF NotifyFrom

LEMMA NothingToAdd == \E add \in Seq(Callbacks) : add = <<>> /\ DOMAIN add = {}
<1>1. <<>> \in Seq(Callbacks) /\ DOMAIN <<>> = {}
    OBVIOUS
<1> QED BY <1>1

LEMMA LeaveClient ==
  ASSUME TypeOK, ClientInv, PollerInv, ListInv, [Next]_vars, ready # <<>>, This.run \in OfClient,
         NEW c \in Clients, This.of = c, peer[c] # "away", Leave(c), Then(<<>>), peer' = peer
  PROVE  ClientInv'
<1>1. clients \in Seq(Clients)
    BY DEF TypeOK, QueueTypes
<1>2. /\ poller' = [poller EXCEPT ![c] = "done"] /\ link' = [link EXCEPT ![c] = "closed"]
      /\ clients' = Kept(clients, Clients \ {c})
    BY DEF Leave, Without
<1>3. ClientEntries(ready)'
  <2>1. PICK old \in Seq(Callbacks) : old = Tail(ready)
      BY ClientTail DEF ClientInv
  <2>2. ready' = old \o <<>> /\ ClientEntries(old)
      BY <2>1, ClientTail DEF Then, ClientInv
  <2>3. \A i \in DOMAIN old : old[i].run \in OfClient => old[i].of # c
      BY <2>1, ClientTail DEF ClientInv
  <2>4. \A d \in Clients \ {c} : poller'[d] = poller[d]
      BY <1>2 DEF TypeOK, ConnTypes
  <2>5. PICK add \in Seq(Callbacks) : add = <<>> /\ DOMAIN add = {}
      BY NothingToAdd
  <2> QED BY <2>2, <2>3, <2>4, <2>5, ClientQueueOf
<1>4. PollerInv'
    BY <1>2, GoneStays DEF PollerInv, TypeOK, ConnTypes
<1>5. clients' \in Seq(Clients) /\ Values(clients') = Listed \ {c} /\ NoDuplicates(clients')
  <2>1. Values(clients) = Listed /\ Listed \subseteq Clients
      BY <1>1 DEF Values, Listed
  <2>2. NoDuplicates(clients)
      BY DEF ListInv, NoDuplicates
  <2>3. Values(clients') = Listed \cap (Clients \ {c})
      BY <1>1, <1>2, <2>1, KeptProperties
  <2> QED BY <1>1, <1>2, <2>1, <2>2, <2>3, KeptProperties
<1>6. Listed' = Listed \ {c}
    BY <1>5 DEF Listed, Values
<1>7. ListInv'
  <2>1. \A i, j \in DOMAIN clients' : clients'[i] = clients'[j] => i = j
      BY <1>5 DEF NoDuplicates
  <2>2. ASSUME NEW d \in Clients
        PROVE  /\ d \in Listed' => poller'[d] \notin {"none", "done"}
               /\ poller'[d] \in {"waiting", "woken"} /\ Live(d)' => d \in Listed'
    <3>1. CASE d = c
        BY <1>2, <1>6, <3>1 DEF TypeOK, ConnTypes
    <3>2. CASE d # c
      <4>1. poller'[d] = poller[d] /\ (Live(d)' <=> Live(d)) /\ (d \in Listed' <=> d \in Listed)
          BY <1>2, <1>6, <3>2 DEF Live, TypeOK, ConnTypes
      <4> QED BY <4>1 DEF ListInv
    <3> QED BY <3>1, <3>2
  <2> QED BY <2>1, <2>2 DEF ListInv
<1> QED BY <1>3, <1>4, <1>7 DEF ClientInv

\* The list after a check that lets the client stay.
LEMMA StayListed ==
  ASSUME TypeOK, ClientInv, PollerInv, ListInv, NEW c \in Clients, peer' = peer,
         \/ clients' = clients /\ poller[c] = "woken"
         \/ clients' = Append(clients, c) /\ poller[c] = "none",
         \A d \in Clients \ {c} : poller'[d] = poller[d] /\ link'[d] = link[d],
         \/ poller'[c] = "waiting" /\ link'[c] = link[c]
         \/ poller'[c] = "draining" /\ link'[c] = "closing"
  PROVE  ListInv'
<1>1. clients \in Seq(Clients)
    BY DEF TypeOK, QueueTypes
<1>2. CASE clients' = clients /\ poller[c] = "woken"
  <2>1. Listed' = Listed
      BY <1>2 DEF Listed
  <2> QED BY <1>2, <2>1 DEF ListInv, Live
<1>3. CASE clients' = Append(clients, c) /\ poller[c] = "none"
  <2>1. c \notin Listed
      BY <1>3 DEF ListInv
  <2>2. /\ DOMAIN clients' = 1..(Len(clients) + 1) /\ DOMAIN clients = 1..Len(clients) /\ Len(clients) \in Nat
        /\ clients'[Len(clients) + 1] = c /\ \A k \in 1..Len(clients) : clients'[k] = clients[k]
      BY <1>1, <1>3
  <2>3. 1..(Len(clients) + 1) = (1..Len(clients)) \cup {Len(clients) + 1}
      BY <1>1
  <2>4. Listed' = Listed \cup {c}
      BY <2>2, <2>3 DEF Listed
  <2>5. \A i, j \in DOMAIN clients' : clients'[i] = clients'[j] => i = j
    <3>1. \A k \in 1..Len(clients) : clients'[k] \in Listed
        BY <2>2 DEF Listed
    <3>2. \A i, j \in 1..Len(clients) : clients'[i] = clients'[j] => i = j
        BY <2>2 DEF ListInv
    <3> QED BY <2>1, <2>2, <2>3, <3>1, <3>2
  <2>6. ASSUME NEW d \in Clients
        PROVE  /\ d \in Listed' => poller'[d] \notin {"none", "done"}
               /\ poller'[d] \in {"waiting", "woken"} /\ Live(d)' => d \in Listed'
    <3>1. CASE d = c
        BY <2>4, <3>1
    <3>2. CASE d # c
        BY <2>4, <3>2 DEF ListInv, Live
    <3> QED BY <3>1, <3>2
  <2> QED BY <2>5, <2>6 DEF ListInv
<1> QED BY <1>2, <1>3

LEMMA CheckClient ==
  ASSUME TypeOK, ClientInv, PollerInv, ListInv, [Next]_vars, ready # <<>>, This.run \in OfClient,
         NEW c \in Clients, This.of = c, peer[c] # "away", peer' = peer, NEW listed,
         \/ listed = clients /\ poller[c] = "woken"
         \/ listed = Append(clients, c) /\ poller[c] = "none",
         Check(c, listed)
  PROVE  ClientInv'
<1>1. CASE Leave(c) /\ Then(<<>>)
    BY <1>1, LeaveClient
<1>2. PICK old \in Seq(Callbacks) : old = Tail(ready)
    BY ClientTail DEF ClientInv
<1>3. ClientEntries(old) /\ \A i \in DOMAIN old : old[i].run \in OfClient => old[i].of # c
    BY <1>2, ClientTail DEF ClientInv
<1>4. CASE Wait(c) /\ clients' = listed /\ Then(<<>>)
  <2>1. poller' = [poller EXCEPT ![c] = "waiting"] /\ link' = link
      BY <1>4 DEF Wait
  <2>2. ClientEntries(ready)'
    <3>1. PICK add \in Seq(Callbacks) : add = <<>> /\ DOMAIN add = {}
        BY NothingToAdd
    <3>2. ready' = old \o add
        BY <1>2, <1>4, <3>1 DEF Then
    <3>3. \A d \in Clients \ {c} : poller'[d] = poller[d]
        BY <2>1 DEF TypeOK, ConnTypes
    <3> QED BY <1>3, <3>1, <3>2, <3>3, ClientQueueOf
  <2>3. PollerInv'
      BY <2>1, GoneStays DEF PollerInv, TypeOK, ConnTypes
  <2>4. ListInv'
      BY <1>4, <2>1, StayListed DEF TypeOK, ConnTypes
  <2> QED BY <2>2, <2>3, <2>4 DEF ClientInv
<1>5. CASE /\ Slow(c)
           /\ Then((IF link[c] = "open" THEN <<Lost(c)>> ELSE <<>>) \o <<Drained(c)>>)
           /\ link' = [link EXCEPT ![c] = "closing"]
           /\ poller' = [poller EXCEPT ![c] = "draining"]
           /\ clients' = listed
  <2>1. link'[c] = "closing" /\ poller'[c] = "draining" /\ Gone(c)'
      BY <1>5 DEF TypeOK, ConnTypes, Gone, Live
  <2>2. PICK add \in Seq(Callbacks) : Closing(add, link[c], Lost(c), Drained(c))
    <3>1. PICK lost \in Callbacks, drained \in Callbacks : lost = Lost(c) /\ drained = Drained(c)
        BY CallbackTyped
    <3> QED BY <3>1, ClosingExists
  <2>3. ready' = old \o add
      BY <1>2, <1>5, <2>2 DEF Then, Closing
  <2>4. \A d \in Clients \ {c} : poller'[d] = poller[d] /\ link'[d] = link[d]
      BY <1>5 DEF TypeOK, ConnTypes
  <2>5. ASSUME NEW k \in DOMAIN add
        PROVE  /\ add[k].of = c /\ ClientEntry(add[k])'
               /\ add[k].run \in OfClient => k = Len(add)
    <3>1. CASE add[k] = Lost(c)
        BY <3>1 DEF Lost, ClientEntry, OfClient
    <3>2. CASE add[k] = Drained(c) /\ k = Len(add)
        BY <2>1, <3>2 DEF Drained, ClientEntry, OfClient
    <3> QED BY <2>2, <3>1, <3>2 DEF Closing
  <2>6. ClientEntries(ready)'
      BY <1>3, <2>3, <2>4, <2>5, ClientQueueOf
  <2>7. PollerInv'
      BY <1>5, <2>1, GoneStays DEF PollerInv, TypeOK, ConnTypes
  <2>8. ListInv'
      BY <1>5, <2>1, <2>4, StayListed
  <2> QED BY <2>6, <2>7, <2>8 DEF ClientInv
<1> QED BY <1>1, <1>4, <1>5 DEF Check

LEMMA ResultTyped ==
  ASSUME TypeOK, UpdaterInv, Runs("control"), This.how = "result"
  PROVE  /\ This.of \in Updaters /\ work[This.of] \in Verdicts /\ upload[This.of] = "installing"
         /\ work[This.of] # "raised" =>
              work[This.of] \in {SUCCESS, FAILURE} /\ BuildMsg(work[This.of], 0) \in Messages
<1>1. This.of \in Updaters
    BY ThisOf
<1>2. work[This.of] \in Verdicts /\ upload[This.of] = "installing"
    BY ThisEntry DEF Runs, UpdaterInv, UpdaterEntries, UpdaterEntry, This
<1>3. work[This.of] # "raised" => work[This.of] \in {SUCCESS, FAILURE}
    BY <1>2 DEF Verdicts
<1>4. work[This.of] \in {SUCCESS, FAILURE} => BuildMsg(work[This.of], 0) \in Messages
    BY DEF BuildMsg, Message, Messages, Statuses, TypeOK, ShownTypes
<1> QED BY <1>1, <1>2, <1>3, <1>4

\* A step that adds one callback, which resumes nobody, and changes nothing else of the
\* clients.
LEMMA ClientPost ==
  ASSUME TypeOK, ClientInv, [Next]_vars, NEW e \in Callbacks, ready' = Append(ready, e),
         e.run \notin OfClient, ClientEntry(e)', UNCHANGED <<clients, link, poller>>,
         \A c \in Clients : (Live(c)' => Live(c)) /\ (peer'[c] = "away" => peer[c] = "away")
  PROVE  ClientInv'
<1>1. ready \in Seq(Callbacks) /\ <<e>> \in Seq(Callbacks) /\ DOMAIN <<e>> = {1} /\ <<e>>[1] = e
    BY DEF TypeOK, QueueTypes
<1>2. PICK old \in Seq(Callbacks), add \in Seq(Callbacks) : old = ready /\ add = <<e>>
    BY <1>1
<1>3. ready' = old \o add
    BY <1>2
<1>4. ClientEntries(ready)'
    BY <1>1, <1>2, <1>3, ClientQueueOther DEF ClientInv
<1>5. PollerInv' /\ ListInv'
    BY GoneStays DEF ClientInv, PollerInv, ListInv, Listed
<1> QED BY <1>4, <1>5 DEF ClientInv

\* A step that runs a callback of no client and adds none.
LEMMA ClientDrop ==
  ASSUME TypeOK, ClientInv, [Next]_vars, ready # <<>>, Then(<<>>),
         UNCHANGED <<clients, peer, link, poller>>
  PROVE  ClientInv'
<1>1. PICK old \in Seq(Callbacks), add \in Seq(Callbacks) :
        old = Tail(ready) /\ add = <<>> /\ DOMAIN add = {}
    BY ClientTail, NothingToAdd DEF ClientInv
<1>2. ready' = old \o add /\ ClientEntries(old)
    BY <1>1, ClientTail DEF Then, ClientInv
<1>3. ClientEntries(ready)'
    BY <1>1, <1>2, ClientQueueOther
<1>4. PollerInv' /\ ListInv'
    BY GoneStays DEF ClientInv, PollerInv, ListInv, Listed, Live
<1> QED BY <1>3, <1>4 DEF ClientInv

\* A step that changes neither the queue nor the state of a coroutine.
LEMMA ClientSame ==
  ASSUME TypeOK, ClientInv, [Next]_vars, UNCHANGED <<clients, ready, link, poller>>,
         \A c \in Clients : (Live(c)' => Live(c)) /\ (peer'[c] = "away" => peer[c] = "away")
  PROVE  ClientInv'
<1>1. PICK old \in Seq(Callbacks), add \in Seq(Callbacks) : old = ready /\ add = <<>> /\ DOMAIN add = {}
    BY NothingToAdd DEF TypeOK, QueueTypes
<1>2. ready' = old \o add
    BY <1>1
<1>3. ClientEntries(ready)'
    BY <1>1, <1>2, ClientQueueOther DEF ClientInv
<1>4. PollerInv' /\ ListInv'
    BY GoneStays DEF ClientInv, PollerInv, ListInv, Listed
<1> QED BY <1>3, <1>4 DEF ClientInv

\* A client is woken: the one callback that resumes it is added.
LEMMA ClientWoken ==
  ASSUME TypeOK, ClientInv, PollerInv, ListInv, [Next]_vars, NEW c \in Clients, poller[c] = "waiting",
         NEW old \in Seq(Callbacks), ClientEntries(old), NEW why,
         \A i \in DOMAIN old : old[i].run \in OfClient => old[i].of # c,
         ready' = Append(old, Wake(c, why)), poller' = [poller EXCEPT ![c] = "woken"],
         clients' = clients, \A d \in Clients : Live(d)' => Live(d),
         \A d \in Clients : peer'[d] = "away" => peer[d] = "away", Wake(c, why) \in Callbacks
  PROVE  ClientInv'
<1>1. PICK add \in Seq(Callbacks) : add = <<Wake(c, why)>> /\ DOMAIN add = {1} /\ Len(add) = 1
  <2>1. <<Wake(c, why)>> \in Seq(Callbacks) /\ DOMAIN <<Wake(c, why)>> = {1} /\ Len(<<Wake(c, why)>>) = 1
      OBVIOUS
  <2> QED BY <2>1
<1>2. ready' = old \o add
    BY <1>1
<1>3. poller'[c] = "woken" /\ \A d \in Clients \ {c} : poller'[d] = poller[d]
    BY DEF TypeOK, ConnTypes
<1>4. \A k \in DOMAIN add : add[k].of = c /\ ClientEntry(add[k])' /\ k = Len(add)
    BY <1>1, <1>3 DEF Wake, ClientEntry
<1>5. ClientEntries(ready)'
  <2>1. \A d \in Clients \ {c} : poller'[d] = poller[d]
      BY <1>3
  <2>2. \A k \in DOMAIN add : /\ add[k].of = c /\ ClientEntry(add[k])'
                              /\ add[k].run \in OfClient => k = Len(add)
      BY <1>4
  <2> QED BY <1>2, <2>1, <2>2, ClientQueueOf
<1>6. PollerInv'
    BY <1>3, GoneStays DEF PollerInv
<1>7. ListInv'
    BY <1>3 DEF ListInv, Listed
<1> QED BY <1>5, <1>6, <1>7 DEF ClientInv

LEMMA ClientStep == TypeOK /\ UpdaterInv /\ ClientInv /\ [Next]_vars => ClientInv'
<1> SUFFICES ASSUME TypeOK, UpdaterInv, ClientInv, [Next]_vars PROVE ClientInv'
    OBVIOUS
<1> USE DEF conn, upd
<1>0. PollerInv /\ ListInv /\ ClientEntries(ready)
    BY DEF ClientInv
<1>1. CASE RunNotify
  <2>1. ready # <<>> /\ \A k \in DOMAIN This.dead : Gone(This.dead[k])
      BY <1>1, ClientTail, <1>0 DEF RunNotify, Runs, ClientEntry, This
  <2> QED BY <1>0, <1>1, <2>1, ThisOf, NotifyClient DEF RunNotify
<1>2. CASE RunResult
  <2>1. ready # <<>> /\ This.of \in Updaters
      BY <1>2, ResultTyped DEF RunResult, Runs
  <2>2. CASE work[This.of] = "raised"
      BY <1>2, <2>1, <2>2, ClientDrop DEF RunResult
  <2>3. CASE work[This.of] # "raised"
    <3>1. NotifyFrom(This.of, BuildMsg(work[This.of], 0), 1, <<>>)
        BY <1>2, <2>3 DEF RunResult
    <3>2. BuildMsg(work[This.of], 0) \in Messages
        BY <1>2, <2>3, ResultTyped DEF RunResult
    <3>3. <<>> \in Seq(Clients) /\ DOMAIN <<>> = {} /\ 1 \in Nat \ {0} /\ This.of \in Updaters \cup {Nobody}
        BY <2>1
    <3> QED BY <1>0, <2>1, <3>1, <3>2, <3>3, NotifyClient
  <2> QED BY <2>2, <2>3
<1>3. CASE RunStart
  <2>1. /\ ready # <<>> /\ This.run = "start" /\ This.run \in OfClient /\ This.of \in Clients
        /\ peer' = peer /\ Check(This.of, Append(clients, This.of))
      BY <1>3, ThisOf DEF RunStart, Runs, OfClient, This
  <2>2. poller[This.of] = "none" /\ peer[This.of] # "away"
      BY <1>0, <2>1, ClientTail DEF ClientEntry
  <2> QED BY <1>0, <2>1, <2>2, CheckClient
<1>4. CASE RunWake
  <2>1. /\ ready # <<>> /\ This.run = "wake" /\ This.run \in OfClient /\ This.of \in Clients
        /\ peer' = peer
      BY <1>4, ThisOf DEF RunWake, Runs, OfClient, This
  <2>2. poller[This.of] = "woken" /\ peer[This.of] # "away"
      BY <1>0, <2>1, ClientTail DEF ClientEntry, PollerInv
  <2>3. Check(This.of, clients) \/ (Leave(This.of) /\ Then(<<>>))
      BY <1>4 DEF RunWake
  <2> QED BY <1>0, <2>1, <2>2, <2>3, CheckClient, LeaveClient
<1>5. CASE RunDrained
  <2>1. /\ ready # <<>> /\ This.run = "drained" /\ This.run \in OfClient /\ This.of \in Clients
        /\ peer' = peer /\ Leave(This.of) /\ Then(<<>>)
      BY <1>5, ThisOf DEF RunDrained, Runs, OfClient, This
  <2>2. peer[This.of] # "away"
      BY <1>0, <2>1, ClientTail DEF ClientEntry, PollerInv
  <2> QED BY <1>0, <2>1, <2>2, LeaveClient
<1>6. CASE RunLost \/ RunHangUp
  <2>1. ready # <<>> /\ This.of \in Clients /\ clients' = clients
      BY <1>6, ThisOf DEF RunLost, RunHangUp, Runs
  <2>2. \A d \in Clients : (Live(d)' => Live(d)) /\ (peer'[d] = "away" => peer[d] = "away")
      BY <1>6, <2>1 DEF RunLost, RunHangUp, Live, TypeOK, ConnTypes
  <2>5. PICK old \in Seq(Callbacks) : old = Tail(ready) /\ ClientEntries(old)
      BY <1>0, <2>1, ClientTail
  <2>3. CASE Then(<<>>) /\ UNCHANGED poller
    <3>1. PICK add \in Seq(Callbacks) : add = <<>> /\ DOMAIN add = {}
        BY NothingToAdd
    <3>2. ready' = old \o add
        BY <2>3, <2>5, <3>1 DEF Then
    <3>3. ClientEntries(ready)'
        BY <2>3, <2>5, <3>1, <3>2, ClientQueueOther
    <3>4. PollerInv' /\ ListInv'
        BY <1>0, <2>1, <2>2, <2>3, GoneStays DEF PollerInv, ListInv, Listed
    <3> QED BY <3>3, <3>4 DEF ClientInv
  <2>4. CASE WakeUp(This.of) /\ poller[This.of] = "waiting"
    <3>1. PICK c \in Clients : c = This.of
        BY <2>1
    <3>2. /\ poller' = [poller EXCEPT ![c] = "woken"] /\ poller[c] = "waiting"
          /\ ready' = old \o <<Wake(c, "end")>>
        BY <2>4, <2>5, <3>1 DEF WakeUp, Then
    <3>3. Wake(c, "end") \in Callbacks
        BY CallbackTyped
    <3>4. ready' = Append(old, Wake(c, "end"))
        BY <3>2, <3>3
    <3>5. \A i \in DOMAIN ready : ~(ready[i].run \in OfClient /\ ready[i].of = c)
        BY <1>0, <3>2, NoEntry
    <3>6. \A i \in DOMAIN old : old[i].run \in OfClient => old[i].of # c
        BY <2>1, <2>5, <3>5, TailOf DEF TypeOK, QueueTypes
    <3> QED BY <1>0, <2>1, <2>2, <2>5, <3>2, <3>3, <3>4, <3>6, ClientWoken
  <2> QED BY <1>6, <2>3, <2>4 DEF RunLost, RunHangUp, WakeUp
<1>7. CASE RunAsk \/ RunUploaded \/ RunUploadError \/ RunRestart
    BY <1>7, ClientDrop DEF RunAsk, RunUploaded, RunUploadError, RunRestart, Runs
<1>8. ASSUME NEW c \in Clients, Timeout(c) PROVE ClientInv'
  <2>1. Wake(c, "timeout") \in Callbacks /\ ready \in Seq(Callbacks)
      BY CallbackTyped DEF TypeOK, QueueTypes
  <2>2. PICK old \in Seq(Callbacks) : old = ready
      BY <2>1
  <2>3. \A i \in DOMAIN old : old[i].run \in OfClient => old[i].of # c
      BY <1>0, <1>8, <2>2, NoEntry DEF Timeout
  <2> QED BY <1>0, <1>8, <2>1, <2>2, <2>3, ClientWoken DEF Timeout, Post, Live
<1>9. ASSUME NEW c \in Clients, Connect(c) PROVE ClientInv'
  <2>1. PICK old \in Seq(Callbacks), e \in Callbacks : old = ready /\ e = Start(c)
      BY CallbackTyped DEF TypeOK, QueueTypes
  <2>2. PICK add \in Seq(Callbacks) : add = <<e>> /\ DOMAIN add = {1} /\ Len(add) = 1
    <3>1. <<e>> \in Seq(Callbacks) /\ DOMAIN <<e>> = {1} /\ Len(<<e>>) = 1
        OBVIOUS
    <3> QED BY <3>1
  <2>3. ready' = old \o add /\ ClientEntries(old)
      BY <1>0, <1>9, <2>1, <2>2 DEF Connect, Post
  <2>4. poller[c] = "none" /\ poller' = poller /\ peer' = [peer EXCEPT ![c] = "here"] /\ link' = link
        /\ peer[c] = "away" /\ clients' = clients
      BY <1>0, <1>9 DEF Connect, PollerInv
  <2>5. \A i \in DOMAIN old : old[i].run \in OfClient => old[i].of # c
      BY <1>0, <2>1, <2>4, NoEntry
  <2>6. \A k \in DOMAIN add : add[k].of = c /\ ClientEntry(add[k])' /\ k = Len(add)
      BY <2>1, <2>2, <2>4 DEF Start, ClientEntry, TypeOK, ConnTypes
  <2>7. ClientEntries(ready)'
      BY <2>3, <2>4, <2>5, <2>6, ClientQueueOf
  <2>8. PollerInv' /\ ListInv'
      BY <1>0, <2>4, GoneStays DEF PollerInv, ListInv, Listed, Live, TypeOK, ConnTypes
  <2> QED BY <2>7, <2>8 DEF ClientInv
<1>10. ASSUME NEW c \in Clients, Notice(c) PROVE ClientInv'
  <2>1. PICK e \in Callbacks : e = [run |-> "hangup", of |-> c]
      BY CallbackTyped
  <2> QED BY <1>10, <2>1, ClientPost DEF Notice, Post, ClientEntry, OfClient, Live
<1>11. ASSUME NEW c \in Clients, HangUp(c) PROVE ClientInv'
  <2>1. \A d \in Clients : (Live(d)' => Live(d)) /\ (peer'[d] = "away" => peer[d] = "away")
      BY <1>11 DEF HangUp, Live, TypeOK, ConnTypes
  <2> QED BY <1>11, <2>1, ClientSame DEF HangUp
<1>12. ASSUME NEW u \in Updaters, SleepOver(u) \/ Ask(u) \/ EndUpload(u) \/ Finish(u) PROVE ClientInv'
  <2>1. PICK e \in Callbacks : e.run = "control" /\ Post(e)
      BY <1>12, CallbackTyped DEF SleepOver, Ask, EndUpload, Finish, Control
  <2> QED BY <1>12, <2>1, ClientPost
      DEF SleepOver, Ask, EndUpload, Finish, Post, ClientEntry, OfClient, Live
<1>13. ASSUME NEW u \in Updaters, Report(u) PROVE ClientInv'
  <2>1. PICK m \in Marks : Post(Notify(Nobody, BuildMsg(RUN, m), 1, <<>>))
      BY <1>13 DEF Report
  <2>2. PICK e \in Callbacks : e = Notify(Nobody, BuildMsg(RUN, m), 1, <<>>)
      BY ReportTyped
  <2>3. e.run = "notify" /\ e.dead = <<>> /\ DOMAIN e.dead = {}
      BY <2>2 DEF Notify
  <2> QED BY <1>13, <2>1, <2>2, <2>3, ClientPost DEF Report, Post, ClientEntry, OfClient, Live
<1>14. CASE Crash
  <2>1. DOMAIN ready' = {} /\ DOMAIN clients' = {} /\ Listed' = {}
      BY <1>14 DEF Crash, Listed
  <2>2. ClientEntries(ready)'
      BY <2>1 DEF ClientEntries, OneEach
  <2>3. PollerInv' /\ ListInv'
      BY <1>14, <2>1 DEF Crash, PollerInv, ListInv
  <2> QED BY <2>2, <2>3 DEF ClientInv
<1>15. CASE UNCHANGED vars
    BY <1>15, ClientSame DEF vars, Live
<1> QED BY <1>1, <1>2, <1>3, <1>4, <1>5, <1>6, <1>7, <1>8, <1>9, <1>10, <1>11, <1>12, <1>13,
           <1>14, <1>15 DEF Next, Alive, RunLoop, Clock, Worker, Others

----------------------------------------------------------------------------
(* Updates. *)

LEMMA UpdaterQueue ==
  ASSUME NEW old \in Seq(Callbacks), NEW add \in Seq(Callbacks),
         UpdaterEntries(old), ready' = old \o add,
         \A i \in DOMAIN old : old[i].run \in OfUpdater /\ old[i].of \in Updaters =>
           upload'[old[i].of] = upload[old[i].of] /\ work'[old[i].of] = work[old[i].of],
         \A k \in DOMAIN add : UpdaterEntry(add[k])', OneEach(add, OfUpdater, Updaters),
         \A i \in DOMAIN old, k \in DOMAIN add :
           ~(/\ old[i].run \in OfUpdater /\ add[k].run \in OfUpdater
             /\ old[i].of = add[k].of /\ old[i].of \in Updaters)
  PROVE  UpdaterEntries(ready)'
<1>1. ASSUME NEW i \in DOMAIN old PROVE UpdaterEntry(old[i])'
  <2>1. old[i] \in Callbacks /\ UpdaterEntry(old[i])
      BY DEF UpdaterEntries
  <2>2. /\ old[i].run = "control" => old[i].of \in Updaters
        /\ old[i].run = "notify" => old[i].of \in Updaters \cup {Nobody}
      BY <2>1, EntryTyped
  <2>3. CASE old[i].run = "control"
      BY <2>1, <2>2, <2>3 DEF UpdaterEntry, OfUpdater
  <2>4. CASE old[i].run = "notify" /\ old[i].of = Nobody
      BY <2>1, <2>4 DEF UpdaterEntry, Terminal
  <2>5. CASE old[i].run = "notify" /\ old[i].of # Nobody
      BY <2>1, <2>2, <2>5 DEF UpdaterEntry, OfUpdater, Verdict
  <2>6. CASE old[i].run \notin OfUpdater
      BY <2>6 DEF UpdaterEntry, OfUpdater
  <2> QED BY <2>3, <2>4, <2>5, <2>6 DEF OfUpdater
<1>2. ASSUME NEW j \in DOMAIN (old \o add) PROVE UpdaterEntry((old \o add)[j])'
  <2>1. CASE j \in DOMAIN old /\ (old \o add)[j] = old[j]
      BY <1>1, <2>1
  <2>2. CASE j - Len(old) \in DOMAIN add /\ (old \o add)[j] = add[j - Len(old)]
      BY <2>2
  <2> QED BY <2>1, <2>2, Concatenated
<1>3. OneEach(old \o add, OfUpdater, Updaters)
    BY OneEachAdd DEF UpdaterEntries
<1>4. OneEach(ready, OfUpdater, Updaters)'
    BY <1>3 DEF OneEach
<1>5. \A j \in DOMAIN ready' : UpdaterEntry(ready[j])'
    BY <1>2 DEF UpdaterEntry, Verdict, Terminal
<1> QED BY <1>4, <1>5 DEF UpdaterEntries

LEMMA UpdaterTail ==
  ASSUME TypeOK, ready # <<>>, UpdaterEntries(ready)
  PROVE  /\ Tail(ready) \in Seq(Callbacks) /\ UpdaterEntries(Tail(ready)) /\ UpdaterEntry(This)
         /\ \A i \in DOMAIN Tail(ready) :
              This.run \in OfUpdater /\ This.of \in Updaters /\ Tail(ready)[i].run \in OfUpdater
                => Tail(ready)[i].of # This.of
<1>1. ready \in Seq(Callbacks)
    BY DEF TypeOK, QueueTypes
<1>3. \A i \in DOMAIN Tail(ready) : UpdaterEntry(Tail(ready)[i])
    BY <1>1, TailOf DEF UpdaterEntries
<1>4. /\ OneEach(Tail(ready), OfUpdater, Updaters)
      /\ \A i \in DOMAIN Tail(ready) :
           ~(/\ This.run \in OfUpdater /\ Tail(ready)[i].run \in OfUpdater
             /\ This.of = Tail(ready)[i].of /\ This.of \in Updaters)
    BY <1>1, OneEachTail DEF UpdaterEntries, This
<1> QED BY <1>1, <1>3, <1>4, TailOf, ThisEntry DEF UpdaterEntries

\* No callback is there to resume a handler that waits for its updater, sleeps or has
\* its worker running.
LEMMA NoUpdaterEntry ==
  ASSUME TypeOK, UpdaterEntries(ready), NEW u \in Updaters,
         \/ upload[u] \in {"none", "streaming", "sleeping", "over", "dead"}
         \/ upload[u] = "installing" /\ work[u] = "running"
  PROVE  \A i \in DOMAIN ready : ~(ready[i].run \in OfUpdater /\ ready[i].of = u)
<1> SUFFICES ASSUME NEW i \in DOMAIN ready, ready[i].run \in OfUpdater, ready[i].of = u PROVE FALSE
    OBVIOUS
<1>1. ready[i] \in Callbacks /\ UpdaterEntry(ready[i])
    BY DEF TypeOK, QueueTypes, UpdaterEntries
<1>2. u # Nobody
    BY NobodyAssumption DEF NobodyAssumption
<1>3. CASE ready[i].run = "control"
  <2>1. ready[i].how \in {"ask", "eof", "error", "result", "restart"}
      BY <1>1, <1>3, EntryTyped
  <2> QED BY <1>1, <1>3, <2>1 DEF UpdaterEntry, Verdicts, SUCCESS, FAILURE
<1>4. CASE ready[i].run = "notify"
    BY <1>1, <1>2, <1>4 DEF UpdaterEntry, Verdict, SUCCESS, FAILURE
<1> QED BY <1>3, <1>4 DEF OfUpdater

LEMMA UpdaterQueueOther ==
  ASSUME NEW old \in Seq(Callbacks), NEW add \in Seq(Callbacks),
         UpdaterEntries(old), ready' = old \o add, upload' = upload, work' = work,
         \A k \in DOMAIN add : /\ add[k].run \notin OfUpdater \/ add[k].of = Nobody
                               /\ UpdaterEntry(add[k])'
  PROVE  UpdaterEntries(ready)'
<1>1. OneEach(add, OfUpdater, Updaters)
    BY NobodyAssumption DEF OneEach, NobodyAssumption
<1>2. \A i \in DOMAIN old, k \in DOMAIN add :
           ~(/\ old[i].run \in OfUpdater /\ add[k].run \in OfUpdater
             /\ old[i].of = add[k].of /\ old[i].of \in Updaters)
    BY NobodyAssumption DEF NobodyAssumption
<1> QED BY <1>1, <1>2, UpdaterQueue

LEMMA UpdaterQueueOf ==
  ASSUME NEW old \in Seq(Callbacks), NEW add \in Seq(Callbacks), NEW u \in Updaters,
         UpdaterEntries(old), ready' = old \o add,
         \A v \in Updaters \ {u} : upload'[v] = upload[v] /\ work'[v] = work[v],
         \A i \in DOMAIN old : old[i].run \in OfUpdater => old[i].of # u,
         \A k \in DOMAIN add : /\ UpdaterEntry(add[k])'
                               /\ add[k].run \in OfUpdater => add[k].of = u /\ k = Len(add)
  PROVE  UpdaterEntries(ready)'
<1>1. OneEach(add, OfUpdater, Updaters)
    BY DEF OneEach
<1>2. \A i \in DOMAIN old : old[i].run \in OfUpdater /\ old[i].of \in Updaters =>
           upload'[old[i].of] = upload[old[i].of] /\ work'[old[i].of] = work[old[i].of]
    OBVIOUS
<1>3. \A i \in DOMAIN old, k \in DOMAIN add :
           ~(/\ old[i].run \in OfUpdater /\ add[k].run \in OfUpdater
             /\ old[i].of = add[k].of /\ old[i].of \in Updaters)
    OBVIOUS
<1> QED BY <1>1, <1>2, <1>3, UpdaterQueue

LEMMA NotifyUpdater ==
  ASSUME TypeOK, UpdaterEntries(ready), WorkInv, ready # <<>>,
         NEW u \in Updaters \cup {Nobody}, NEW m \in Messages, NEW i \in Nat \ {0},
         NEW dead \in Seq(Clients), NotifyFrom(u, m, i, dead),
         u = Nobody => ~Terminal(m),
         u # Nobody => /\ upload[u] = "installing" /\ Verdict(m) /\ work[u] = m.status
                       /\ \A k \in DOMAIN Tail(ready) :
                            Tail(ready)[k].run \in OfUpdater => Tail(ready)[k].of # u
  PROVE  UpdaterInv'
<1>1. clients \in Seq(Clients) /\ work' = work
    BY DEF TypeOK, QueueTypes, NotifyFrom
<1>2. PICK old \in Seq(Callbacks) : old = Tail(ready) /\ UpdaterEntries(old)
    BY UpdaterTail
<1>3. PICK now \in Seq(Clients) : now = dead \o DeadIn(Passed(i))
  <2>1. Passed(i) \in Seq(Clients) /\ DeadIn(Passed(i)) \in Seq(Clients)
      BY <1>1, StopAtIn, KeptProperties DEF DeadIn
  <2> QED BY <2>1, ConcatProperties
<1>4. CASE /\ StopAt(i) <= Len(clients)
           /\ Then((IF link[clients[StopAt(i)]] = "open" THEN <<Lost(clients[StopAt(i)])>> ELSE <<>>)
                   \o <<Notify(u, m, StopAt(i) + 1, Append(now, clients[StopAt(i)]))>>)
           /\ UNCHANGED <<clients, upload>>
  <2>1. PICK c \in Clients, at \in Nat \ {0} : c = clients[StopAt(i)] /\ at = StopAt(i) + 1
    <3>1. StopAt(i) \in 1..(Len(clients) + 1) /\ clients[StopAt(i)] \in Clients
        BY <1>1, <1>4, StopAtIn
    <3>2. StopAt(i) + 1 \in Nat \ {0}
        BY <1>1, <3>1
    <3> QED BY <3>1, <3>2
  <2>2. PICK hit \in Seq(Clients) : hit = Append(now, c)
      BY Appended
  <2>3. PICK e \in Callbacks, lost \in Callbacks : e = Notify(u, m, at, hit) /\ lost = Lost(c)
      BY CallbackTyped
  <2>4. /\ e.run = "notify" /\ e.of = u /\ e.msg = m /\ lost.run = "lost"
        /\ e.run \in OfUpdater /\ lost.run \notin OfUpdater
      BY <2>3 DEF Notify, Lost, OfUpdater
  <2>5. UpdaterEntry(e)' /\ UpdaterEntry(lost)'
      BY <1>1, <1>4, <2>4 DEF UpdaterEntry
  <2>6. PICK add \in Seq(Callbacks) : Closing(add, link[c], lost, e)
      BY ClosingExists
  <2>7. ready' = old \o add
      BY <1>2, <1>4, <2>1, <2>2, <2>3, <2>6 DEF Then, Closing
  <2>8. UpdaterEntries(ready)'
    <3>1. CASE u = Nobody
      <4>1. \A k \in DOMAIN add : /\ add[k].run \notin OfUpdater \/ add[k].of = Nobody
                                  /\ UpdaterEntry(add[k])'
          BY <2>4, <2>5, <2>6, <3>1 DEF Closing
      <4> QED BY <1>1, <1>2, <1>4, <2>7, <4>1, UpdaterQueueOther
    <3>2. CASE u # Nobody
      <4>1. \A k \in DOMAIN add : /\ UpdaterEntry(add[k])'
                                  /\ add[k].run \in OfUpdater => add[k].of = u /\ k = Len(add)
          BY <2>4, <2>5, <2>6 DEF Closing
      <4>2. u \in Updaters /\ \A v \in Updaters \ {u} : upload'[v] = upload[v] /\ work'[v] = work[v]
          BY <1>1, <1>4, <3>2
      <4>3. \A k \in DOMAIN old : old[k].run \in OfUpdater => old[k].of # u
          BY <1>2, <3>2
      <4>4. UpdaterEntries(old) /\ u \in Updaters
          BY <1>2, <4>2
      <4>5. \A v \in Updaters \ {u} : upload'[v] = upload[v] /\ work'[v] = work[v]
          BY <4>2
      <4> QED BY <2>7, <4>1, <4>3, <4>4, <4>5, UpdaterQueueOf
    <3> QED BY <3>1, <3>2
  <2> QED BY <1>1, <1>4, <2>8 DEF UpdaterInv, WorkInv
<1>5. CASE /\ Then(<<>>)
           /\ IF u = Nobody THEN UNCHANGED upload
              ELSE IF RemovalFails(now)
              THEN upload' = [upload EXCEPT ![u] = "dead"]
              ELSE Conclude(u)
  <2>1. PICK add \in Seq(Callbacks) : add = <<>> /\ DOMAIN add = {}
      BY NothingToAdd
  <2>2. ready' = old \o add
      BY <1>2, <1>5, <2>1 DEF Then
  <2>3. CASE u = Nobody
    <3>1. UNCHANGED upload
        BY <1>5, <2>3
    <3>2. UpdaterEntries(ready)'
        BY <1>1, <1>2, <2>1, <2>2, <3>1, UpdaterQueueOther
    <3> QED BY <1>1, <3>1, <3>2 DEF UpdaterInv, WorkInv
  <2>4. CASE u # Nobody
    <3>1. u \in Updaters /\ \A k \in DOMAIN old : old[k].run \in OfUpdater => old[k].of # u
        BY <1>2, <2>4
    <3>2. /\ \A v \in Updaters \ {u} : upload'[v] = upload[v] /\ work'[v] = work[v]
          /\ \/ upload'[u] = "dead"
             \/ upload'[u] \in {"sleeping", "over"}
        BY <1>1, <1>5, <2>4, <3>1 DEF Conclude, TypeOK, UpdTypes
    <3>3. UpdaterEntries(ready)'
      <4>1. /\ \A v \in Updaters \ {u} : upload'[v] = upload[v] /\ work'[v] = work[v]
            /\ \A k \in DOMAIN add : /\ UpdaterEntry(add[k])'
                                     /\ add[k].run \in OfUpdater => add[k].of = u /\ k = Len(add)
            /\ UpdaterEntries(old)
          BY <1>2, <2>1, <3>2
      <4> QED BY <2>2, <3>1, <4>1, UpdaterQueueOf
    <3>4. work[u] \in {SUCCESS, FAILURE}
        BY <2>4 DEF Verdict
    <3>5. WorkInv'
        BY <1>1, <3>1, <3>2, <3>4 DEF WorkInv, SUCCESS, FAILURE
    <3> QED BY <3>3, <3>5 DEF UpdaterInv
  <2> QED BY <2>3, <2>4
<1> QED BY <1>3, <1>4, <1>5 DEF NotifyFrom

\* A step that runs or adds no callback of an updater.
LEMMA UpdaterOther ==
  ASSUME TypeOK, UpdaterEntries(ready), WorkInv,
         NEW old \in Seq(Callbacks), NEW add \in Seq(Callbacks),
         old = ready \/ (ready # <<>> /\ old = Tail(ready)), ready' = old \o add,
         \A k \in DOMAIN add : /\ add[k].run \notin OfUpdater \/ add[k].of = Nobody
                               /\ UpdaterEntry(add[k])',
         UNCHANGED <<upload, work>>
  PROVE  UpdaterInv'
<1>1. UpdaterEntries(old)
    BY UpdaterTail
<1>2. UpdaterEntries(ready)'
    BY <1>1, UpdaterQueueOther
<1> QED BY <1>2 DEF UpdaterInv, WorkInv

LEMMA UpdaterPosted ==
  ASSUME TypeOK, UpdaterEntries(ready), WorkInv, NEW e \in Callbacks, Post(e),
         e.run \notin OfUpdater \/ e.of = Nobody, UpdaterEntry(e)', UNCHANGED <<upload, work>>
  PROVE  UpdaterInv'
<1>1. <<e>> \in Seq(Callbacks) /\ DOMAIN <<e>> = {1} /\ <<e>>[1] = e /\ ready \in Seq(Callbacks)
    BY DEF TypeOK, QueueTypes
<1>2. PICK old \in Seq(Callbacks), add \in Seq(Callbacks) :
        old = ready /\ add = <<e>> /\ \A k \in DOMAIN add : add[k] = e
    BY <1>1
<1>3. ready' = old \o add
    BY <1>2 DEF Post
<1> QED BY <1>2, <1>3, UpdaterOther

\* The handler of u runs and leaves no callback behind.
LEMMA UpdaterRan ==
  ASSUME TypeOK, UpdaterEntries(ready), WorkInv, ready # <<>>,
         NEW u \in Updaters, This.run \in OfUpdater, This.of = u, Then(<<>>),
         \A v \in Updaters \ {u} : upload'[v] = upload[v] /\ work'[v] = work[v],
         upload'[u] \in {"none", "asking", "streaming", "ended"} => work'[u] = "none",
         work'[u] = "running" => upload'[u] = "installing"
  PROVE  UpdaterInv'
<1>1. PICK old \in Seq(Callbacks), add \in Seq(Callbacks) :
        old = Tail(ready) /\ add = <<>> /\ DOMAIN add = {} /\ UpdaterEntries(old)
    BY UpdaterTail, NothingToAdd
<1>2. ready' = old \o add
    BY <1>1 DEF Then
<1>3. \A i \in DOMAIN old : old[i].run \in OfUpdater => old[i].of # u
    BY <1>1, UpdaterTail
<1>4. UpdaterEntries(ready)'
  <2>1. /\ \A v \in Updaters \ {u} : upload'[v] = upload[v] /\ work'[v] = work[v]
        /\ \A k \in DOMAIN add : /\ UpdaterEntry(add[k])'
                                 /\ add[k].run \in OfUpdater => add[k].of = u /\ k = Len(add)
      BY <1>1
  <2>2. UpdaterEntries(old)
      BY <1>1
  <2> QED BY <1>2, <1>3, <2>1, <2>2, UpdaterQueueOf
<1> QED BY <1>4 DEF UpdaterInv, WorkInv

\* A callback that resumes the handler of u is added.
LEMMA UpdaterPost ==
  ASSUME TypeOK, UpdaterEntries(ready), WorkInv,
         NEW u \in Updaters, NEW how \in {"ask", "eof", "error", "result", "restart"},
         \/ upload[u] \in {"none", "streaming", "sleeping", "over", "dead"}
         \/ upload[u] = "installing" /\ work[u] = "running",
         Post(Control(u, how)), UpdaterEntry(Control(u, how))',
         \A v \in Updaters \ {u} : upload'[v] = upload[v] /\ work'[v] = work[v],
         upload'[u] \in {"none", "asking", "streaming", "ended"} => work'[u] = "none",
         work'[u] = "running" => upload'[u] = "installing"
  PROVE  UpdaterInv'
<1>1. PICK old \in Seq(Callbacks), e \in Callbacks : old = ready /\ e = Control(u, how)
    BY CallbackTyped DEF TypeOK, QueueTypes
<1>2. PICK add \in Seq(Callbacks) : add = <<e>> /\ DOMAIN add = {1} /\ Len(add) = 1 /\ add[1] = e
  <2>1. <<e>> \in Seq(Callbacks) /\ DOMAIN <<e>> = {1} /\ Len(<<e>>) = 1 /\ <<e>>[1] = e
      OBVIOUS
  <2> QED BY <2>1
<1>3. ready' = old \o add
    BY <1>1, <1>2 DEF Post
<1>4. \A i \in DOMAIN old : old[i].run \in OfUpdater => old[i].of # u
    BY <1>1, NoUpdaterEntry
<1>5. \A k \in DOMAIN add : /\ UpdaterEntry(add[k])'
                            /\ add[k].run \in OfUpdater => add[k].of = u /\ k = Len(add)
  <2>1. e.of = u /\ UpdaterEntry(e)'
      BY <1>1 DEF Control
  <2> QED BY <1>2, <2>1
<1>6. UpdaterEntries(ready)'
    BY <1>1, <1>3, <1>4, <1>5, UpdaterQueueOf
<1> QED BY <1>6 DEF UpdaterInv, WorkInv

LEMMA UpdaterStep == TypeOK /\ UpdaterInv /\ [Next]_vars => UpdaterInv'
<1> SUFFICES ASSUME TypeOK, UpdaterInv, [Next]_vars PROVE UpdaterInv'
    OBVIOUS
<1> USE DEF conn, upd
<1>0. UpdaterEntries(ready) /\ WorkInv /\ ready \in Seq(Callbacks)
    BY DEF UpdaterInv, TypeOK, QueueTypes
<1>1. CASE RunNotify
  <2>1. /\ ready # <<>> /\ This.run = "notify" /\ This.of \in Updaters \cup {Nobody}
        /\ This.msg \in Messages /\ This.at \in Nat \ {0} /\ This.dead \in Seq(Clients)
        /\ NotifyFrom(This.of, This.msg, This.at, This.dead)
      BY <1>1, ThisOf DEF RunNotify, Runs, This
  <2>2. This.of = Nobody => ~Terminal(This.msg)
      BY <1>0, <2>1, UpdaterTail DEF UpdaterEntry
  <2>3. This.of # Nobody =>
          /\ upload[This.of] = "installing" /\ Verdict(This.msg) /\ work[This.of] = This.msg.status
          /\ \A k \in DOMAIN Tail(ready) :
               Tail(ready)[k].run \in OfUpdater => Tail(ready)[k].of # This.of
      BY <1>0, <2>1, UpdaterTail DEF UpdaterEntry, OfUpdater
  <2> QED BY <1>0, <2>1, <2>2, <2>3, NotifyUpdater
<1>2. CASE RunResult
  <2>1. /\ ready # <<>> /\ This.run = "control" /\ This.of \in Updaters /\ This.run \in OfUpdater
        /\ This.of # Nobody /\ upload[This.of] = "installing"
      BY <1>2, ResultTyped, NobodyAssumption DEF RunResult, Runs, OfUpdater, NobodyAssumption, This
  <2>2. CASE work[This.of] = "raised"
    <3>1. Then(<<>>) /\ upload' = [upload EXCEPT ![This.of] = "dead"] /\ UNCHANGED work
        BY <1>2, <2>2 DEF RunResult
    <3> QED BY <1>0, <2>1, <2>2, <3>1, UpdaterRan DEF TypeOK, UpdTypes, WorkInv
  <2>3. CASE work[This.of] # "raised"
    <3> DEFINE m == BuildMsg(work[This.of], 0)
    <3>1. NotifyFrom(This.of, m, 1, <<>>)
        BY <1>2, <2>3 DEF RunResult
    <3>2. m \in Messages /\ Verdict(m) /\ work[This.of] = m.status
        BY <1>2, <2>3, ResultTyped DEF RunResult, BuildMsg, Message, Verdict, Messages
    <3>3. <<>> \in Seq(Clients) /\ 1 \in Nat \ {0} /\ This.of \in Updaters \cup {Nobody}
        BY <2>1
    <3>4. \A k \in DOMAIN Tail(ready) :
            Tail(ready)[k].run \in OfUpdater => Tail(ready)[k].of # This.of
        BY <1>0, <2>1, UpdaterTail
    <3> HIDE DEF m
    <3> QED BY <1>0, <2>1, <3>1, <3>2, <3>3, <3>4, NotifyUpdater
  <2> QED BY <2>2, <2>3
<1>3. CASE RunStart \/ RunWake \/ RunDrained \/ RunLost \/ RunHangUp
  <2>1. UNCHANGED <<upload, work>> /\ ready # <<>> /\ This.of \in Clients
      BY <1>3, ThisOf DEF RunStart, RunWake, RunDrained, RunLost, RunHangUp, Runs, OfClient
  <2>2. PICK old \in Seq(Callbacks) : old = Tail(ready)
      BY <2>1, UpdaterTail, <1>0
  <2>3. PICK c \in Clients : c = This.of
      BY <2>1
  <2>4. PICK none \in Seq(Callbacks) : none = <<>> /\ DOMAIN none = {}
      BY NothingToAdd
  <2>5. PICK one \in Seq(Callbacks) :
          one = <<Wake(c, "end")>> /\ \A k \in DOMAIN one : one[k].run = "wake"
    <3>1. PICK e \in Callbacks : e = Wake(c, "end") /\ e.run = "wake"
        BY CallbackTyped DEF Wake
    <3>2. <<e>> \in Seq(Callbacks) /\ DOMAIN <<e>> = {1} /\ <<e>>[1] = e
        OBVIOUS
    <3> QED BY <3>1, <3>2
  <2>6. PICK two \in Seq(Callbacks) : Closing(two, link[c], Lost(c), Drained(c))
    <3>1. PICK lost \in Callbacks, drained \in Callbacks : lost = Lost(c) /\ drained = Drained(c)
        BY CallbackTyped
    <3> QED BY <3>1, ClosingExists
  <2>7. \A k \in DOMAIN two : two[k].run \in {"lost", "drained"}
      BY <2>6 DEF Closing, Lost, Drained
  <2>8. ready' = old \o none \/ ready' = old \o one \/ ready' = old \o two
    <3>1. Then(<<>>) \/ Then(<<Wake(c, "end")>>)
          \/ Then((IF link[c] = "open" THEN <<Lost(c)>> ELSE <<>>) \o <<Drained(c)>>)
        BY <1>3, <2>3 DEF RunStart, RunWake, RunDrained, RunLost, RunHangUp, WakeUp, Check
    <3> QED BY <2>2, <2>4, <2>5, <2>6, <3>1 DEF Then, Closing
  <2>9. ASSUME NEW add \in Seq(Callbacks), ready' = old \o add,
               \A k \in DOMAIN add : add[k].run \in {"wake", "lost", "drained"}
        PROVE  UpdaterInv'
    <3>1. \A k \in DOMAIN add : add[k].run \notin OfUpdater /\ UpdaterEntry(add[k])'
        BY <2>9 DEF OfUpdater, UpdaterEntry
    <3> QED BY <1>0, <2>1, <2>2, <2>9, <3>1, UpdaterOther
  <2>10. /\ \A k \in DOMAIN none : none[k].run \in {"wake", "lost", "drained"}
         /\ \A k \in DOMAIN one : one[k].run \in {"wake", "lost", "drained"}
         /\ \A k \in DOMAIN two : two[k].run \in {"wake", "lost", "drained"}
      BY <2>4, <2>5, <2>7
  <2> QED BY <2>8, <2>9, <2>10
<1>4. CASE RunAsk \/ RunUploaded \/ RunUploadError \/ RunRestart
  <2>1. /\ ready # <<>> /\ This.run \in OfUpdater /\ This.of \in Updaters /\ Then(<<>>)
        /\ This.run = "control"
      BY <1>4, ThisOf DEF RunAsk, RunUploaded, RunUploadError, RunRestart, Runs, OfUpdater, This
  <2>2. /\ This.how = "ask" => upload[This.of] = "asking"
        /\ This.how \in {"eof", "error"} => upload[This.of] = "ended"
        /\ This.how = "restart" => upload[This.of] = "restarting"
      BY <1>0, <2>1, UpdaterTail DEF UpdaterEntry
  <2> USE DEF TypeOK, UpdTypes, WorkInv
  <2>3. CASE RunAsk
      BY <1>0, <2>1, <2>2, <2>3, UpdaterRan DEF RunAsk
  <2>4. CASE RunUploaded
      BY <1>0, <2>1, <2>2, <2>4, UpdaterRan DEF RunUploaded
  <2>5. CASE RunUploadError
      BY <1>0, <2>1, <2>2, <2>5, UpdaterRan DEF RunUploadError
  <2>6. CASE RunRestart
      BY <1>0, <2>1, <2>2, <2>6, UpdaterRan DEF RunRestart
  <2> QED BY <1>4, <2>3, <2>4, <2>5, <2>6
<1>5. ASSUME NEW c \in Clients, Timeout(c) \/ Connect(c) \/ Notice(c) PROVE UpdaterInv'
  <2>1. PICK e \in Callbacks : Post(e) /\ e.run \in {"wake", "start", "hangup"}
      BY <1>5, CallbackTyped DEF Timeout, Connect, Notice, Wake, Start
  <2>2. UNCHANGED <<upload, work>>
      BY <1>5 DEF Timeout, Connect, Notice
  <2> QED BY <1>0, <2>1, <2>2, UpdaterPosted DEF UpdaterEntry, OfUpdater
<1>6. ASSUME NEW u \in Updaters, Report(u) PROVE UpdaterInv'
  <2>1. PICK m \in Marks : Post(Notify(Nobody, BuildMsg(RUN, m), 1, <<>>))
      BY <1>6 DEF Report
  <2>2. PICK e \in Callbacks : e = Notify(Nobody, BuildMsg(RUN, m), 1, <<>>)
      BY ReportTyped
  <2>3. e.run = "notify" /\ e.of = Nobody /\ ~Terminal(e.msg) /\ UpdaterEntry(e)'
      BY <2>2 DEF Notify, UpdaterEntry, Terminal, BuildMsg, Message, RUN, SUCCESS, FAILURE
  <2> QED BY <1>0, <1>6, <2>1, <2>2, <2>3, UpdaterPosted DEF Report
<1>7. ASSUME UNCHANGED <<ready, upload, work>>
      PROVE  UpdaterInv'
  <2>1. PICK old \in Seq(Callbacks), add \in Seq(Callbacks) : old = ready /\ add = <<>> /\ DOMAIN add = {}
      BY <1>0, NothingToAdd
  <2>2. ready' = old \o add
      BY <1>7, <2>1
  <2> QED BY <1>0, <1>7, <2>1, <2>2, UpdaterOther
<1>8. CASE UNCHANGED vars \/ \E c \in Clients : HangUp(c)
    BY <1>7, <1>8 DEF vars, HangUp
<1>9. ASSUME NEW u \in Updaters, SleepOver(u) \/ Ask(u) \/ EndUpload(u) \/ Finish(u) PROVE UpdaterInv'
  <2> USE DEF TypeOK, UpdTypes, WorkInv
  <2>1. CASE SleepOver(u)
    <3>1. UpdaterEntry(Control(u, "restart"))'
        BY <2>1 DEF SleepOver, Control, UpdaterEntry
    <3> QED BY <1>0, <2>1, <3>1, UpdaterPost DEF SleepOver
  <2>2. CASE Ask(u)
    <3>1. UpdaterEntry(Control(u, "ask"))'
        BY <2>2 DEF Ask, Control, UpdaterEntry
    <3> QED BY <1>0, <2>2, <3>1, UpdaterPost DEF Ask
  <2>3. CASE EndUpload(u)
    <3>1. UpdaterEntry(Control(u, "eof"))' /\ UpdaterEntry(Control(u, "error"))'
        BY <2>3 DEF EndUpload, Control, UpdaterEntry
    <3> QED BY <1>0, <2>3, <3>1, UpdaterPost DEF EndUpload
  <2>4. CASE Finish(u)
    <3>1. /\ work' = [work EXCEPT ![u] = work'[u]] /\ work'[u] \in Verdicts /\ UNCHANGED upload
          /\ upload[u] = "installing" /\ work[u] = "running" /\ Post(Control(u, "result"))
        BY <1>0, <2>4 DEF Finish
    <3>2. UpdaterEntry(Control(u, "result"))'
        BY <3>1 DEF Control, UpdaterEntry
    <3>3. work'[u] # "running"
        BY <3>1 DEF Verdicts, SUCCESS, FAILURE
    <3> QED BY <1>0, <3>1, <3>2, <3>3, UpdaterPost
  <2> QED BY <1>9, <2>1, <2>2, <2>3, <2>4
<1>10. CASE Crash
  <2>1. DOMAIN ready' = {}
      BY <1>10 DEF Crash
  <2>2. UpdaterEntries(ready)'
      BY <2>1 DEF UpdaterEntries, OneEach
  <2>3. WorkInv'
    <3>1. ASSUME NEW u \in Updaters
          PROVE  /\ upload'[u] = "dead" \/ (upload'[u] = upload[u] /\ upload[u] \in {"none", "over", "dead"})
                 /\ work'[u] = "killed" \/ (work'[u] = work[u] /\ (work[u] = "running" => ~Answering(u)))
        BY <1>10 DEF Crash, Cut
    <3>2. ASSUME NEW u \in Updaters PROVE work'[u] # "running"
        BY <1>0, <3>1 DEF WorkInv, Answering
    <3>3. ASSUME NEW u \in Updaters, upload'[u] = "none" PROVE work'[u] = "none"
        BY <1>0, <1>10, <3>1, <3>3 DEF Crash, WorkInv, Answering
    <3> QED BY <1>0, <3>1, <3>2, <3>3 DEF WorkInv
  <2> QED BY <2>2, <2>3 DEF UpdaterInv
<1> QED BY <1>1, <1>2, <1>3, <1>4, <1>5, <1>6, <1>8, <1>9, <1>10
    DEF Next, Alive, RunLoop, Clock, Worker, Others

----------------------------------------------------------------------------
(* The invariant of the loop, for any updaters and clients. *)

Inv1 == TypeOK /\ UpdaterInv /\ ClientInv

LEMMA InitInv1 == Init => Inv1
<1> SUFFICES ASSUME Init PROVE Inv1
    OBVIOUS
<1>1. DOMAIN ready = {} /\ DOMAIN clients = {} /\ Listed = {}
    BY DEF Init, Listed
<1>2. TypeOK
  <2>1. NoMsg \in Messages
      BY DEF NoMsg, Messages, Statuses
  <2>2. clients \in Seq(Clients) /\ ready \in Seq(Callbacks)
      BY DEF Init
  <2> QED BY <2>1, <2>2
      DEF Init, TypeOK, ShownTypes, QueueTypes, ConnTypes, UpdTypes, SUCCESS, RUN, FAILURE
<1>3. UpdaterInv
    BY <1>1 DEF Init, UpdaterInv, UpdaterEntries, OneEach, WorkInv
<1>4. ClientInv
    BY <1>1 DEF Init, ClientInv, ClientEntries, OneEach, PollerInv, ListInv
<1> QED BY <1>2, <1>3, <1>4 DEF Inv1

LEMMA Inv1Step == Inv1 /\ [Next]_vars => Inv1'
BY TypeStep, UpdaterStep, ClientStep DEF Inv1

\* Cardinality of the list: without repetition.
LEMMA ListInvExact == TypeOK /\ ListInv => ListExact
<1> SUFFICES ASSUME TypeOK, ListInv PROVE ListExact
    OBVIOUS
<1>1. clients \in Seq(Clients) /\ Len(clients) \in Nat /\ DOMAIN clients = 1..Len(clients)
    BY DEF TypeOK, QueueTypes
<1>2. clients \in Bijection(1..Len(clients), Listed)
  <2>1. clients \in [1..Len(clients) -> Listed]
      BY <1>1 DEF Listed
  <2>2. \A i, j \in 1..Len(clients) : clients[i] = clients[j] => i = j
      BY <1>1 DEF ListInv
  <2>3. \A c \in Listed : \E i \in 1..Len(clients) : clients[i] = c
      BY <1>1 DEF Listed
  <2> QED BY <2>1, <2>2, <2>3 DEF Bijection, Injection, Surjection, IsInjective
<1>3. Cardinality(Listed) = Len(clients)
    BY <1>1, <1>2, FS_CountingElements DEF ExistsBijection
<1> QED BY <1>3 DEF ListInv, ListExact

\* The types, and the coroutines with what will resume them.
THEOREM InvariantHolds == Spec => []Inv1
<1>1. Init => Inv1
    BY InitInv1
<1>2. Inv1 /\ [Next]_vars => Inv1'
    BY Inv1Step
<1> QED BY <1>1, <1>2, PTL DEF Spec

\* The list of clients never holds a client twice, nor one whose coroutine is over;
\* notifications take only those out whose connection is lost for good.
THEOREM ListsStayExact == Spec => []ListExact
<1>1. Inv1 => ListExact
    BY ListInvExact DEF Inv1, ClientInv
<1> QED BY <1>1, InvariantHolds, PTL

----------------------------------------------------------------------------
(* What the followers of an update are told. *)

\* A client has heard no verdict or one, and none before it is let in; what was
\* sent to it last is no verdict as long as its coroutine goes on.
FirstInv ==
  \A c \in Clients : /\ told[c] = NoMsg \/ Verdict(told[c])
                     /\ poller[c] = "none" => ~Answered(c)
LastInv == \A c \in Clients : Terminal(last[c]) => poller[c] \in {"draining", "done"}

\* The callback that resumes a client which was woken is there.
WakesFor(q, c) == \E i \in DOMAIN q : q[i].run = "wake" /\ q[i].of = c
WokenInv == \A c \in Clients : poller[c] = "woken" => WakesFor(ready, c)

\* With one update at a time: what is shown goes with the update under way.
AloneInv == \A u, v \in Updaters : Answering(u) /\ Answering(v) => u = v
StatusInv ==
  \A u \in Updaters : /\ upload[u] \in {"streaming", "ended"} => status = RUN
                      /\ upload[u] = "installing" => status = RUN \/ status = work[u]
StatusEntry(e) == /\ e.run = "control" /\ e.how = "result" => status = RUN
                  /\ e.run = "notify" /\ e.of # Nobody => status = e.msg.status
\* When an update is asked for under the verdict on another, nobody waits any more
\* and those that were woken run first.
IsAsk(e) == e.run = "control" /\ e.how = "ask"
AskInv == \A u \in Updaters : upload[u] = "asking" /\ status # RUN =>
            \A c \in Clients : poller[c] # "waiting"
WakesFirst(q) == \A i, j \in DOMAIN q : IsAsk(q[i]) /\ q[j].run = "wake" => j < i
OrderInv == status # RUN => WakesFirst(ready)
TurnInv == /\ AloneInv /\ StatusInv /\ (\A i \in DOMAIN ready : StatusEntry(ready[i]))
           /\ AskInv /\ OrderInv

\* A client that still listens waits for the verdict on each of its updates: that
\* is to come, or is what is shown, or its handler has died.
Unheard(c) == poller[c] \in {"waiting", "woken"} /\ Live(c) /\ ~Answered(c)
Awaits(u) ==
  \/ u \in InProgress
  \/ upload[u] = "dead" /\ work[u] # "killed"
  \/ /\ upload[u] \in {"sleeping", "restarting", "over"} /\ status = work[u] /\ status # RUN
     /\ InProgress = {}
AwaitInv == \A c \in Clients : Unheard(c) => \A u \in joined[c] : Awaits(u)

Inv2 == FirstInv /\ LastInv /\ WokenInv /\ TurnInv /\ AwaitInv /\ VerdictIsOwn


\* What one step does to the queue: it may take the first callback, and adds a few.
\* It resumes clients that wait, asks for an update when all is quiet, and the
\* coroutines it has go on know what is shown.
QueueChange(old, add) ==
  /\ ready' = old \o add
  /\ (old = ready /\ status' = status) \/ (ready # <<>> /\ old = Tail(ready))
  /\ \A k \in DOMAIN add :
       /\ add[k].run = "wake" => poller[add[k].of] = "waiting"
       /\ IsAsk(add[k]) => /\ DOMAIN add = {1} /\ (OneAtATime => Quiet)
       /\ add[k].run = "control" /\ add[k].how = "result" => status' = RUN
       /\ add[k].run = "notify" /\ add[k].of # Nobody => status' = add[k].msg.status
  /\ \A c \in Clients : poller'[c] = "woken" =>
       \/ poller[c] = "woken" /\ (old = ready \/ ~(This.run = "wake" /\ This.of = c))
       \/ WakesFor(add, c)

LEMMA QueueNotify ==
  ASSUME TypeOK, ready # <<>>, This.run # "wake", NEW u \in Updaters \cup {Nobody}, NEW m \in Messages,
         NEW i \in Nat \ {0}, NEW dead \in Seq(Clients), NotifyFrom(u, m, i, dead),
         u # Nobody => status' = m.status
  PROVE  \E old \in Seq(Callbacks), add \in Seq(Callbacks) : QueueChange(old, add)
<1>0. clients \in Seq(Clients) /\ ready \in Seq(Callbacks) /\ Len(clients) \in Nat /\ poller' = poller
    BY DEF TypeOK, QueueTypes, NotifyFrom
<1>1. PICK old \in Seq(Callbacks) : old = Tail(ready)
    BY <1>0, TailOf
<1>2. CASE Then(<<>>)
  <2>1. PICK none \in Seq(Callbacks) : none = <<>> /\ DOMAIN none = {}
      BY NothingToAdd
  <2>2. QueueChange(old, none)
      BY <1>0, <1>1, <1>2, <2>1 DEF QueueChange, Then
  <2> QED BY <2>2
<1>3. CASE ~Then(<<>>)
  <2> DEFINE at == StopAt(i)
             now == dead \o DeadIn(Passed(i))
  <2>1. PICK c \in Clients : c = clients[at] /\ at \in Nat \ {0}
    <3>1. at <= Len(clients) /\ at \in 1..(Len(clients) + 1)
        BY <1>0, <1>3, StopAtIn DEF NotifyFrom
    <3> QED BY <1>0, <3>1
  <2>2. Passed(i) \in Seq(Clients)
      BY <1>0, StopAtIn
  <2>3. DeadIn(Passed(i)) \in Seq(Clients)
      BY <2>2, KeptProperties DEF DeadIn
  <2>4. now \in Seq(Clients)
      BY <2>3, ConcatProperties
  <2>5. Append(now, c) \in Seq(Clients)
    <3> HIDE DEF now
    <3> QED BY <2>4, Appended
  <2>6. at + 1 \in Nat \ {0}
      BY <2>1
  <2> DEFINE n == Notify(u, m, at + 1, Append(now, c))
  <2>7. n \in Callbacks
    <3> HIDE DEF now, at
    <3> QED BY <2>5, <2>6, CallbackTyped
  <2>8. PICK e \in Callbacks : e = n
      BY <2>7
  <2>9. PICK lost \in Callbacks : lost = Lost(c)
      BY CallbackTyped
  <2>10. e.run = "notify" /\ e.of = u /\ e.msg = m /\ lost.run = "lost"
      BY <2>8, <2>9 DEF Notify, Lost
  <2>11. Then((IF link[c] = "open" THEN <<Lost(c)>> ELSE <<>>) \o <<n>>)
      BY <1>3, <2>1 DEF NotifyFrom
  <2>12. PICK add \in Seq(Callbacks) : Closing(add, link[c], lost, e)
      BY ClosingExists
  <2>13. ready' = old \o add
      BY <1>1, <2>8, <2>9, <2>11, <2>12 DEF Closing, Then
  <2>14. \A k \in DOMAIN add : add[k] = lost \/ add[k] = e
      BY <2>12 DEF Closing
  <2>15. QueueChange(old, add)
      BY <1>0, <1>1, <2>10, <2>13, <2>14 DEF QueueChange, IsAsk
  <2> QED BY <2>15
<1> QED BY <1>2, <1>3

LEMMA QueuePost ==
  ASSUME TypeOK, NEW e \in Callbacks, Post(e),
         e.run = "wake" => poller[e.of] = "waiting",
         IsAsk(e) /\ OneAtATime => Quiet, status' = status,
         e.run = "control" /\ e.how = "result" => status' = RUN,
         e.run # "notify" \/ e.of = Nobody,
         \A c \in Clients : poller'[c] = "woken" => poller[c] = "woken" \/ (e.run = "wake" /\ e.of = c)
  PROVE  \E old \in Seq(Callbacks), add \in Seq(Callbacks) : QueueChange(old, add)
<1>0. ready \in Seq(Callbacks)
    BY DEF TypeOK, QueueTypes
<1>1. PICK old \in Seq(Callbacks), add \in Seq(Callbacks) :
        old = ready /\ add = <<e>> /\ DOMAIN add = {1} /\ add[1] = e
  <2>1. <<e>> \in Seq(Callbacks) /\ DOMAIN <<e>> = {1} /\ <<e>>[1] = e
      OBVIOUS
  <2> QED BY <1>0, <2>1
<1>2. ready' = old \o add
    BY <1>0, <1>1 DEF Post
<1>3. QueueChange(old, add)
    BY <1>1, <1>2 DEF QueueChange, WakesFor
<1> QED BY <1>3

LEMMA QueueSame ==
  ASSUME TypeOK, ready' = ready, poller' = poller, status' = status
  PROVE  \E old \in Seq(Callbacks), add \in Seq(Callbacks) : QueueChange(old, add)
<1>0. ready \in Seq(Callbacks)
    BY DEF TypeOK, QueueTypes
<1>1. PICK old \in Seq(Callbacks), none \in Seq(Callbacks) : old = ready /\ none = <<>> /\ DOMAIN none = {}
    BY <1>0, NothingToAdd
<1>2. QueueChange(old, none)
    BY <1>0, <1>1 DEF QueueChange
<1> QED BY <1>2

LEMMA QueueResumed ==
  ASSUME TypeOK, RunStart \/ RunWake \/ RunDrained \/ RunLost \/ RunHangUp
  PROVE  \E old \in Seq(Callbacks), add \in Seq(Callbacks) : QueueChange(old, add)
<1> USE DEF conn, upd
<1>1. ready # <<>> /\ This.of \in Clients
    BY ThisOf DEF RunStart, RunWake, RunDrained, RunLost, RunHangUp, Runs, OfClient
<1>2. PICK old \in Seq(Callbacks) : old = Tail(ready)
    BY <1>1, TailOf DEF TypeOK, QueueTypes
<1>3. PICK c \in Clients : c = This.of
    BY <1>1
<1>4. poller \in [Clients -> {"none", "waiting", "woken", "draining", "done"}]
    BY DEF TypeOK, ConnTypes
<1>5. CASE /\ Then(<<Wake(c, "end")>>) /\ This.run # "wake"
           /\ poller[c] = "waiting" /\ poller' = [poller EXCEPT ![c] = "woken"]
  <2>1. PICK e \in Callbacks : e = Wake(c, "end") /\ e.run = "wake" /\ e.of = c
      BY CallbackTyped DEF Wake
  <2>2. PICK add \in Seq(Callbacks) : add = <<e>> /\ DOMAIN add = {1} /\ add[1] = e
    <3>1. <<e>> \in Seq(Callbacks) /\ DOMAIN <<e>> = {1} /\ <<e>>[1] = e
        OBVIOUS
    <3> QED BY <3>1
  <2>3. ready' = old \o add
      BY <1>2, <1>5, <2>1, <2>2 DEF Then
  <2>4. QueueChange(old, add)
      BY <1>1, <1>2, <1>4, <1>5, <2>1, <2>2, <2>3 DEF QueueChange, WakesFor, IsAsk
  <2> QED BY <2>4
<1>6. ASSUME \A d \in Clients : poller'[d] = "woken" =>
               poller[d] = "woken" /\ ~(This.run = "wake" /\ This.of = d),
             \/ Then(<<>>)
             \/ Then((IF link[c] = "open" THEN <<Lost(c)>> ELSE <<>>) \o <<Drained(c)>>)
      PROVE  \E o \in Seq(Callbacks), add \in Seq(Callbacks) : QueueChange(o, add)
  <2>1. CASE Then(<<>>)
    <3>1. PICK none \in Seq(Callbacks) : none = <<>> /\ DOMAIN none = {}
        BY NothingToAdd
    <3>2. QueueChange(old, none)
        BY <1>1, <1>2, <1>6, <2>1, <3>1 DEF QueueChange, Then
    <3> QED BY <3>2
  <2>2. CASE ~Then(<<>>)
    <3>1. PICK lost \in Callbacks, drained \in Callbacks : lost = Lost(c) /\ drained = Drained(c)
        BY CallbackTyped
    <3>2. PICK add \in Seq(Callbacks) : Closing(add, link[c], lost, drained)
        BY ClosingExists
    <3>3. ready' = old \o add
        BY <1>2, <1>6, <2>2, <3>1, <3>2 DEF Closing, Then
    <3>4. \A k \in DOMAIN add : add[k].run \in {"lost", "drained"}
        BY <3>1, <3>2 DEF Closing, Lost, Drained
    <3>5. QueueChange(old, add)
        BY <1>1, <1>2, <1>6, <3>3, <3>4 DEF QueueChange, IsAsk
    <3> QED BY <3>5
  <2> QED BY <2>1, <2>2
<1>7. CASE RunStart \/ RunWake \/ RunDrained
  <2>1. \/ \E why \in {"waiting", "draining", "done"} : poller' = [poller EXCEPT ![c] = why]
      BY <1>3, <1>7 DEF RunStart, RunWake, RunDrained, Check, Wait, Leave
  <2>2. \/ Then(<<>>)
        \/ Then((IF link[c] = "open" THEN <<Lost(c)>> ELSE <<>>) \o <<Drained(c)>>)
      BY <1>3, <1>7 DEF RunStart, RunWake, RunDrained, Check
  <2>3. \A d \in Clients : poller'[d] = "woken" =>
               poller[d] = "woken" /\ ~(This.run = "wake" /\ This.of = d)
      BY <1>3, <1>4, <2>1
  <2> QED BY <1>6, <2>2, <2>3
<1>8. CASE RunLost \/ RunHangUp
  <2>1. This.run # "wake"
      BY <1>8 DEF RunLost, RunHangUp, Runs, This
  <2> QED BY <1>3, <1>5, <1>6, <1>8, <2>1 DEF RunLost, RunHangUp, WakeUp
<1> QED BY <1>7, <1>8

StatusEntries == \A i \in DOMAIN ready : StatusEntry(ready[i])

LEMMA ThisStatus ==
  ASSUME TypeOK, ready # <<>>, StatusEntries
  PROVE  StatusEntry(This)
BY TailOf DEF TypeOK, QueueTypes, This, StatusEntries

LEMMA QueueSteps ==
  ASSUME Inv1, StatusInv, StatusEntries, [Next]_vars, ~Crash
  PROVE  \E old \in Seq(Callbacks), add \in Seq(Callbacks) : QueueChange(old, add)
<1> USE DEF conn, upd, shown
<1>0. TypeOK /\ UpdaterInv /\ ClientInv
    BY DEF Inv1
<1>1. CASE RunNotify
  <2>1. /\ ready # <<>> /\ This.run = "notify" /\ This.of \in Updaters \cup {Nobody}
        /\ This.msg \in Messages /\ This.at \in Nat \ {0} /\ This.dead \in Seq(Clients)
        /\ NotifyFrom(This.of, This.msg, This.at, This.dead) /\ status' = status
      BY <1>0, <1>1, ThisOf DEF RunNotify, Runs, This
  <2>2. This.of # Nobody => status' = This.msg.status
      BY <1>0, <2>1, ThisStatus DEF StatusEntry
  <2> QED BY <1>0, <2>1, <2>2, QueueNotify
<1>2. CASE RunResult /\ work[This.of] # "raised"
  <2> DEFINE m == BuildMsg(work[This.of], 0)
  <2>1. /\ ready # <<>> /\ This.run # "wake" /\ This.of \in Updaters \cup {Nobody}
        /\ NotifyFrom(This.of, m, 1, <<>>)
      BY <1>0, <1>2, ResultTyped DEF RunResult, Runs, This
  <2>2. m \in Messages /\ status' = m.status
      BY <1>0, <1>2, ResultTyped DEF RunResult, Publish, BuildMsg, Message
  <2>3. <<>> \in Seq(Clients) /\ 1 \in Nat \ {0}
      OBVIOUS
  <2> HIDE DEF m
  <2> QED BY <1>0, <2>1, <2>2, <2>3, QueueNotify
<1>3. CASE RunStart \/ RunWake \/ RunDrained \/ RunLost \/ RunHangUp
    BY <1>0, <1>3, QueueResumed
<1>4. CASE \/ RunAsk \/ RunUploaded \/ RunUploadError \/ RunRestart
           \/ RunResult /\ work[This.of] = "raised"
  <2>1. ready # <<>> /\ Then(<<>>) /\ poller' = poller /\ This.run = "control"
      BY <1>4 DEF RunAsk, RunUploaded, RunUploadError, RunRestart, RunResult, Runs, This
  <2>2. PICK old \in Seq(Callbacks) : old = Tail(ready)
      BY <1>0, <2>1, TailOf DEF TypeOK, QueueTypes
  <2>3. PICK none \in Seq(Callbacks) : none = <<>> /\ DOMAIN none = {}
      BY NothingToAdd
  <2>4. QueueChange(old, none)
      BY <2>1, <2>2, <2>3 DEF QueueChange, Then
  <2> QED BY <2>4
<1>5. ASSUME NEW c \in Clients, Timeout(c) \/ Connect(c) \/ Notice(c)
      PROVE  \E old \in Seq(Callbacks), add \in Seq(Callbacks) : QueueChange(old, add)
  <2>1. CASE Timeout(c)
    <3>1. PICK e \in Callbacks : e = Wake(c, "timeout") /\ e.run = "wake" /\ e.of = c
        BY CallbackTyped DEF Wake
    <3>2. Post(e) /\ poller[c] = "waiting" /\ status' = status /\ ~IsAsk(e)
        BY <2>1, <3>1 DEF Timeout, IsAsk
    <3>3. \A d \in Clients : poller'[d] = "woken" => poller[d] = "woken" \/ (e.run = "wake" /\ e.of = d)
        BY <1>0, <2>1, <3>1 DEF Timeout, TypeOK, ConnTypes
    <3> QED BY <1>0, <3>1, <3>2, <3>3, QueuePost
  <2>2. CASE Connect(c) \/ Notice(c)
    <3>1. PICK e \in Callbacks : Post(e) /\ e.run \in {"start", "hangup"}
        BY <2>2, CallbackTyped DEF Connect, Notice, Start
    <3>2. poller' = poller /\ status' = status /\ ~IsAsk(e)
        BY <2>2, <3>1 DEF Connect, Notice, IsAsk
    <3> QED BY <1>0, <3>1, <3>2, QueuePost
  <2> QED BY <1>5, <2>1, <2>2
<1>6. ASSUME NEW u \in Updaters, Report(u)
      PROVE  \E old \in Seq(Callbacks), add \in Seq(Callbacks) : QueueChange(old, add)
  <2>1. PICK m \in Marks : Post(Notify(Nobody, BuildMsg(RUN, m), 1, <<>>))
      BY <1>6 DEF Report
  <2>2. PICK e \in Callbacks : e = Notify(Nobody, BuildMsg(RUN, m), 1, <<>>)
      BY ReportTyped
  <2>3. e.run = "notify" /\ e.of = Nobody /\ ~IsAsk(e)
      BY <2>2 DEF Notify, IsAsk
  <2>4. Post(e) /\ poller' = poller /\ status' = status
      BY <1>6, <2>1, <2>2 DEF Report
  <2> QED BY <1>0, <2>3, <2>4, QueuePost
<1>7. ASSUME NEW u \in Updaters, SleepOver(u) \/ Ask(u) \/ EndUpload(u) \/ Finish(u)
      PROVE  \E old \in Seq(Callbacks), add \in Seq(Callbacks) : QueueChange(old, add)
  <2>1. PICK how \in {"ask", "eof", "error", "result", "restart"} :
          /\ Post(Control(u, how)) /\ (how = "ask" /\ OneAtATime => Quiet)
          /\ how = "result" => work[u] = "running"
      BY <1>7 DEF SleepOver, Ask, EndUpload, Finish
  <2>2. PICK e \in Callbacks : e = Control(u, how)
      BY CallbackTyped
  <2>3. e.run = "control" /\ e.how = how
      BY <2>2 DEF Control
  <2>4. poller' = poller /\ status' = status
      BY <1>7 DEF SleepOver, Ask, EndUpload, Finish
  <2>5. work[u] = "running" => status = RUN
      BY <1>0 DEF UpdaterInv, WorkInv, StatusInv, TypeOK, ShownTypes, RUN, SUCCESS, FAILURE
  <2> QED BY <1>0, <2>1, <2>2, <2>3, <2>4, <2>5, QueuePost DEF IsAsk
<1>8. CASE UNCHANGED vars \/ (\E c \in Clients : HangUp(c))
    BY <1>0, <1>8, QueueSame DEF vars, HangUp
<1> QED BY <1>1, <1>2, <1>3, <1>4, <1>5, <1>6, <1>7, <1>8
    DEF Next, Alive, RunLoop, Clock, Worker, Others

\* How the handler of one update goes on.
LEMMA UploadStep ==
  ASSUME Inv1, StatusEntries, [Next]_vars, ~Crash, NEW u \in Updaters
  PROVE  \/ upload'[u] = upload[u]
         \/ upload[u] = "none" /\ upload'[u] = "asking" /\ Ask(u)
         \/ /\ upload[u] = "asking" /\ upload'[u] = "streaming"
            /\ status' = RUN /\ ready # <<>> /\ IsAsk(This)
         \/ upload[u] = "asking" /\ upload'[u] = "dead"
         \/ upload[u] = "streaming" /\ upload'[u] = "ended" /\ status' = status
         \/ upload[u] = "ended" /\ upload'[u] = "installing" /\ status' = RUN
         \/ upload[u] = "ended" /\ upload'[u] = "dead" /\ work'[u] = work[u]
         \/ /\ upload[u] = "installing" /\ work[u] \in Verdicts /\ work' = work
            /\ \/ upload'[u] = "dead"
               \/ upload'[u] \in {"sleeping", "over"} /\ status' = work[u] /\ status' # RUN
         \/ upload[u] = "sleeping" /\ upload'[u] = "restarting"
         \/ upload[u] = "restarting" /\ upload'[u] = "over"
<1> USE DEF conn, upd, shown
<1>0. TypeOK /\ UpdaterInv /\ ClientInv /\ upload \in [Updaters -> {"none", "asking", "streaming",
        "ended", "installing", "sleeping", "restarting", "over", "dead"}]
    BY DEF Inv1, TypeOK, UpdTypes
<1>1. ASSUME NEW v \in Updaters \cup {Nobody}, NEW m, NEW i, NEW dead, NotifyFrom(v, m, i, dead),
             v # Nobody => /\ upload[v] = "installing" /\ work[v] \in {SUCCESS, FAILURE}
                           /\ status' = work[v]
      PROVE  \/ upload'[u] = upload[u]
             \/ /\ upload[u] = "installing" /\ work[u] \in Verdicts /\ work' = work
                /\ \/ upload'[u] = "dead"
                   \/ upload'[u] \in {"sleeping", "over"} /\ status' = work[u] /\ status' # RUN
  <2>1. /\ work' = work
        /\ \/ upload' = upload
           \/ v # Nobody /\ upload' = [upload EXCEPT ![v] = "dead"]
           \/ v # Nobody /\ upload' = [upload EXCEPT ![v] = IF work[v] = SUCCESS THEN "sleeping" ELSE "over"]
      BY <1>1 DEF NotifyFrom, Conclude
  <2>2. CASE u = v
      BY <1>0, <1>1, <2>1, <2>2 DEF Verdicts, RUN, SUCCESS, FAILURE
  <2>3. CASE u # v
      BY <1>0, <2>1, <2>3
  <2> QED BY <2>2, <2>3
<1>2. CASE RunNotify
  <2>1. /\ ready # <<>> /\ This.run = "notify" /\ This.of \in Updaters \cup {Nobody}
        /\ NotifyFrom(This.of, This.msg, This.at, This.dead) /\ status' = status
      BY <1>0, <1>2, ThisOf DEF RunNotify, Runs, This
  <2>2. This.of # Nobody => /\ upload[This.of] = "installing" /\ Verdict(This.msg)
                            /\ work[This.of] = This.msg.status /\ status = This.msg.status
      BY <1>0, <2>1, ThisEntry, ThisStatus DEF UpdaterInv, UpdaterEntries, UpdaterEntry, StatusEntry
  <2>3. This.of # Nobody => work[This.of] \in {SUCCESS, FAILURE} /\ status' = work[This.of]
      BY <2>1, <2>2 DEF Verdict
  <2> QED BY <1>1, <2>1, <2>2, <2>3
<1>3. CASE RunResult
  <2>1. This.of \in Updaters /\ work[This.of] \in Verdicts /\ upload[This.of] = "installing"
      BY <1>0, <1>3, ResultTyped DEF RunResult
  <2>2. CASE work[This.of] = "raised"
    <3>1. upload' = [upload EXCEPT ![This.of] = "dead"] /\ work' = work
        BY <1>3, <2>2 DEF RunResult
    <3>2. CASE u = This.of
        BY <1>0, <2>1, <3>1, <3>2
    <3>3. CASE u # This.of
        BY <1>0, <3>1, <3>3
    <3> QED BY <3>2, <3>3
  <2>3. CASE work[This.of] # "raised"
    <3>1. NotifyFrom(This.of, BuildMsg(work[This.of], 0), 1, <<>>) /\ status' = work[This.of]
        BY <1>3, <2>3 DEF RunResult, Publish
    <3>2. work[This.of] \in {SUCCESS, FAILURE}
        BY <2>1, <2>3 DEF Verdicts
    <3> QED BY <1>1, <2>1, <3>1, <3>2
  <2> QED BY <2>2, <2>3
<1>4. CASE RunAsk \/ RunUploaded \/ RunUploadError \/ RunRestart
  <2>1. /\ ready # <<>> /\ This.run = "control" /\ This.of \in Updaters
        /\ (RunAsk => This.how = "ask") /\ (RunUploaded => This.how = "eof")
        /\ (RunUploadError => This.how = "error") /\ (RunRestart => This.how = "restart")
      BY <1>0, <1>4, ThisOf DEF RunAsk, RunUploaded, RunUploadError, RunRestart, Runs, This
  <2>2. UpdaterEntry(This)
      BY <1>0, <2>1, ThisEntry DEF UpdaterInv, UpdaterEntries
  <2>3. /\ RunAsk => /\ upload[This.of] = "asking" /\ IsAsk(This)
                     /\ \/ upload' = [upload EXCEPT ![This.of] = "streaming"] /\ status' = RUN
                        \/ upload' = [upload EXCEPT ![This.of] = "dead"]
        /\ RunUploaded => /\ upload[This.of] = "ended" /\ upload' = [upload EXCEPT ![This.of] = "installing"]
                          /\ status' = RUN
        /\ RunUploadError => /\ upload[This.of] = "ended" /\ upload' = [upload EXCEPT ![This.of] = "dead"]
                             /\ work' = work
        /\ RunRestart => upload[This.of] = "restarting" /\ upload' = [upload EXCEPT ![This.of] = "over"]
      BY <2>1, <2>2 DEF RunAsk, RunUploaded, RunUploadError, RunRestart, UpdaterEntry, Announce, IsAsk
  <2>4. CASE u = This.of
      BY <1>0, <1>4, <2>1, <2>3, <2>4
  <2>5. CASE u # This.of
      BY <1>0, <1>4, <2>3, <2>5
  <2> QED BY <2>4, <2>5
<1>5. ASSUME NEW v \in Updaters, Ask(v) \/ EndUpload(v) \/ SleepOver(v)
      PROVE  \/ upload'[u] = upload[u]
             \/ upload[u] = "none" /\ upload'[u] = "asking" /\ Ask(u)
             \/ upload[u] = "streaming" /\ upload'[u] = "ended" /\ status' = status
             \/ upload[u] = "sleeping" /\ upload'[u] = "restarting"
    BY <1>0, <1>5 DEF Ask, EndUpload, SleepOver
<1>6. CASE upload' = upload
    BY <1>6
<1> QED BY <1>2, <1>3, <1>4, <1>5, <1>6
    DEF Next, Alive, RunLoop, Clock, Worker, Others, vars, RunStart, RunWake, RunDrained, RunLost,
        RunHangUp, Timeout, Report, Finish, Connect, HangUp, Notice

\* What is shown changes with the update that is asked for, uploaded or decided.
LEMMA StatusStep ==
  ASSUME Inv1, [Next]_vars, ~Crash
  PROVE  \/ status' = status
         \/ /\ status' = RUN /\ ready # <<>> /\ This.run = "control" /\ This.of \in Updaters
            /\ upload[This.of] \in {"asking", "ended"}
            /\ upload[This.of] = "asking" => IsAsk(This)
         \/ /\ ready # <<>> /\ This.run = "control" /\ This.of \in Updaters
            /\ upload[This.of] = "installing"
            /\ status' = work[This.of] /\ status' # RUN /\ work' = work
<1> USE DEF conn, upd, shown
<1>0. TypeOK /\ UpdaterInv /\ ClientInv
    BY DEF Inv1
<1>1. CASE RunAsk \/ RunUploaded
  <2>1. /\ ready # <<>> /\ This.run = "control" /\ This.of \in Updaters
        /\ (RunAsk => This.how = "ask") /\ (RunUploaded => This.how = "eof")
      BY <1>0, <1>1, ThisOf DEF RunAsk, RunUploaded, Runs, This
  <2>2. UpdaterEntry(This)
      BY <1>0, <2>1, ThisEntry DEF UpdaterInv, UpdaterEntries
  <2>3. /\ RunAsk => upload[This.of] = "asking" /\ (status' = RUN \/ status' = status) /\ IsAsk(This)
        /\ RunUploaded => upload[This.of] = "ended" /\ status' = RUN
      BY <2>1, <2>2 DEF RunAsk, RunUploaded, UpdaterEntry, Announce, IsAsk
  <2> QED BY <1>1, <2>1, <2>3
<1>2. CASE RunResult
  <2>1. /\ This.of \in Updaters /\ work[This.of] \in Verdicts /\ upload[This.of] = "installing"
        /\ ready # <<>> /\ This.run = "control"
      BY <1>0, <1>2, ResultTyped DEF RunResult, Runs, This
  <2>2. CASE work[This.of] = "raised"
      BY <1>2, <2>2 DEF RunResult
  <2>3. CASE work[This.of] # "raised"
    <3>1. status' = work[This.of] /\ work' = work
        BY <1>2, <2>3 DEF RunResult, Publish, NotifyFrom
    <3>2. work[This.of] # RUN
        BY <2>1, <2>3 DEF Verdicts, RUN, SUCCESS, FAILURE
    <3> QED BY <2>1, <3>1, <3>2
  <2> QED BY <2>2, <2>3
<1>3. CASE status' = status
    BY <1>3
<1> QED BY <1>1, <1>2, <1>3
    DEF Next, Alive, RunLoop, Clock, Worker, Others, vars, RunStart, RunWake, RunDrained, RunLost,
        RunHangUp, RunNotify, RunUploadError, RunRestart, Timeout, SleepOver, Report,
        Finish, Connect, HangUp, Notice, Ask, EndUpload

\* A worker thread that has come to a verdict changes it no more, and none starts
\* for a handler that has died.
LEMMA WorkStays ==
  ASSUME Inv1, StatusEntries, [Next]_vars, NEW u \in Updaters
  PROVE  /\ work[u] \in Verdicts => work'[u] = work[u]
         /\ work'[u] = "killed" => work[u] = "killed" \/ Crash
         /\ upload[u] = "dead" => upload'[u] = "dead" /\ work'[u] = work[u]
<1> USE DEF conn, upd, shown
<1>0. /\ TypeOK /\ UpdaterInv /\ ClientInv
      /\ work \in [Updaters -> {"none", "running", "killed"} \cup Verdicts]
      /\ upload[u] = "dead" => work[u] # "running"
    BY DEF Inv1, TypeOK, UpdTypes, UpdaterInv, WorkInv
<1>1. CASE Crash
    BY <1>0, <1>1 DEF Crash, Cut, Answering, Verdicts, SUCCESS, FAILURE, TypeOK, UpdTypes
<1>2. CASE ~Crash
  <2>1. upload[u] = "dead" => upload'[u] = "dead"
      BY <1>2, UploadStep
  <2>2. ASSUME work'[u] # work[u]
        PROVE  /\ work[u] \notin Verdicts /\ work'[u] # "killed"
               /\ upload[u] # "dead"
    <3>1. CASE RunUploaded
      <4>1. ready # <<>> /\ This.run = "control" /\ This.of \in Updaters /\ This.how = "eof"
          BY <1>0, <3>1, ThisOf DEF RunUploaded, Runs, This
      <4>2. upload[This.of] = "ended" /\ work[This.of] = "none"
          BY <1>0, <4>1, ThisEntry DEF UpdaterInv, UpdaterEntries, UpdaterEntry, WorkInv
      <4> QED BY <1>0, <2>2, <3>1, <4>1, <4>2 DEF RunUploaded, Verdicts, SUCCESS, FAILURE
    <3>2. ASSUME NEW v \in Updaters, Finish(v)
          PROVE  /\ work[u] \notin Verdicts /\ work'[u] # "killed"
                 /\ upload[u] # "dead"
      <4>1. u = v /\ work[u] = "running" /\ work'[u] \in Verdicts
          BY <1>0, <2>2, <3>2 DEF Finish
      <4> QED BY <1>0, <4>1 DEF Verdicts, SUCCESS, FAILURE
    <3> QED BY <1>2, <2>2, <3>1, <3>2
        DEF Next, Alive, RunLoop, Clock, Worker, Others, vars, RunStart, RunWake, RunDrained, RunLost,
            RunHangUp, RunNotify, RunAsk, RunUploadError, RunResult, RunRestart, NotifyFrom, Timeout,
            SleepOver, Report, Connect, HangUp, Notice, Ask, EndUpload
  <2> QED BY <2>1, <2>2
<1> QED BY <1>1, <1>2

\* How the coroutine of one client goes on.
LEMMA PollerStep ==
  ASSUME Inv1, [Next]_vars, ~Crash, NEW c \in Clients
  PROVE  \/ poller'[c] = poller[c] /\ last'[c] = last[c] /\ joined'[c] = joined[c]
         \/ /\ poller[c] \in {"none", "woken"} /\ poller'[c] = "waiting"
            /\ UNCHANGED <<status, pct, upload, work>>
            /\ last'[c] = last[c] \/ ~Terminal(Message(status, pct))
            /\ last'[c] = Message(status, pct)
            /\ joined'[c] = IF poller[c] = "none" THEN InProgress ELSE joined[c]
         \/ poller[c] \in {"none", "woken"} /\ poller'[c] \in {"draining", "done"}
         \/ poller[c] = "draining" /\ poller'[c] = "done"
         \/ /\ poller[c] = "waiting" /\ poller'[c] = "woken"
            /\ last'[c] = last[c] /\ joined'[c] = joined[c]
<1> USE DEF conn, upd, shown
<1>0. /\ TypeOK /\ UpdaterInv /\ ClientInv /\ last \in [Clients -> Messages]
      /\ poller \in [Clients -> {"none", "waiting", "woken", "draining", "done"}]
      /\ joined \in [Clients -> SUBSET Updaters]
    BY DEF Inv1, TypeOK, ConnTypes
<1>1. ASSUME NEW d \in Clients, NEW listed, Check(d, listed)
      PROVE  /\ \A e \in Clients \ {d} : poller'[e] = poller[e] /\ last'[e] = last[e]
             /\ \/ poller'[d] \in {"draining", "done"}
                \/ /\ poller'[d] = "waiting" /\ last'[d] = Message(status, pct)
                   /\ last'[d] = last[d] \/ ~Terminal(Message(status, pct))
    BY <1>0, <1>1 DEF Check, Wait, Leave, Seen
<1>2. ASSUME NEW d \in Clients, WakeUp(d)
      PROVE  poller' = poller \/ (poller[d] = "waiting" /\ poller' = [poller EXCEPT ![d] = "woken"])
    BY <1>2 DEF WakeUp
<1>3. CASE RunStart \/ RunWake \/ RunDrained
  <2>1. PICK d \in Clients : d = This.of
      BY <1>0, <1>3, ThisOf DEF RunStart, RunWake, RunDrained, OfClient
  <2>2. /\ RunStart => poller[d] = "none"
        /\ RunWake => poller[d] = "woken"
        /\ RunDrained => poller[d] = "draining"
      BY <1>0, <1>3, <2>1, ThisEntry
         DEF RunStart, RunWake, RunDrained, Runs, This, ClientInv, ClientEntries, ClientEntry
  <2>3. CASE RunStart
      BY <1>0, <1>1, <2>1, <2>2, <2>3 DEF RunStart
  <2>4. CASE RunWake
    <3>1. CASE Check(d, clients)
        BY <1>0, <1>1, <2>1, <2>2, <2>4, <3>1 DEF RunWake
    <3>2. CASE Leave(d) /\ last' = last
        BY <1>0, <2>1, <2>2, <2>4, <3>2 DEF RunWake, Leave
    <3> QED BY <2>1, <2>4, <3>1, <3>2 DEF RunWake
  <2>5. CASE RunDrained
      BY <1>0, <2>1, <2>2, <2>5 DEF RunDrained, Leave
  <2> QED BY <1>3, <2>3, <2>4, <2>5
<1>4. CASE RunLost \/ RunHangUp
  <2>1. PICK d \in Clients : d = This.of
      BY <1>0, <1>4, ThisOf DEF RunLost, RunHangUp, OfClient
  <2>2. last' = last /\ joined' = joined /\ (WakeUp(d) \/ poller' = poller)
      BY <1>4, <2>1 DEF RunLost, RunHangUp
  <2> QED BY <1>0, <1>2, <2>1, <2>2
<1>5. ASSUME NEW d \in Clients, Timeout(d)
      PROVE  /\ poller'[c] = poller[c] \/ (poller[c] = "waiting" /\ poller'[c] = "woken")
             /\ last'[c] = last[c] /\ joined'[c] = joined[c]
    BY <1>0, <1>5 DEF Timeout
<1>6. CASE poller' = poller /\ last' = last /\ joined' = joined
    BY <1>6
<1> QED BY <1>3, <1>4, <1>5, <1>6
    DEF Next, Alive, RunLoop, Clock, Worker, Others, vars, RunAsk, RunUploaded, RunUploadError, RunResult,
        RunNotify, RunRestart, NotifyFrom, SleepOver, Report, Finish, Connect, HangUp, Notice,
        Ask, EndUpload

\* The first verdict a client hears is what its own coroutine found shown, or what
\* is sent to all by the handler of an update that has just been decided.
LEMMA FirstStep ==
  ASSUME Inv1, [Next]_vars, NEW c \in Clients, told'[c] # told[c]
  PROVE  /\ ~Answered(c) /\ Live(c) /\ Verdict(told'[c])
         /\ \/ /\ poller[c] \in {"none", "woken"} /\ told'[c].status = status
               /\ UNCHANGED <<status, upload, work>> /\ poller'[c] # "none"
               /\ joined'[c] = IF poller[c] = "none" THEN InProgress ELSE joined[c]
            \/ /\ c \in Listed /\ joined' = joined /\ work' = work
               /\ \E u \in Updaters : upload[u] = "installing" /\ work[u] = told'[c].status
<1> USE DEF conn, upd, shown
<1>0. /\ TypeOK /\ UpdaterInv /\ ClientInv /\ joined \in [Clients -> SUBSET Updaters]
      /\ told \in [Clients -> Messages]
      /\ clients \in Seq(Clients)
    BY DEF Inv1, TypeOK, ConnTypes, QueueTypes
<1>1. ASSUME NEW m \in Messages, told'[c] = Hear(c, m)
      PROVE  ~Answered(c) /\ Verdict(told'[c]) /\ told'[c] = m
    BY <1>1 DEF Hear, Answered, Terminal, Verdict, Messages
<1>2. ASSUME NEW v \in Updaters \cup {Nobody}, NEW m \in Messages, NEW i \in Nat \ {0}, NEW dead,
             NotifyFrom(v, m, i, dead), v = Nobody => ~Terminal(m),
             v # Nobody => upload[v] = "installing" /\ work[v] = m.status
      PROVE  /\ ~Answered(c) /\ Live(c) /\ Verdict(told'[c])
             /\ c \in Listed /\ joined' = joined /\ work' = work
             /\ \E u \in Updaters : upload[u] = "installing" /\ work[u] = told'[c].status
  <2>1. Live(c) /\ told'[c] = Hear(c, m) /\ \E k \in DOMAIN Passed(i) : Passed(i)[k] = c
      BY <1>0, <1>2 DEF NotifyFrom, Deliver
  <2>2. c \in Listed
      BY <1>0, <2>1, StopAtIn DEF Values
  <2>3. Terminal(m)
      BY <2>1 DEF Hear
  <2> QED BY <1>1, <1>2, <2>1, <2>2, <2>3 DEF NotifyFrom
<1>3. CASE RunNotify
  <2>1. /\ ready # <<>> /\ This.run = "notify" /\ This.of \in Updaters \cup {Nobody}
        /\ This.msg \in Messages /\ This.at \in Nat \ {0}
        /\ NotifyFrom(This.of, This.msg, This.at, This.dead)
      BY <1>0, <1>3, ThisOf DEF RunNotify, Runs, This
  <2>2. /\ This.of = Nobody => ~Terminal(This.msg)
        /\ This.of # Nobody => upload[This.of] = "installing" /\ work[This.of] = This.msg.status
      BY <1>0, <2>1, ThisEntry DEF UpdaterInv, UpdaterEntries, UpdaterEntry
  <2> QED BY <1>2, <2>1, <2>2
<1>4. CASE RunResult
  <2>1. /\ This.of \in Updaters /\ work[This.of] \in Verdicts /\ upload[This.of] = "installing"
        /\ This.of # Nobody
        /\ work[This.of] # "raised" => BuildMsg(work[This.of], 0) \in Messages
      BY <1>0, <1>4, ResultTyped, NobodyAssumption DEF RunResult, NobodyAssumption
  <2>2. work[This.of] # "raised"
      BY <1>4 DEF RunResult
  <2>3. NotifyFrom(This.of, BuildMsg(work[This.of], 0), 1, <<>>)
      BY <1>4, <2>2 DEF RunResult
  <2>4. BuildMsg(work[This.of], 0).status = work[This.of]
      BY DEF BuildMsg, Message
  <2> QED BY <1>2, <2>1, <2>2, <2>3, <2>4
<1>5. CASE RunStart \/ RunWake
  <2>1. PICK d \in Clients : d = This.of
      BY <1>0, <1>5, ThisOf DEF RunStart, RunWake, OfClient
  <2>2. /\ RunStart => poller[d] = "none"
        /\ RunWake => poller[d] = "woken"
      BY <1>0, <1>5, <2>1, ThisEntry
         DEF RunStart, RunWake, Runs, This, ClientInv, ClientEntries, ClientEntry
  <2>3. PICK listed : Check(d, listed)
      BY <1>5, <2>1 DEF RunStart, RunWake
  <2>4. told' = [told EXCEPT ![d] = Hear(d, BuildMsg(status, pct))] /\ Live(d)
      BY <2>3 DEF Check
  <2>5. c = d /\ told'[c] = Hear(c, BuildMsg(status, pct))
      BY <1>0, <2>4
  <2>6. BuildMsg(status, pct) \in Messages /\ BuildMsg(status, pct).status = status
      BY <1>0, MessageTyped DEF BuildMsg, Message
  <2>7. ~Answered(c) /\ Verdict(told'[c]) /\ told'[c].status = status
      BY <1>1, <2>5, <2>6
  <2>8. /\ RunStart => joined'[c] = InProgress
        /\ RunWake => joined' = joined
        /\ UNCHANGED <<status, upload, work>>
      BY <1>0, <1>5, <2>1, <2>5 DEF RunStart, RunWake
  <2>9. poller'[c] # "none"
      BY <1>0, <2>3, <2>5 DEF Check, Wait, Leave, TypeOK, ConnTypes
  <2> QED BY <1>5, <2>2, <2>4, <2>5, <2>7, <2>8, <2>9
<1> QED BY <1>3, <1>4, <1>5
    DEF Next, Alive, RunLoop, Clock, Worker, Others, vars, Crash, RunDrained, RunLost, RunHangUp, RunAsk,
        RunUploaded, RunUploadError, RunRestart, Timeout, SleepOver, Report, Finish,
        Connect, HangUp, Notice, Ask, EndUpload

----------------------------------------------------------------------------
(* What is shown goes with the update under way. *)

\* A client that has had its verdict is told no other as its first.
LEMMA FirstInvStep ==
  ASSUME Inv1, FirstInv, [Next]_vars
  PROVE  FirstInv'
<1>0. TypeOK /\ UpdaterInv /\ ClientInv
    BY DEF Inv1
<1>1. ASSUME NEW c \in Clients
      PROVE  /\ told'[c] = NoMsg \/ Verdict(told'[c])
             /\ poller'[c] = "none" => told'[c] = NoMsg
  <2>1. told'[c] = NoMsg \/ Verdict(told'[c])
      BY FirstStep DEF FirstInv
  <2>2. ASSUME poller'[c] = "none" PROVE told'[c] = NoMsg
    <3>1. poller[c] = "none"
      <4>1. CASE Crash
          BY <1>0, <2>2, <4>1 DEF Crash, ClientInv, PollerInv
      <4>2. CASE ~Crash
          BY <2>2, <4>2, PollerStep
      <4> QED BY <4>1, <4>2
    <3>2. told'[c] = told[c]
        BY <1>0, <2>2, <3>1, FirstStep DEF ClientInv, ListInv
    <3> QED BY <3>1, <3>2 DEF FirstInv, Answered
  <2> QED BY <2>1, <2>2
<1> QED BY <1>1 DEF FirstInv, Answered

LEMMA LastInvStep ==
  ASSUME Inv1, LastInv, [Next]_vars
  PROVE  LastInv'
<1>0. TypeOK /\ UpdaterInv /\ ClientInv
    BY DEF Inv1
<1>1. ASSUME NEW c \in Clients, Terminal(last'[c])
      PROVE  poller'[c] \in {"draining", "done"}
  <2>1. CASE Crash
    <3>1. last' = last /\ poller'[c] \in {"none", "done"} /\ (poller'[c] = "none" => peer[c] = "away")
        BY <2>1 DEF Crash, conn
    <3> QED BY <1>0, <1>1, <3>1 DEF LastInv, ClientInv, PollerInv
  <2>2. CASE ~Crash
    <3>1. CASE last'[c] = last[c]
        BY <1>1, <2>2, <3>1, PollerStep DEF LastInv
    <3>2. CASE last'[c] # last[c]
        BY <1>1, <2>2, <3>2, PollerStep
    <3> QED BY <3>1, <3>2
  <2> QED BY <2>1, <2>2
<1> QED BY <1>1 DEF LastInv, Terminal

\* A step from one state of the queue to the next, place by place.
LEMMA QueuePlaces ==
  ASSUME TypeOK, NEW old \in Seq(Callbacks), NEW add \in Seq(Callbacks), QueueChange(old, add)
  PROVE  /\ \A j \in DOMAIN ready' :
              \/ j \in DOMAIN old /\ ready'[j] = old[j]
              \/ j > Len(old) /\ j - Len(old) \in DOMAIN add /\ ready'[j] = add[j - Len(old)]
         /\ \A j \in DOMAIN old : j \in DOMAIN ready' /\ ready'[j] = old[j]
         /\ \A k \in DOMAIN add : Len(old) + k \in DOMAIN ready' /\ ready'[Len(old) + k] = add[k]
         /\ old = ready \/ \A j \in DOMAIN old : j + 1 \in DOMAIN ready /\ old[j] = ready[j + 1]
         /\ old = ready \/ \A j \in DOMAIN ready : j # 1 => j - 1 \in DOMAIN old
         /\ Len(old) \in Nat /\ DOMAIN old = 1..Len(old)
<1>1. ready' = old \o add
    BY DEF QueueChange
<1>2. \A j \in DOMAIN (old \o add) :
        \/ j \in DOMAIN old /\ (old \o add)[j] = old[j]
        \/ j > Len(old) /\ j - Len(old) \in DOMAIN add /\ (old \o add)[j] = add[j - Len(old)]
    OBVIOUS
<1>3. /\ \A j \in DOMAIN old : j \in DOMAIN (old \o add) /\ (old \o add)[j] = old[j]
      /\ \A k \in DOMAIN add : Len(old) + k \in DOMAIN (old \o add) /\ (old \o add)[Len(old) + k] = add[k]
    BY Concatenated
<1>4. CASE old # ready
  <2>1. ready \in Seq(Callbacks) /\ ready # <<>> /\ old = Tail(ready)
      BY <1>4 DEF QueueChange, TypeOK, QueueTypes
  <2> QED BY <1>1, <1>2, <1>3, <2>1, TailOf
<1> QED BY <1>1, <1>2, <1>3, <1>4

\* What wakes a client stays in the queue until it has run.
LEMMA WokenStep ==
  ASSUME Inv1, StatusInv, StatusEntries, WokenInv, [Next]_vars
  PROVE  WokenInv'
<1>0. TypeOK
    BY DEF Inv1
<1>1. CASE Crash
    BY <1>1 DEF Crash, WokenInv
<1>2. CASE ~Crash
  <2>1. PICK old \in Seq(Callbacks), add \in Seq(Callbacks) : QueueChange(old, add)
      BY <1>2, QueueSteps
  <2> SUFFICES ASSUME NEW c \in Clients, poller'[c] = "woken"
               PROVE  \E j \in DOMAIN ready' : ready'[j].run = "wake" /\ ready'[j].of = c
      BY DEF WokenInv, WakesFor
  <2>2. CASE WakesFor(add, c)
      BY <1>0, <2>1, <2>2, QueuePlaces DEF WakesFor
  <2>3. CASE poller[c] = "woken" /\ (old = ready \/ ~(This.run = "wake" /\ This.of = c))
    <3>1. PICK i \in DOMAIN ready : ready[i].run = "wake" /\ ready[i].of = c
        BY <2>3 DEF WokenInv, WakesFor
    <3>2. CASE old = ready
        BY <1>0, <2>1, <3>1, <3>2, QueuePlaces
    <3>3. CASE old # ready
      <4>1. ready \in Seq(Callbacks) /\ ready # <<>>
          BY <1>0, <2>1, <3>3 DEF QueueChange, TypeOK, QueueTypes
      <4>2. i # 1
          BY <2>3, <3>1, <3>3, <4>1, TailOf DEF This
      <4>3. i - 1 \in DOMAIN old /\ old[i - 1] = ready[(i - 1) + 1]
          BY <1>0, <2>1, <3>1, <3>3, <4>2, QueuePlaces
      <4>4. (i - 1) + 1 = i
          BY <4>1
      <4> QED BY <1>0, <2>1, <3>1, <4>3, <4>4, QueuePlaces
    <3> QED BY <3>2, <3>3
  <2> QED BY <2>1, <2>2, <2>3 DEF QueueChange
<1> QED BY <1>1, <1>2

\* The update an entry of the queue belongs to.
OfDecided(e) == \/ e.run = "control" /\ e.how = "result"
                \/ e.run = "notify" /\ e.of # Nobody

LEMMA EntryOf ==
  ASSUME Inv1, NEW i \in DOMAIN ready
  PROVE  /\ OfDecided(ready[i]) => /\ ready[i].of \in Updaters /\ upload[ready[i].of] = "installing"
                                   /\ ready[i].run \in OfUpdater
         /\ IsAsk(ready[i]) => ready[i].of \in Updaters /\ upload[ready[i].of] = "asking"
<1>1. ready[i] \in Callbacks /\ UpdaterEntry(ready[i])
    BY DEF Inv1, TypeOK, QueueTypes, UpdaterInv, UpdaterEntries
<1> QED BY <1>1, EntryTyped DEF UpdaterEntry, IsAsk, OfUpdater, OfDecided

\* An updater that waits for the one before finds nobody answering.
LEMMA AloneStep ==
  ASSUME Inv1, StatusEntries, AloneInv, OneAtATime, [Next]_vars
  PROVE  AloneInv'
<1>1. CASE Crash
    BY <1>1 DEF Crash, AloneInv, Answering, Cut
<1>2. CASE ~Crash
  <2>1. ASSUME NEW u \in Updaters, Answering(u)' PROVE Answering(u) \/ Ask(u)
      BY <1>2, <2>1, UploadStep DEF Answering
  <2>2. ASSUME NEW u \in Updaters, Ask(u), NEW v \in Updaters, Answering(v)' PROVE u = v
    <3>1. upload' = [upload EXCEPT ![u] = "asking"] /\ ~Answering(v)
        BY <2>2 DEF Ask, Quiet
    <3> QED BY <2>2, <3>1 DEF Answering, Inv1, TypeOK, UpdTypes
  <2> QED BY <2>1, <2>2 DEF AloneInv
<1> QED BY <1>1, <1>2

LEMMA StatusInvStep ==
  ASSUME Inv1, StatusEntries, AloneInv, StatusInv, [Next]_vars
  PROVE  StatusInv'
<1>0. /\ TypeOK /\ status \in {RUN, SUCCESS, FAILURE}
      /\ work \in [Updaters -> {"none", "running", "killed"} \cup Verdicts]
    BY DEF Inv1, TypeOK, ShownTypes, UpdTypes
<1>1. CASE Crash
    BY <1>1 DEF Crash, StatusInv, Cut
<1>2. CASE ~Crash
  <2>1. ASSUME NEW u \in Updaters
        PROVE  /\ upload'[u] \in {"streaming", "ended"} => status' = RUN
               /\ upload'[u] = "installing" => status' = RUN \/ status' = work'[u]
    <3>1. CASE status' = status
      <4>1. upload'[u] \in {"streaming", "ended"} => status' = RUN
          BY <1>2, <3>1, UploadStep DEF StatusInv
      <4>2. ASSUME upload'[u] = "installing", status' # RUN PROVE status' = work'[u]
        <5>1. upload[u] = "installing"
            BY <1>2, <4>2, UploadStep
        <5>2. status = work[u] /\ work[u] \in Verdicts
            BY <1>0, <3>1, <4>2, <5>1 DEF StatusInv, Verdicts
        <5> QED BY <3>1, <5>2, WorkStays
      <4> QED BY <4>1, <4>2
    <3>2. CASE status' = RUN
        BY <3>2
    <3>3. ASSUME NEW v \in Updaters, upload[v] = "installing", status' = work[v], status' # RUN, work' = work
          PROVE  /\ upload'[u] \notin {"streaming", "ended"}
                 /\ upload'[u] = "installing" => status' = work'[u]
      <4>1. upload'[u] \in {"streaming", "ended", "installing"} => Answering(u)
          BY <1>2, UploadStep DEF Answering
      <4>2. Answering(u) => u = v
          BY <3>3 DEF AloneInv, Answering
      <4>3. u = v => upload'[u] \notin {"streaming", "ended"}
          BY <1>2, <3>3, UploadStep
      <4> QED BY <3>3, <4>1, <4>2, <4>3
    <3> QED BY <1>2, <3>1, <3>2, <3>3, StatusStep
  <2> QED BY <2>1 DEF StatusInv
<1> QED BY <1>1, <1>2

\* A verdict that is being sent is the one that is shown.
LEMMA EntriesStep ==
  ASSUME Inv1, StatusEntries, AloneInv, StatusInv, [Next]_vars
  PROVE  StatusEntries'
<1>0. TypeOK /\ status \in {RUN, SUCCESS, FAILURE}
    BY DEF Inv1, TypeOK, ShownTypes
<1>1. CASE Crash
    BY <1>1 DEF Crash, StatusEntries
<1>2. CASE ~Crash
  <2>1. PICK old \in Seq(Callbacks), add \in Seq(Callbacks) : QueueChange(old, add)
      BY <1>2, QueueSteps
  <2> DEFINE Agrees(e) == /\ e.run = "control" /\ e.how = "result" => status' = RUN
                          /\ e.run = "notify" /\ e.of # Nobody => status' = e.msg.status
  <2>2. \A k \in DOMAIN add : Agrees(add[k])
      BY <2>1 DEF QueueChange
  <2>3. ASSUME NEW i \in DOMAIN old PROVE Agrees(old[i])
    <3>1. PICK j \in DOMAIN ready : old[i] = ready[j]
        BY <1>0, <2>1, QueuePlaces
    <3>2. StatusEntry(old[i])
        BY <3>1 DEF StatusEntries
    <3>3. CASE status' = status
        BY <3>2, <3>3 DEF StatusEntry
    <3>4. ASSUME NEW v \in Updaters, status' = RUN, upload[v] \in {"asking", "ended"} PROVE Agrees(old[i])
      <4>1. ASSUME old[i].run = "notify", old[i].of # Nobody PROVE FALSE
        <5>1. OfDecided(ready[j])
            BY <3>1, <4>1 DEF OfDecided
        <5>2. old[i].of \in Updaters /\ upload[old[i].of] = "installing"
            BY <3>1, <5>1, EntryOf
        <5> QED BY <3>4, <5>2 DEF AloneInv, Answering
      <4> QED BY <3>4, <4>1
    <3>5. ASSUME NEW v \in Updaters, status' # status, ready # <<>>, This.run = "control", This.of = v,
                 upload[v] = "installing"
          PROVE  Agrees(old[i])
      <4>1. old = Tail(ready)
          BY <2>1, <3>5 DEF QueueChange
      <4>2. ASSUME OfDecided(old[i]) PROVE FALSE
        <5>1. old[i].of \in Updaters /\ upload[old[i].of] = "installing" /\ old[i].run \in OfUpdater
          <6>1. OfDecided(ready[j])
              BY <3>1, <4>2
          <6> QED BY <3>1, <6>1, EntryOf
        <5>2. old[i].of = v
            BY <3>5, <5>1 DEF AloneInv, Answering
        <5> QED BY <1>0, <3>5, <4>1, <5>1, <5>2, UpdaterTail DEF Inv1, UpdaterInv, OfUpdater
      <4> QED BY <4>2 DEF OfDecided
    <3> QED BY <1>2, <3>3, <3>4, <3>5, StatusStep
  <2> HIDE DEF Agrees
  <2>4. \A j \in DOMAIN ready' : Agrees(ready'[j])
      BY <1>0, <2>1, <2>2, <2>3, QueuePlaces
  <2> QED BY <2>4 DEF Agrees, StatusEntries, StatusEntry
<1> QED BY <1>1, <1>2

\* Whether an update is asked for under a verdict: nobody waits by then.
LEMMA AskStep ==
  ASSUME Inv1, StatusEntries, AloneInv, AskInv, LastInv, OneAtATime, [Next]_vars
  PROVE  AskInv'
<1>0. TypeOK /\ status \in {RUN, SUCCESS, FAILURE}
    BY DEF Inv1, TypeOK, ShownTypes
<1> SUFFICES ASSUME NEW u \in Updaters, upload'[u] = "asking", status' # RUN,
                    NEW c \in Clients, poller'[c] = "waiting"
             PROVE  FALSE
    BY DEF AskInv
<1>1. ~Crash
    BY DEF Crash, Cut
<1>2. CASE Ask(u)
  <2>1. status' = status /\ poller' = poller /\ Quiet
      BY <1>2 DEF Ask, conn, shown
  <2>2. last[c] = Message(status, pct)
      BY <2>1 DEF Quiet
  <2>3. Terminal(last[c])
      BY <1>0, <2>1, <2>2 DEF Terminal, Message
  <2> QED BY <2>1, <2>3 DEF LastInv
<1>3. CASE ~Ask(u)
  <2>1. upload[u] = "asking"
      BY <1>1, <1>3, UploadStep
  <2>2. status' = status
      BY <1>1, <2>1, StatusStep DEF AloneInv, Answering
  <2>3. poller[c] # "waiting"
      BY <2>1, <2>2 DEF AskInv
  <2>4. /\ poller[c] \in {"none", "woken"} /\ last'[c] = Message(status, pct)
        /\ last'[c] = last[c] \/ ~Terminal(Message(status, pct))
      BY <1>1, <2>3, PollerStep
  <2>5. Terminal(Message(status, pct))
      BY <1>0, <2>2 DEF Terminal, Message
  <2> QED BY <2>4, <2>5 DEF LastInv
<1> QED BY <1>2, <1>3

\* Nobody is woken behind an update that is asked for.
LEMMA OrderStep ==
  ASSUME Inv1, StatusEntries, StatusInv, AloneInv, AskInv, OrderInv, [Next]_vars
  PROVE  OrderInv'
<1>0. TypeOK
    BY DEF Inv1
<1>1. CASE Crash
    BY <1>1 DEF Crash, OrderInv, WakesFirst
<1>2. CASE ~Crash
  <2>1. PICK old \in Seq(Callbacks), add \in Seq(Callbacks) : QueueChange(old, add)
      BY <1>2, QueueSteps
  <2> SUFFICES ASSUME status' # RUN, NEW i \in DOMAIN ready', NEW j \in DOMAIN ready',
                      IsAsk(ready'[i]), ready'[j].run = "wake"
               PROVE  j < i
      BY DEF OrderInv, WakesFirst, IsAsk
  <2>2. /\ \/ i \in DOMAIN old /\ ready'[i] = old[i]
           \/ i > Len(old) /\ i - Len(old) \in DOMAIN add /\ ready'[i] = add[i - Len(old)]
        /\ \/ j \in DOMAIN old /\ ready'[j] = old[j]
           \/ j > Len(old) /\ j - Len(old) \in DOMAIN add /\ ready'[j] = add[j - Len(old)]
        /\ Len(old) \in Nat /\ DOMAIN old = 1..Len(old)
      BY <1>0, <2>1, QueuePlaces
  <2>3. CASE i \in DOMAIN old /\ ready'[i] = old[i]
    <3>1. PICK k \in DOMAIN ready : old[i] = ready[k]
        BY <1>0, <2>1, <2>3, QueuePlaces
    <3>2. old[i].of \in Updaters /\ upload[old[i].of] = "asking"
        BY <2>3, <3>1, EntryOf
    <3>3. status' = status
        BY <1>2, <3>2, StatusStep DEF AloneInv, Answering
    <3>4. \A c \in Clients : poller[c] # "waiting"
        BY <3>2, <3>3 DEF AskInv
    <3>5. CASE j \in DOMAIN old /\ ready'[j] = old[j]
      <4>1. WakesFirst(ready)
          BY <3>3 DEF OrderInv
      <4>2. CASE old = ready
          BY <2>3, <3>5, <4>1, <4>2 DEF WakesFirst
      <4>3. CASE old # ready
        <5>1. /\ i + 1 \in DOMAIN ready /\ old[i] = ready[i + 1]
              /\ j + 1 \in DOMAIN ready /\ old[j] = ready[j + 1]
            BY <1>0, <2>1, <2>3, <3>5, <4>3, QueuePlaces
        <5>2. j + 1 < i + 1
            BY <2>3, <3>5, <4>1, <5>1 DEF WakesFirst
        <5> QED BY <2>2, <2>3, <3>5, <5>2
      <4> QED BY <4>2, <4>3
    <3>6. CASE j - Len(old) \in DOMAIN add /\ ready'[j] = add[j - Len(old)]
      <4>1. PICK n \in DOMAIN add : add[n] = ready'[j]
          BY <3>6
      <4>2. poller[add[n].of] = "waiting" /\ add[n].run = "wake"
          BY <2>1, <4>1 DEF QueueChange
      <4>3. add[n] \in Callbacks
          BY <4>1
      <4>4. add[n].of \in Clients
          BY <4>2, <4>3, EntryTyped DEF OfClient
      <4> QED BY <3>4, <4>2, <4>4
    <3> QED BY <2>2, <3>5, <3>6
  <2>4. CASE i > Len(old) /\ i - Len(old) \in DOMAIN add /\ ready'[i] = add[i - Len(old)]
    <3>1. DOMAIN add = {1}
        BY <2>1, <2>4 DEF QueueChange
    <3>2. CASE j \in DOMAIN old
      <4>1. ready' = old \o add /\ i \in Nat
          BY <2>1 DEF QueueChange
      <4> QED BY <2>2, <2>4, <3>2, <4>1
    <3>3. CASE j - Len(old) \in DOMAIN add /\ ready'[j] = add[j - Len(old)]
        BY <2>4, <3>1, <3>3 DEF IsAsk
    <3> QED BY <2>2, <3>2, <3>3
  <2> QED BY <2>2, <2>3, <2>4
<1> QED BY <1>1, <1>2

----------------------------------------------------------------------------
(* What its followers are told of an update. *)

\* A client that still listens did so before, or has just been let in.
LEMMA UnheardBefore ==
  ASSUME Inv1, [Next]_vars, ~Crash, NEW c \in Clients, Unheard(c)'
  PROVE  \/ Unheard(c) /\ joined'[c] = joined[c]
         \/ joined'[c] = InProgress /\ upload' = upload
<1>0. TypeOK /\ ClientInv /\ PollerInv /\ told \in [Clients -> Messages]
    BY DEF Inv1, ClientInv, TypeOK, ConnTypes
<1>1. poller'[c] \in {"waiting", "woken"} /\ Live(c)' /\ told'[c] = NoMsg
    BY DEF Unheard, Answered
<1>2. told[c] = NoMsg
    BY <1>0, <1>1, FirstStep DEF Answered, Verdict, NoMsg, SUCCESS, FAILURE
<1>3. poller[c] # "none" => Live(c)
    BY <1>0, <1>1, ConnStep DEF PollerInv, Live
<1>4. \/ poller[c] \in {"waiting", "woken"} /\ joined'[c] = joined[c]
      \/ joined'[c] = InProgress /\ upload' = upload
    BY <1>1, PollerStep
<1> QED BY <1>2, <1>3, <1>4 DEF Unheard, Answered

\* What a listening client waits for does not pass it by: when the update ends, the
\* verdict is shown; when the next is asked for, those that were woken run first.
LEMMA AwaitsStep ==
  ASSUME Inv1, StatusEntries, TurnInv, WokenInv, [Next]_vars, ~Crash,
         NEW c \in Clients, poller[c] \in {"waiting", "woken"}, NEW u \in Updaters, Awaits(u)
  PROVE  Awaits(u)'
<1>0. /\ TypeOK /\ WorkInv /\ work \in [Updaters -> {"none", "running", "killed"} \cup Verdicts]
      /\ status \in {RUN, SUCCESS, FAILURE}
    BY DEF Inv1, TypeOK, UpdaterInv, UpdTypes, ShownTypes
<1>1. \A v \in InProgress' : v \in InProgress \/ (upload[v] = "asking" /\ ready # <<>> /\ IsAsk(This))
    BY UploadStep DEF InProgress
<1>2. CASE upload[u] = "dead" /\ work[u] # "killed"
    BY <1>2, WorkStays DEF Awaits
<1>3. CASE u \in InProgress
  <2>1. CASE u \in InProgress'
      BY <2>1 DEF Awaits
  <2>2. CASE u \notin InProgress'
    <3>1. upload'[u] \notin {"streaming", "ended", "installing"}
        BY <2>2 DEF InProgress
    <3>2. CASE upload[u] # "installing"
      <4>1. upload'[u] = "dead" /\ work'[u] = work[u] /\ upload[u] \in {"streaming", "ended"}
          BY <1>3, <3>1, <3>2, UploadStep DEF InProgress
      <4>2. work'[u] # "killed"
          BY <1>0, <4>1 DEF WorkInv
      <4> QED BY <4>1, <4>2 DEF Awaits
    <3>3. CASE upload[u] = "installing"
      <4>1. /\ work[u] \in Verdicts /\ work'[u] = work[u]
            /\ \/ upload'[u] = "dead"
               \/ upload'[u] \in {"sleeping", "over"} /\ status' = work[u] /\ status' # RUN
          BY <3>1, <3>3, UploadStep
      <4>2. work'[u] # "killed"
          BY <4>1 DEF Verdicts, SUCCESS, FAILURE
      <4>3. InProgress' = {}
        <5>1. ASSUME NEW v \in InProgress' PROVE FALSE
          <6>1. v \in Updaters /\ Answering(v)
              BY <1>1 DEF InProgress, Answering
          <6>2. v = u
              BY <3>3, <6>1 DEF TurnInv, AloneInv, Answering
          <6> QED BY <2>2, <6>2
        <5> QED BY <5>1
      <4> QED BY <4>1, <4>2, <4>3 DEF Awaits
    <3> QED BY <3>2, <3>3
  <2> QED BY <2>1, <2>2
<1>4. CASE /\ upload[u] \in {"sleeping", "restarting", "over"} /\ status = work[u] /\ status # RUN
           /\ InProgress = {}
  <2>1. ready # <<>> => ~IsAsk(This) \/ upload[This.of] # "asking" \/ This.of \notin Updaters
    <3> SUFFICES ASSUME ready # <<>>, IsAsk(This), upload[This.of] = "asking", This.of \in Updaters
                 PROVE  FALSE
        OBVIOUS
    <3>1. poller[c] = "woken"
        BY <1>4 DEF TurnInv, AskInv
    <3>2. PICK j \in DOMAIN ready : ready[j].run = "wake"
        BY <3>1 DEF WokenInv, WakesFor
    <3>3. 1 \in DOMAIN ready /\ IsAsk(ready[1]) /\ DOMAIN ready = 1..Len(ready) /\ Len(ready) \in Nat
        BY <1>0, TailOf DEF TypeOK, QueueTypes, This
    <3>4. j < 1
        BY <1>4, <3>2, <3>3 DEF TurnInv, OrderInv, WakesFirst
    <3> QED BY <3>2, <3>3, <3>4
  <2>2. status' = status
    <3>1. \A v \in Updaters : upload[v] \notin {"ended", "installing"}
        BY <1>4 DEF InProgress
    <3> QED BY <1>0, <2>1, <3>1, StatusStep
  <2>3. InProgress' = {}
    <3>1. ASSUME NEW v \in InProgress' PROVE FALSE
      <4>1. upload[v] = "asking" /\ ready # <<>> /\ IsAsk(This)
          BY <1>1, <1>4
      <4>2. This.of \in Updaters /\ upload[This.of] = "asking"
        <5>1. 1 \in DOMAIN ready /\ This = ready[1]
            BY <1>0, <4>1, TailOf DEF TypeOK, QueueTypes, This
        <5> QED BY <4>1, <5>1, EntryOf
      <4> QED BY <2>1, <4>1, <4>2
    <3> QED BY <3>1
  <2>4. upload'[u] \in {"sleeping", "restarting", "over"}
      BY <1>4, UploadStep
  <2>5. work[u] \in Verdicts
      BY <1>0, <1>4 DEF Verdicts
  <2> QED BY <1>4, <2>2, <2>3, <2>4, <2>5, WorkStays DEF Awaits
<1> QED BY <1>2, <1>3, <1>4 DEF Awaits

LEMMA AwaitStep ==
  ASSUME Inv1, StatusEntries, TurnInv, WokenInv, AwaitInv, [Next]_vars
  PROVE  AwaitInv'
<1>0. TypeOK
    BY DEF Inv1
<1>1. CASE Crash
    BY <1>1 DEF Crash, AwaitInv, Unheard
<1>2. CASE ~Crash
  <2>1. ASSUME NEW c \in Clients, Unheard(c)', NEW u \in joined'[c] PROVE Awaits(u)'
    <3>1. CASE Unheard(c) /\ joined'[c] = joined[c]
      <4>1. Awaits(u) /\ u \in Updaters /\ poller[c] \in {"waiting", "woken"}
          BY <1>0, <2>1, <3>1 DEF AwaitInv, TypeOK, ConnTypes, Unheard
      <4> QED BY <1>2, <4>1, AwaitsStep
    <3>2. CASE joined'[c] = InProgress /\ upload' = upload
        BY <2>1, <3>2 DEF Awaits, InProgress
    <3> QED BY <1>2, <2>1, <3>1, <3>2, UnheardBefore
  <2> QED BY <2>1 DEF AwaitInv
<1> QED BY <1>1, <1>2

LEMMA VerdictStep ==
  ASSUME Inv1, StatusEntries, FirstInv, TurnInv, AwaitInv, VerdictIsOwn, [Next]_vars
  PROVE  VerdictIsOwn'
<1> DEFINE IsFor(w, how, v) == w = v \/ (how = "dead" /\ w # "killed")
<1>0. /\ TypeOK /\ ClientInv /\ PollerInv /\ ListInv
      /\ told \in [Clients -> Messages]
      /\ joined \in [Clients -> SUBSET Updaters]
    BY DEF Inv1, ClientInv, TypeOK, ConnTypes
<1> SUFFICES ASSUME NEW c \in Clients, told'[c] # NoMsg, joined'[c] # {}
             PROVE  \E u \in joined'[c] : IsFor(work'[u], upload'[u], told'[c].status)
    BY DEF VerdictIsOwn, Answered
<1> DEFINE said == told'[c].status
<1>1. CASE told'[c] = told[c]
  <2>1. Answered(c) /\ Verdict(told[c]) /\ poller[c] # "none"
      BY <1>1 DEF FirstInv, Answered
  <2>2. joined'[c] = joined[c]
    <3>1. CASE Crash
        BY <3>1 DEF Crash
    <3>2. CASE ~Crash /\ ~RunStart
        BY <3>2 DEF Next, Alive, RunLoop, Clock, Worker, Others, vars, conn, RunNotify, NotifyFrom, RunWake,
          RunDrained, RunLost, RunHangUp, RunAsk, RunUploaded, RunUploadError, RunResult, RunRestart,
          Timeout, SleepOver, Report, Finish, Connect, HangUp, Notice, Ask, EndUpload
    <3>3. CASE RunStart
      <4>1. poller[This.of] = "none"
          BY <1>0, <3>3, ThisEntry DEF RunStart, Runs, This, ClientInv, ClientEntries, ClientEntry
      <4> QED BY <1>0, <2>1, <3>3, <4>1 DEF RunStart
    <3> QED BY <3>1, <3>2, <3>3
  <2>3. PICK u \in joined[c] : IsFor(work[u], upload[u], told[c].status)
      BY <2>1, <2>2 DEF VerdictIsOwn
  <2>4. u \in Updaters /\ (work[u] = told[c].status => work[u] \in Verdicts)
      BY <1>0, <2>1, <2>3 DEF Verdict, Verdicts
  <2> QED BY <1>1, <2>2, <2>3, <2>4, WorkStays
<1>2. ASSUME NEW u \in joined'[c], u \in Updaters, u \in InProgress, status = said, said # RUN, work' = work
      PROVE  work'[u] = said
    BY <1>2 DEF InProgress, TurnInv, StatusInv
<1>3. CASE /\ told'[c] # told[c]
           /\ poller[c] \in {"none", "woken"} /\ said = status
           /\ UNCHANGED <<status, upload, work>> /\ poller'[c] # "none"
           /\ joined'[c] = IF poller[c] = "none" THEN InProgress ELSE joined[c]
  <2>1. ~Answered(c) /\ Live(c) /\ said # RUN
      BY <1>3, FirstStep DEF Verdict, RUN, SUCCESS, FAILURE
  <2>2. CASE poller[c] = "none"
    <3>1. PICK u \in joined'[c] : u \in InProgress /\ u \in Updaters
        BY <1>3, <2>2 DEF InProgress
    <3> QED BY <1>2, <1>3, <2>1, <3>1
  <2>3. CASE poller[c] = "woken"
    <3>1. joined'[c] = joined[c]
        BY <1>3, <2>3
    <3>2. PICK u \in joined[c] : Awaits(u) /\ u \in Updaters
        BY <1>0, <2>1, <2>3, <3>1 DEF AwaitInv, Unheard
    <3>3. CASE u \in InProgress
        BY <1>2, <1>3, <2>1, <3>1, <3>2, <3>3
    <3>4. CASE u \notin InProgress
        BY <1>3, <3>1, <3>2, <3>4 DEF Awaits
    <3> QED BY <3>3, <3>4
  <2> QED BY <1>3, <2>2, <2>3
<1>4. ASSUME told'[c] # told[c], c \in Listed, joined' = joined, work' = work,
             NEW v \in Updaters, upload[v] = "installing", work[v] = said
      PROVE  \E u \in joined'[c] : IsFor(work'[u], upload'[u], told'[c].status)
  <2>1. ~Answered(c) /\ Live(c)
      BY <1>4, FirstStep
  <2>2. poller[c] \in {"waiting", "woken"}
      BY <1>0, <1>4, <2>1 DEF ListInv, PollerInv, Gone, TypeOK, ConnTypes
  <2>3. PICK u \in joined[c] : Awaits(u) /\ u \in Updaters
      BY <1>0, <1>4, <2>1, <2>2 DEF AwaitInv, Unheard
  <2>4. CASE u \in InProgress
    <3>1. u = v
        BY <1>4, <2>4 DEF TurnInv, AloneInv, Answering, InProgress
    <3> QED BY <1>4, <2>3, <3>1
  <2>5. CASE upload[u] = "dead" /\ work[u] # "killed"
      BY <1>4, <2>3, <2>5, WorkStays
  <2>6. CASE InProgress = {}
      BY <1>4, <2>6 DEF InProgress
  <2> QED BY <2>3, <2>4, <2>5, <2>6 DEF Awaits
<1> QED BY <1>1, <1>3, <1>4, FirstStep

----------------------------------------------------------------------------
(* The invariant of the verdicts. *)

LEMMA InitInv2 == Init => Inv2
<1> SUFFICES ASSUME Init PROVE Inv2
    OBVIOUS
<1>1. DOMAIN ready = {}
    BY DEF Init
<1>2. FirstInv /\ LastInv /\ WokenInv /\ VerdictIsOwn /\ AwaitInv
    BY DEF Init, FirstInv, LastInv, WokenInv, VerdictIsOwn, AwaitInv, Answered, Terminal, NoMsg, Unheard,
           SUCCESS, FAILURE
<1>3. TurnInv
    BY <1>1 DEF Init, TurnInv, AloneInv, StatusInv, AskInv, OrderInv, WakesFirst, Answering
<1> QED BY <1>2, <1>3 DEF Inv2

LEMMA Inv2Step == OneAtATime /\ Inv1 /\ Inv2 /\ [Next]_vars => Inv2'
<1> SUFFICES ASSUME OneAtATime, Inv1, Inv2, [Next]_vars PROVE Inv2'
    OBVIOUS
<1>1. /\ FirstInv /\ LastInv /\ WokenInv /\ AwaitInv /\ VerdictIsOwn /\ TurnInv
      /\ AloneInv /\ StatusInv /\ StatusEntries /\ AskInv /\ OrderInv
    BY DEF Inv2, TurnInv, StatusEntries
<1>2. FirstInv' /\ LastInv'
    BY <1>1, FirstInvStep, LastInvStep
<1>3. WokenInv'
    BY <1>1, WokenStep
<1>4. AloneInv' /\ StatusInv' /\ StatusEntries'
    BY <1>1, AloneStep, StatusInvStep, EntriesStep
<1>5. AskInv' /\ OrderInv'
    BY <1>1, AskStep, OrderStep
<1>6. TurnInv'
    BY <1>4, <1>5 DEF TurnInv, StatusEntries
<1>7. AwaitInv' /\ VerdictIsOwn'
    BY <1>1, AwaitStep, VerdictStep
<1> QED BY <1>2, <1>3, <1>6, <1>7 DEF Inv2

\* With one update at a time, what is shown goes with the update under way, and what
\* each client still waits for is to come.
THEOREM TurnsHold == ASSUME OneAtATime PROVE Spec => []Inv2
<1>1. Init => Inv1 /\ Inv2
    BY InitInv1, InitInv2
<1>2. Inv1 /\ Inv2 /\ [Next]_vars => (Inv1 /\ Inv2)'
    BY OneAtATime, Inv1Step, Inv2Step
<1> QED BY <1>1, <1>2, PTL DEF Spec

\* With one update at a time, the first verdict a client hears is that of an update
\* that was in progress when it was let in, unless its handler has died.
THEOREM VerdictsAreOwn == ASSUME OneAtATime PROVE Spec => []VerdictIsOwn
<1>1. Inv2 => VerdictIsOwn
    BY DEF Inv2
<1>2. Spec => []Inv2
    BY OneAtATime, TurnsHold
<1> QED BY <1>1, <1>2, PTL

\* With one update at a time, a client that still waits when all is over has not yet
\* seen the verdict that is shown, and its next check sends it that.
THEOREM FollowersAreServed == ASSUME OneAtATime PROVE Spec => []FollowersServed
<1>1. ASSUME Inv1, Inv2 PROVE FollowersServed
  <2> SUFFICES ASSUME NEW c \in Clients, poller[c] = "waiting", Live(c), joined[c] # {}, ~Answered(c),
                      \A u \in Updaters : ~Answering(u) /\ upload[u] # "dead"
               PROVE  Terminal(Message(status, pct)) /\ last[c] # Message(status, pct)
      BY DEF FollowersServed
  <2>1. PICK u \in joined[c] : Awaits(u) /\ u \in Updaters
      BY <1>1 DEF Inv1, Inv2, AwaitInv, Unheard, TypeOK, ConnTypes
  <2>2. status # RUN
      BY <2>1 DEF Awaits, InProgress, Answering
  <2>3. Terminal(Message(status, pct))
      BY <1>1, <2>2 DEF Inv1, TypeOK, ShownTypes, Terminal, Message
  <2> QED BY <1>1, <2>3 DEF Inv2, LastInv
<1>2. Spec => []Inv2
    BY OneAtATime, TurnsHold
<1> QED BY <1>1, <1>2, InvariantHolds, PTL
----------------------------------------------------------------------------
(* What is shown while an update is installed. *)

LiveInv ==
  \A u \in Updaters : /\ work[u] = "none" => mark[u] = 0
                      /\ work[u] = "running" => pct = mark[u]

LEMMA LiveStep ==
  ASSUME Inv1, AloneInv, LiveInv, [Next]_vars
  PROVE  LiveInv'
<1>0. /\ TypeOK /\ UpdaterInv /\ WorkInv /\ UpdaterEntries(ready)
      /\ mark \in [Updaters -> Nat]
      /\ work \in [Updaters -> {"none", "running", "killed"} \cup Verdicts]
    BY DEF Inv1, UpdaterInv, TypeOK, UpdTypes
\* A handler that runs is that of the only update under way.
<1>1. ASSUME NEW u \in Updaters, Answering(u), work[u] # "running"
      PROVE  \A v \in Updaters : work[v] # "running"
    BY <1>0, <1>1 DEF WorkInv, AloneInv, Answering
<1>2. ASSUME Runs("control")
      PROVE  /\ This.of \in Updaters
             /\ This.how = "ask" => upload[This.of] = "asking"
             /\ This.how = "eof" => upload[This.of] = "ended"
             /\ This.how = "result" => upload[This.of] = "installing" /\ work[This.of] \in Verdicts
    BY <1>0, <1>2, ThisOf, ThisEntry DEF Runs, This, UpdaterEntry, UpdaterEntries
<1>3. CASE UNCHANGED <<pct, work, mark>>
    BY <1>3 DEF LiveInv
<1>4. CASE RunAsk \/ RunResult
  <2>1. PICK u \in Updaters : Answering(u) /\ work[u] # "running"
    <3>1. Runs("control") /\ (This.how = "ask" \/ This.how = "result")
        BY <1>4 DEF RunAsk, RunResult
    <3> QED BY <1>0, <1>2, <3>1 DEF Answering, WorkInv, Verdicts, SUCCESS, FAILURE
  <2>2. work' = work /\ mark' = mark
      BY <1>4 DEF RunAsk, RunResult, NotifyFrom
  <2> QED BY <1>1, <2>1, <2>2 DEF LiveInv
<1>5. CASE RunUploaded
  <2>1. PICK u \in Updaters : upload[u] = "ended" /\ work' = [work EXCEPT ![u] = "running"]
      BY <1>2, <1>5 DEF RunUploaded
  <2>2. work[u] = "none" /\ mark[u] = 0
      BY <1>0, <2>1 DEF WorkInv, LiveInv
  <2>3. \A v \in Updaters : work[v] # "running"
      BY <1>1, <2>1, <2>2 DEF Answering
  <2>4. pct' = 0 /\ mark' = mark
      BY <1>5 DEF RunUploaded
  <2> QED BY <1>0, <2>1, <2>2, <2>3, <2>4 DEF LiveInv
<1>6. ASSUME NEW u \in Updaters, Report(u) PROVE LiveInv'
  <2>1. \A v \in Updaters : work[v] = "running" => v = u
      BY <1>0, <1>6 DEF Report, WorkInv, AloneInv, Answering
  <2>2. work' = work /\ work[u] = "running" /\ mark' = [mark EXCEPT ![u] = pct']
      BY <1>6 DEF Report
  <2> QED BY <1>0, <2>1, <2>2 DEF LiveInv
<1>7. ASSUME NEW u \in Updaters, Finish(u) PROVE LiveInv'
  <2>1. /\ work[u] = "running" /\ pct' = pct /\ mark' = mark
        /\ \E v \in Verdicts : work' = [work EXCEPT ![u] = v]
      BY <1>7 DEF Finish, shown
  <2> QED BY <1>0, <2>1 DEF LiveInv, Verdicts, SUCCESS, FAILURE
<1>8. CASE Crash
  <2>1. \A v \in Updaters : work'[v] # "running" /\ (work'[v] = "none" => work[v] = "none")
      BY <1>0, <1>8 DEF Crash, WorkInv, Answering
  <2>2. mark' = mark
      BY <1>8 DEF Crash
  <2> QED BY <2>1, <2>2 DEF LiveInv
<1>9. CASE \/ RunNotify \/ RunStart \/ RunWake \/ RunDrained \/ RunLost \/ RunHangUp
           \/ RunUploadError \/ RunRestart \/ Clock \/ Others \/ UNCHANGED vars
  <2>1. UNCHANGED <<pct, work, mark>>
      BY <1>9 DEF RunNotify, NotifyFrom, RunStart, RunWake, RunDrained, RunLost, RunHangUp, RunUploadError,
            RunRestart, Clock, Timeout, SleepOver, Others, Connect, HangUp, Notice, Ask, EndUpload, vars, shown, upd
  <2> QED BY <1>3, <2>1
<1> QED BY <1>4, <1>5, <1>6, <1>7, <1>8, <1>9 DEF Next, Alive, RunLoop, Worker

\* With one update at a time, status and percentage are those of the update that is
\* being installed, whatever handlers of earlier updates still do.
THEOREM ShownIsAlwaysLive == ASSUME OneAtATime PROVE Spec => []ShownIsLive
<1>1. Init => Inv1 /\ Inv2 /\ LiveInv
  <2>1. Init => LiveInv
      BY DEF Init, LiveInv
  <2> QED BY <2>1, InitInv1, InitInv2
<1>2. Inv1 /\ Inv2 /\ LiveInv /\ [Next]_vars => (Inv1 /\ Inv2 /\ LiveInv)'
  <2>1. Inv2 => AloneInv
      BY DEF Inv2, TurnInv
  <2> QED BY <2>1, OneAtATime, Inv1Step, Inv2Step, LiveStep
<1>3. Inv1 /\ Inv2 /\ LiveInv => ShownIsLive
  <2> SUFFICES ASSUME Inv1, Inv2, LiveInv, NEW u \in Updaters, work[u] = "running"
               PROVE  status = RUN /\ pct = mark[u]
      BY DEF ShownIsLive
  <2>1. upload[u] = "installing" /\ status \in {RUN, SUCCESS, FAILURE}
      BY DEF Inv1, UpdaterInv, WorkInv, TypeOK, ShownTypes
  <2>2. status = RUN
      BY <2>1 DEF Inv2, TurnInv, StatusInv, RUN, SUCCESS, FAILURE
  <2> QED BY <2>2 DEF LiveInv
<1> QED BY <1>1, <1>2, <1>3, PTL DEF Spec
=============================================================================
